--------------------------- MODULE WSServerProofs ---------------------------
(***************************************************************************)
(* Theorems about teardown in WSServer, for any connections, threads,      *)
(* timeouts, limits and bounds: the registry is exact, nothing refers to a *)
(* freed session, and OnClientClose is called once for every connection    *)
(* that saw OnOpen.  First come the types: what each procedure of the unit *)
(* makes of a connection record, and each action of the state; last that   *)
(* WSServer implements WSLifecycle, its contract with the host.            *)
(***************************************************************************)
EXTENDS WSServer, SequenceTheorems, TLAPS

USE ServerAssumption

-----------------------------------------------------------------------------
(* Types.  Every procedure maps a connection record to a connection        *)
(* record; one lemma per procedure, in the order they call each other.     *)

LEMMA ArmedTyped == \A ms \in Int : Armed(ms) \in Nat
  BY DEF Armed

LEMMA NoConnTyped == NoConn \in ConnRec
  BY DEF NoConn, ConnRec

LEMMA RescheduleTyped == \A s \in ConnRec : Reschedule(s) \in ConnRec
<1> SUFFICES ASSUME NEW s \in ConnRec PROVE Reschedule(s) \in ConnRec
  OBVIOUS
<1>1. s.pingDue \in Nat /\ s.deadline \in Nat
  BY DEF ConnRec
<1>2. [s EXCEPT !.sweepAt = s.pingDue] \in ConnRec
  BY <1>1 DEF ConnRec
<1>3. [s EXCEPT !.sweepAt = s.deadline] \in ConnRec
  BY <1>1 DEF ConnRec
<1> QED
  BY <1>2, <1>3 DEF Reschedule

LEMMA ArmDeadlineTyped ==
  \A s \in ConnRec, ms \in Nat : ArmDeadline(s, ms) \in ConnRec
<1> SUFFICES ASSUME NEW s \in ConnRec, NEW ms \in Nat
             PROVE  ArmDeadline(s, ms) \in ConnRec
  OBVIOUS
<1>1. Armed(ms) \in Nat
  BY ArmedTyped
<1>2. [s EXCEPT !.deadline = Armed(ms)] \in ConnRec
  BY <1>1 DEF ConnRec
<1> QED
  BY <1>2, RescheduleTyped DEF ArmDeadline

LEMMA BeginDrainTyped == \A s \in ConnRec : BeginDrain(s) \in ConnRec
<1> SUFFICES ASSUME NEW s \in ConnRec PROVE BeginDrain(s) \in ConnRec
  OBVIOUS
<1>1. [s EXCEPT !.dropPending = TRUE, !.pingDue = 0] \in ConnRec
  BY DEF ConnRec
<1>2. CloseTimeout \in Nat
  BY DEF ServerAssumption
<1> QED
  BY <1>1, <1>2, ArmDeadlineTyped DEF BeginDrain

LEMMA NoteActivityTyped == \A s \in ConnRec : NoteActivity(s) \in ConnRec
<1> SUFFICES ASSUME NEW s \in ConnRec PROVE NoteActivity(s) \in ConnRec
  OBVIOUS
<1>1. Armed(IdleTimeout) \in Nat /\ Armed(PingInterval) \in Nat
  BY ArmedTyped DEF ServerAssumption
<1>2. [s EXCEPT !.deadline = Armed(IdleTimeout),
                !.pingDue = Armed(PingInterval), !.asked = 0] \in ConnRec
  BY <1>1 DEF ConnRec
<1> QED
  BY <1>2, RescheduleTyped DEF NoteActivity

LEMMA FreedTyped == \A s \in ConnRec : Freed(s) \in ConnRec
<1> SUFFICES ASSUME NEW s \in ConnRec PROVE Freed(s) \in ConnRec
  OBVIOUS
<1> DEFINE p == IF s.tport = "dead" THEN "dead" ELSE "closed"
           t == [NoConn EXCEPT !.life = "freed", !.dropping = TRUE, !.tport = p]
<1>1. s.opened \in BOOLEAN /\ s.closes \in Nat /\ s.wire \in Seq(Item)
  BY DEF ConnRec
<1>2. p \in {"none", "open", "dead", "closed"}
  OBVIOUS
<1>3. t \in ConnRec
  <2> HIDE DEF p
  <2> QED
    BY <1>2, NoConnTyped DEF ConnRec
<1>4. \A n \in ConnRec, o \in BOOLEAN, k \in Nat, w \in Seq(Item) :
        [n EXCEPT !.opened = o, !.closes = k, !.wire = w] \in ConnRec
  <2> TAKE n \in ConnRec, o \in BOOLEAN, k \in Nat, w \in Seq(Item)
  <2> QED
    BY DEF ConnRec
<1>5. Freed(s) =
        [t EXCEPT !.opened = s.opened, !.closes = s.closes, !.wire = s.wire]
  BY DEF Freed
<1> HIDE DEF t
<1>6. [t EXCEPT !.opened = s.opened, !.closes = s.closes, !.wire = s.wire]
        \in ConnRec
  BY <1>1, <1>3, <1>4, Zenon
<1> QED
  BY <1>5, <1>6, Zenon

LEMMA ReleaseConnTyped == \A s \in ConnRec : ReleaseConn(s) \in ConnRec
<1> SUFFICES ASSUME NEW s \in ConnRec PROVE ReleaseConn(s) \in ConnRec
  OBVIOUS
<1>1. s.closes \in Nat
  BY DEF ConnRec
<1>2. s.closes + 1 \in Nat
  BY <1>1
<1>3. <<>> \in Seq(FrameKinds)
  OBVIOUS
<1>4. [s EXCEPT !.run = "onclose", !.todo = <<>>, !.closes = s.closes + 1]
        \in ConnRec
  BY <1>2, <1>3 DEF ConnRec
<1> QED
  BY <1>4, FreedTyped DEF ReleaseConn

LEMMA DropConnTyped == \A s \in ConnRec : DropConn(s) \in ConnRec
<1> SUFFICES ASSUME NEW s \in ConnRec PROVE DropConn(s) \in ConnRec
  OBVIOUS
<1>1. [s EXCEPT !.dropDeferred = TRUE] \in ConnRec
  BY DEF ConnRec
<1>2. [s EXCEPT !.dropping = TRUE, !.userData = FALSE] \in ConnRec
  BY DEF ConnRec
<1> QED
  BY <1>1, <1>2, ReleaseConnTyped DEF DropConn

Results == {"dead", "none", "some", "all"}

LEMMA TakenTyped ==
  \A s \in ConnRec, e \in Results :
    s.out # <<>> => Taken(s, e) \in 0 .. Len(s.out)
<1> SUFFICES ASSUME NEW s \in ConnRec, NEW e \in Results, s.out # <<>>
             PROVE  Taken(s, e) \in 0 .. Len(s.out)
  OBVIOUS
<1>1. s.out \in Seq(Item)
  BY DEF ConnRec
<1>2. Len(s.out) \in Nat /\ Len(s.out) # 0
  BY <1>1
<1> QED
  BY <1>2 DEF Taken

LEMMA OutConsumeTyped ==
  \A s \in ConnRec : \A n \in 0 .. Len(s.out) : OutConsume(s, n) \in ConnRec
<1> SUFFICES ASSUME NEW s \in ConnRec, NEW n \in 0 .. Len(s.out)
             PROVE  OutConsume(s, n) \in ConnRec
  OBVIOUS
<1>1. s.out \in Seq(Item) /\ s.wire \in Seq(Item)
  BY DEF ConnRec
<1>2. SubSeq(s.out, 1, n) \in Seq(Item)
  BY <1>1
<1>3. SubSeq(s.out, n + 1, Len(s.out)) \in Seq(Item)
  BY <1>1
<1>4. s.wire \o SubSeq(s.out, 1, n) \in Seq(Item)
  BY <1>1, <1>2
<1>5. \A w \in Seq(Item), o \in Seq(Item), b \in BOOLEAN :
        [s EXCEPT !.wire = w, !.out = o, !.owed = b] \in ConnRec
  BY DEF ConnRec
<1>6. (n < Len(s.out)) \in BOOLEAN
  OBVIOUS
<1> QED
  BY <1>3, <1>4, <1>5, <1>6 DEF OutConsume

LEMMA FlushConnTyped ==
  \A s \in ConnRec, e \in Results : FlushConn(s, e) \in ConnRec
<1> SUFFICES ASSUME NEW s \in ConnRec, NEW e \in Results
             PROVE  FlushConn(s, e) \in ConnRec
  OBVIOUS
<1>1. CASE s.out = <<>>
  BY <1>1 DEF FlushConn
<1>2. CASE s.out # <<>> /\ e = "dead"
  <2>1. [s EXCEPT !.tport = "dead"] \in ConnRec
    BY DEF ConnRec
  <2> QED
    BY <1>2, <2>1, DropConnTyped DEF FlushConn
<1>3. CASE s.out # <<>> /\ e # "dead"
  <2>1. OutConsume(s, Taken(s, e)) \in ConnRec
    BY <1>3, TakenTyped, OutConsumeTyped
  <2> QED
    BY <1>3, <2>1, DropConnTyped DEF FlushConn
<1> QED
  BY <1>1, <1>2, <1>3

LEMMA DrainThenDropTyped ==
  \A s \in ConnRec, e \in Results : DrainThenDrop(s, e) \in ConnRec
<1> SUFFICES ASSUME NEW s \in ConnRec, NEW e \in Results
             PROVE  DrainThenDrop(s, e) \in ConnRec
  OBVIOUS
<1>1. FlushConn(BeginDrain(s), e) \in ConnRec
  BY BeginDrainTyped, FlushConnTyped
<1>2. /\ DropConn(s) \in ConnRec
      /\ DropConn(FlushConn(BeginDrain(s), e)) \in ConnRec
  BY <1>1, DropConnTyped
<1> QED
  BY <1>1, <1>2 DEF DrainThenDrop

LEMMA SettleDeliveryTyped ==
  \A s \in ConnRec, e \in Results : SettleDelivery(s, e) \in ConnRec
<1> SUFFICES ASSUME NEW s \in ConnRec, NEW e \in Results
             PROVE  SettleDelivery(s, e) \in ConnRec
  OBVIOUS
<1>1. [s EXCEPT !.dropDeferred = FALSE] \in ConnRec
  BY DEF ConnRec
<1> QED
  BY <1>1, DropConnTyped, DrainThenDropTyped DEF SettleDelivery

LEMMA ItemTyped ==
  /\ \A kind \in {"101", "answer", "data", "ping", "pong", "close"} :
       It(kind) \in Item
  /\ \A n \in Nat : DataItem(n) \in Item
  BY DEF It, DataItem, Item

LEMMA QueueTyped ==
  \A s \in ConnRec, item \in Item : Queue(s, item) \in ConnRec
<1> SUFFICES ASSUME NEW s \in ConnRec, NEW item \in Item
             PROVE  Queue(s, item) \in ConnRec
  OBVIOUS
<1>1. s.out \in Seq(Item)
  BY DEF ConnRec
<1>2. Append(s.out, item) \in Seq(Item)
  BY <1>1
<1>3. \A o \in Seq(Item) : [s EXCEPT !.out = o] \in ConnRec
  BY DEF ConnRec
<1> QED
  BY <1>2, <1>3 DEF Queue

LEMMA SendFrameTyped ==
  \A s \in ConnRec, item \in Item : SendFrame(s, item) \in ConnRec
  BY QueueTyped DEF SendFrame

LEMMA SendCloseTyped == \A s \in ConnRec : SendClose(s) \in ConnRec
<1> SUFFICES ASSUME NEW s \in ConnRec PROVE SendClose(s) \in ConnRec
  OBVIOUS
<1>1. [s EXCEPT !.closeSent = TRUE] \in ConnRec
  BY DEF ConnRec
<1>2. It("close") \in Item
  BY ItemTyped
<1> QED
  BY <1>1, <1>2, QueueTyped DEF SendClose

LEMMA FailTyped == \A s \in ConnRec : Fail(s) \in ConnRec
<1> SUFFICES ASSUME NEW s \in ConnRec PROVE Fail(s) \in ConnRec
  OBVIOUS
<1>1. [s EXCEPT !.failed = TRUE] \in ConnRec
  BY DEF ConnRec
<1> QED
  BY <1>1, SendCloseTyped DEF Fail

LEMMA ClosingTyped ==
  \A s \in ConnRec : [s EXCEPT !.state = "closing"] \in ConnRec
<1> TAKE s \in ConnRec
<1> QED
  BY DEF ConnRec

LEMMA HandlerRaisedTyped == \A s \in ConnRec : HandlerRaised(s) \in ConnRec
<1> SUFFICES ASSUME NEW s \in ConnRec PROVE HandlerRaised(s) \in ConnRec
  OBVIOUS
<1> DEFINE t == [s EXCEPT !.faulted = TRUE]
<1>1. t \in ConnRec
  BY DEF ConnRec
<1> HIDE DEF t
<1>2. [SendClose(t) EXCEPT !.state = "closing"] \in ConnRec
  BY <1>1, SendCloseTyped, ClosingTyped, Zenon
<1> USE DEF t
<1>3. HandlerRaised(s) \in
        {s, t, [SendClose(t) EXCEPT !.state = "closing"]}
  BY DEF HandlerRaised
<1> HIDE DEF t
<1> QED
  BY <1>1, <1>2, <1>3, Zenon

LEMMA PingLapsedTyped == \A s \in ConnRec : PingLapsed(s) \in ConnRec
<1> SUFFICES ASSUME NEW s \in ConnRec PROVE PingLapsed(s) \in ConnRec
  OBVIOUS
<1>1. AnswerBy \in Nat /\ s.deadline \in Nat
  <2>1. IdleTimeout - PingInterval \in Int
    BY DEF ServerAssumption
  <2>2. AnswerBy \in Nat
    BY <2>1, ArmedTyped, Zenon DEF AnswerBy
  <2> QED
    BY <2>2 DEF ConnRec
<1>2. \A d \in Nat : [s EXCEPT !.pingDue = 0, !.deadline = d] \in ConnRec
  <2> TAKE d \in Nat
  <2> QED
    BY DEF ConnRec
<1>3. \A d \in Nat :
        Reschedule([s EXCEPT !.pingDue = 0, !.deadline = d]) \in ConnRec
  BY <1>2, RescheduleTyped
<1> DEFINE put == /\ s.state = "open" /\ s.deadline # 0 /\ PingInterval > 0
                  /\ IdleTimeout > PingInterval /\ AnswerBy > s.deadline
           d == IF put THEN AnswerBy ELSE s.deadline
<1>4. PingLapsed(s) = Reschedule([s EXCEPT !.pingDue = 0, !.deadline = d])
  BY DEF PingLapsed
<1> HIDE DEF put
<1>5. d \in Nat
  BY <1>1
<1> HIDE DEF d
<1> QED
  BY <1>3, <1>4, <1>5, Zenon

LEMMA DeadlineLapsedTyped ==
  \A s \in ConnRec, e \in Results : DeadlineLapsed(s, e) \in ConnRec
<1> SUFFICES ASSUME NEW s \in ConnRec, NEW e \in Results
             PROVE  DeadlineLapsed(s, e) \in ConnRec
  OBVIOUS
<1> DEFINE z == [s EXCEPT !.deadline = 0]
           t == [SendClose(z) EXCEPT !.state = "closing"]
<1>1. z \in ConnRec
  BY DEF ConnRec
<1>2. t \in ConnRec
  <2> HIDE DEF z
  <2> QED
    BY <1>1, SendCloseTyped, ClosingTyped, Zenon
<1>3. DeadlineLapsed(s, e) \in {DropConn(FlushConn(t, e)), DropConn(z)}
  BY DEF DeadlineLapsed
<1> HIDE DEF z, t
<1>4. DropConn(FlushConn(t, e)) \in ConnRec /\ DropConn(z) \in ConnRec
  BY <1>1, <1>2, FlushConnTyped, DropConnTyped, Zenon
<1> QED
  BY <1>3, <1>4, Zenon

LEMMA CheckClockTyped ==
  \A s \in ConnRec, e \in Results : CheckClock(s, e) \in ConnRec
<1> SUFFICES ASSUME NEW s \in ConnRec, NEW e \in Results
             PROVE  CheckClock(s, e) \in ConnRec
  OBVIOUS
<1> DEFINE z == [s EXCEPT !.sweepPosted = FALSE]
           p == PingLapsed(z)
           q == [SendFrame(p, It("ping")) EXCEPT !.asked = 1]
<1>1. z \in ConnRec
  BY DEF ConnRec
<1>2. p \in ConnRec
  <2> HIDE DEF z
  <2> QED
    BY <1>1, PingLapsedTyped, Zenon
<1>3. q \in ConnRec
  <2> HIDE DEF p
  <2>1. SendFrame(p, It("ping")) \in ConnRec
    BY <1>2, SendFrameTyped, ItemTyped
  <2>2. \A n \in ConnRec : [n EXCEPT !.asked = 1] \in ConnRec
    <3> TAKE n \in ConnRec
    <3> QED
      BY DEF ConnRec
  <2> QED
    BY <2>1, <2>2, Zenon
<1>4. \A n \in ConnRec : JudgeDeadline(n, e) \in ConnRec
  BY DeadlineLapsedTyped DEF JudgeDeadline
<1>5. CheckClock(s, e) \in
        {z, FlushConn(q, e), JudgeDeadline(p, e), JudgeDeadline(z, e)}
  BY Zenon DEF CheckClock
<1> HIDE DEF z, p, q
<1>6. /\ FlushConn(q, e) \in ConnRec
      /\ JudgeDeadline(p, e) \in ConnRec /\ JudgeDeadline(z, e) \in ConnRec
  BY <1>1, <1>2, <1>3, <1>4, FlushConnTyped, Zenon
<1> QED
  BY <1>1, <1>5, <1>6, Zenon

LEMMA RefuseTyped ==
  \A s \in ConnRec, e \in Results : Refuse(s, e) \in ConnRec
<1> SUFFICES ASSUME NEW s \in ConnRec, NEW e \in Results
             PROVE  Refuse(s, e) \in ConnRec
  OBVIOUS
<1>1. [s EXCEPT !.tport = "dead"] \in ConnRec
  BY DEF ConnRec
<1>2. [s EXCEPT !.wire = Append(s.wire, It("answer"))] \in ConnRec
  <2>1. s.wire \in Seq(Item) /\ It("answer") \in Item
    BY ItemTyped DEF ConnRec
  <2>2. Append(s.wire, It("answer")) \in Seq(Item)
    BY <2>1
  <2>3. \A w \in Seq(Item) : [s EXCEPT !.wire = w] \in ConnRec
    BY DEF ConnRec
  <2> QED
    BY <2>2, <2>3
<1> QED
  BY <1>1, <1>2, DropConnTyped DEF Refuse

LEMMA AnswerTyped ==
  \A s \in ConnRec, e \in Results : Answer(s, e) \in ConnRec
<1> SUFFICES ASSUME NEW s \in ConnRec, NEW e \in Results
             PROVE  Answer(s, e) \in ConnRec
  OBVIOUS
<1>1. [s EXCEPT !.proto = TRUE] \in ConnRec
  BY DEF ConnRec
<1> QED
  BY <1>1, ItemTyped, QueueTyped, DrainThenDropTyped DEF Answer

LEMMA UpgradeTyped ==
  \A s \in ConnRec, e \in Results, left \in Seq(FrameKinds) :
    Upgrade(s, e, left) \in ConnRec
<1> SUFFICES ASSUME NEW s \in ConnRec, NEW e \in Results,
                    NEW left \in Seq(FrameKinds)
             PROVE  Upgrade(s, e, left) \in ConnRec
  OBVIOUS
<1> DEFINE q == Queue([s EXCEPT !.proto = TRUE], It("101"))
           t == FlushConn(q, e)
           n == NoteActivity([t EXCEPT !.state = "open"])
           r == [n EXCEPT !.inDelivery = TRUE, !.run = "onopen",
                          !.opened = TRUE, !.todo = left]
<1>1. q \in ConnRec
  <2>1. [s EXCEPT !.proto = TRUE] \in ConnRec
    BY DEF ConnRec
  <2> QED
    BY <2>1, ItemTyped, QueueTyped
<1>2. t \in ConnRec
  <2> HIDE DEF q
  <2> QED
    BY <1>1, FlushConnTyped
<1>3. n \in ConnRec
  <2> HIDE DEF t
  <2>1. \A m \in ConnRec : [m EXCEPT !.state = "open"] \in ConnRec
    <3> TAKE m \in ConnRec
    <3> QED
      BY DEF ConnRec
  <2> QED
    BY <1>2, <2>1, NoteActivityTyped, Zenon
<1>4. r \in ConnRec
  <2> HIDE DEF n
  <2>1. \A m \in ConnRec :
          [m EXCEPT !.inDelivery = TRUE, !.run = "onopen",
                    !.opened = TRUE, !.todo = left] \in ConnRec
    <3> TAKE m \in ConnRec
    <3> QED
      BY DEF ConnRec
  <2> QED
    BY <1>3, <2>1, Zenon
<1>5. Upgrade(s, e, left) \in {t, r}
  BY Zenon DEF Upgrade
<1> HIDE DEF t, r
<1> QED
  BY <1>2, <1>4, <1>5, Zenon

LEMMA StartIngestTyped ==
  \A s \in ConnRec, frames \in Seq(FrameKinds) :
    StartIngest(s, frames) \in ConnRec
<1> SUFFICES ASSUME NEW s \in ConnRec, NEW frames \in Seq(FrameKinds)
             PROVE  StartIngest(s, frames) \in ConnRec
  OBVIOUS
<1> DEFINE w == IF Deaf(s) THEN <<>> ELSE frames
<1>1. w \in Seq(FrameKinds)
  <2>1. <<>> \in Seq(FrameKinds)
    OBVIOUS
  <2> QED
    BY <2>1
<1>2. \A v \in Seq(FrameKinds) :
        [s EXCEPT !.inDelivery = TRUE, !.run = "ingest", !.todo = v] \in ConnRec
  <2> TAKE v \in Seq(FrameKinds)
  <2> QED
    BY DEF ConnRec
<1> QED
  BY <1>1, <1>2, Zenon DEF StartIngest

LEMMA ParseFrameTyped ==
  \A s \in ConnRec, f \in FrameKinds : ParseFrame(s, f) \in ConnRec
<1> SUFFICES ASSUME NEW s \in ConnRec, NEW f \in FrameKinds
             PROVE  ParseFrame(s, f) \in ConnRec
  OBVIOUS
<1>1. CASE f = "msg"
  <2>1. [s EXCEPT !.run = "onmessage"] \in ConnRec
    BY DEF ConnRec
  <2> QED
    BY <1>1, <2>1 DEF ParseFrame
<1>2. CASE f = "ping"
  BY <1>2, ItemTyped, SendFrameTyped DEF ParseFrame
<1>3. CASE f = "close"
  <2>1. [s EXCEPT !.closeRecv = TRUE] \in ConnRec
    BY DEF ConnRec
  <2> QED
    BY <1>3, <2>1, SendCloseTyped DEF ParseFrame
<1>4. CASE f = "bad"
  BY <1>4, FailTyped DEF ParseFrame
<1> QED
  BY <1>1, <1>2, <1>3, <1>4 DEF FrameKinds

(* A callback has unwound: nothing is on the stack of the connection.      *)
LEMMA UnwoundTyped ==
  \A s \in ConnRec :
    /\ [s EXCEPT !.inDelivery = FALSE, !.run = "idle"] \in ConnRec
    /\ [s EXCEPT !.todo = <<>>] \in ConnRec
<1> TAKE s \in ConnRec
<1>1. <<>> \in Seq(FrameKinds)
  OBVIOUS
<1> QED
  BY <1>1 DEF ConnRec

LEMMA IngestDoneTyped ==
  \A s \in ConnRec, e \in Results : IngestDone(s, e) \in ConnRec
<1> SUFFICES ASSUME NEW s \in ConnRec, NEW e \in Results
             PROVE  IngestDone(s, e) \in ConnRec
  OBVIOUS
<1> DEFINE u == [s EXCEPT !.inDelivery = FALSE, !.run = "idle"]
           v == FlushConn(u, e)
<1>1. u \in ConnRec
  BY UnwoundTyped
<1>2. IngestDone(s, e) \in
        {SettleDelivery(u, e), DrainThenDrop(u, e), v, DropConn(v),
         BeginDrain(v)}
  BY Zenon DEF IngestDone
<1> HIDE DEF u
<1>3. v \in ConnRec
  BY <1>1, FlushConnTyped
<1> HIDE DEF v
<1>4. /\ SettleDelivery(u, e) \in ConnRec /\ DrainThenDrop(u, e) \in ConnRec
      /\ DropConn(v) \in ConnRec /\ BeginDrain(v) \in ConnRec
  BY <1>1, <1>3, SettleDeliveryTyped, DrainThenDropTyped, DropConnTyped,
     BeginDrainTyped
<1> QED
  BY <1>2, <1>3, <1>4, Zenon

LEMMA SendReadyTyped ==
  \A s \in ConnRec, e \in Results : SendReady(s, e) \in ConnRec
<1> SUFFICES ASSUME NEW s \in ConnRec, NEW e \in Results
             PROVE  SendReady(s, e) \in ConnRec
  OBVIOUS
<1> DEFINE u == [s EXCEPT !.owed = FALSE]
           t == FlushConn(u, e)
<1>1. u \in ConnRec
  BY DEF ConnRec
<1>2. SendReady(s, e) \in {t, DropConn(t)}
  BY Zenon DEF SendReady
<1> HIDE DEF u
<1>3. t \in ConnRec
  BY <1>1, FlushConnTyped
<1> HIDE DEF t
<1> QED
  BY <1>2, <1>3, DropConnTyped, Zenon

LEMMA DirectSendTyped ==
  \A s \in ConnRec, e \in Results : DirectSend(s, e) \in ConnRec
<1> SUFFICES ASSUME NEW s \in ConnRec, NEW e \in Results
             PROVE  DirectSend(s, e) \in ConnRec
  OBVIOUS
<1> DEFINE item == DataItem(s.sent + 1)
           t == [s EXCEPT !.sent = s.sent + 1]
           d == [s EXCEPT !.tport = "dead"]
           w == [t EXCEPT !.wire = Append(t.wire, item), !.owed = FALSE]
<1>1. s.sent + 1 \in Nat
  BY DEF ConnRec
<1>2. item \in Item
  BY <1>1, ItemTyped
<1>3. t \in ConnRec
  <2>1. \A n \in Nat : [s EXCEPT !.sent = n] \in ConnRec
    BY DEF ConnRec
  <2> QED
    BY <1>1, <2>1
<1>4. d \in ConnRec
  BY DEF ConnRec
<1>5. w \in ConnRec
  <2> HIDE DEF t, item
  <2>1. t.wire \in Seq(Item)
    BY <1>3 DEF ConnRec
  <2>2. Append(t.wire, item) \in Seq(Item)
    BY <1>2, <2>1
  <2>3. \A m \in ConnRec, x \in Seq(Item) :
          [m EXCEPT !.wire = x, !.owed = FALSE] \in ConnRec
    <3> TAKE m \in ConnRec, x \in Seq(Item)
    <3> QED
      BY DEF ConnRec
  <2> QED
    BY <1>3, <2>2, <2>3, Zenon
<1>6. DirectSend(s, e) \in {DropConn(d), FlushConn(Queue(t, item), e), w}
  BY Zenon DEF DirectSend
<1> HIDE DEF t, d, w, item
<1>7. DropConn(d) \in ConnRec /\ FlushConn(Queue(t, item), e) \in ConnRec
  BY <1>2, <1>3, <1>4, DropConnTyped, QueueTyped, FlushConnTyped, Zenon
<1> QED
  BY <1>5, <1>6, <1>7, Zenon

LEMMA QueuedSendTyped ==
  \A s \in ConnRec, e \in Results : QueuedSend(s, e) \in ConnRec
<1> SUFFICES ASSUME NEW s \in ConnRec, NEW e \in Results
             PROVE  QueuedSend(s, e) \in ConnRec
  OBVIOUS
<1> DEFINE item == DataItem(s.sent + 1)
           t == [s EXCEPT !.sent = s.sent + 1]
<1>1. s.sent + 1 \in Nat
  BY DEF ConnRec
<1>2. item \in Item
  BY <1>1, ItemTyped
<1>3. t \in ConnRec
  <2>1. \A n \in Nat : [s EXCEPT !.sent = n] \in ConnRec
    BY DEF ConnRec
  <2> QED
    BY <1>1, <2>1
<1>4. QueuedSend(s, e) \in {FlushConn(s, e), FlushConn(Queue(t, item), e)}
  BY Zenon DEF QueuedSend
<1> HIDE DEF t, item
<1>5. FlushConn(s, e) \in ConnRec /\ FlushConn(Queue(t, item), e) \in ConnRec
  BY <1>2, <1>3, QueueTyped, FlushConnTyped, Zenon
<1> QED
  BY <1>4, <1>5, Zenon

LEMMA CloseCallTyped ==
  \A s \in ConnRec, e \in Results : CloseCall(s, e) \in ConnRec
<1> SUFFICES ASSUME NEW s \in ConnRec, NEW e \in Results
             PROVE  CloseCall(s, e) \in ConnRec
  OBVIOUS
<1> DEFINE t == [SendClose(s) EXCEPT !.state = "closing", !.pingDue = 0]
<1>1. t \in ConnRec
  <2>1. \A m \in ConnRec :
          [m EXCEPT !.state = "closing", !.pingDue = 0] \in ConnRec
    <3> TAKE m \in ConnRec
    <3> QED
      BY DEF ConnRec
  <2> QED
    BY <2>1, SendCloseTyped, Zenon
<1>2. CloseCall(s, e) = FlushConn(ArmDeadline(t, CloseTimeout), e)
  BY DEF CloseCall
<1>3. CloseTimeout \in Nat
  BY DEF ServerAssumption
<1> HIDE DEF t
<1> QED
  BY <1>1, <1>2, <1>3, ArmDeadlineTyped, FlushConnTyped

LEMMA SettledTyped ==
  \A s \in ConnRec, e \in Results : Settled(s, e) \in ConnRec
  BY UnwoundTyped, SettleDeliveryTyped, Zenon DEF Settled

LEMMA AfterOpenTyped ==
  \A s \in ConnRec, e \in Results : AfterOpen(s, e) \in ConnRec
<1> SUFFICES ASSUME NEW s \in ConnRec, NEW e \in Results
             PROVE  AfterOpen(s, e) \in ConnRec
  OBVIOUS
<1> DEFINE t == Settled(s, e)
<1>1. t \in ConnRec
  BY SettledTyped
<1>2. s.todo \in Seq(FrameKinds)
  BY DEF ConnRec
<1>3. AfterOpen(s, e) \in {StartIngest(t, s.todo), [t EXCEPT !.todo = <<>>]}
  BY Zenon DEF AfterOpen
<1> HIDE DEF t
<1>4. /\ StartIngest(t, s.todo) \in ConnRec
      /\ [t EXCEPT !.todo = <<>>] \in ConnRec
  BY <1>1, <1>2, StartIngestTyped, UnwoundTyped, Zenon
<1> QED
  BY <1>3, <1>4, Zenon

LEMMA ClockCheckedTyped ==
  \A s \in ConnRec, e \in Results : ClockChecked(s, e) \in ConnRec
<1> SUFFICES ASSUME NEW s \in ConnRec, NEW e \in Results
             PROVE  ClockChecked(s, e) \in ConnRec
  OBVIOUS
<1>1. \A m \in ConnRec, b \in BOOLEAN :
        [m EXCEPT !.inDelivery = b] \in ConnRec
  <2> TAKE m \in ConnRec, b \in BOOLEAN
  <2> QED
    BY DEF ConnRec
<1>2. CheckClock([s EXCEPT !.inDelivery = TRUE], e) \in ConnRec
  BY <1>1, CheckClockTyped, Zenon
<1>3. [CheckClock([s EXCEPT !.inDelivery = TRUE], e)
         EXCEPT !.inDelivery = FALSE] \in ConnRec
  BY <1>1, <1>2, Zenon
<1> QED
  BY <1>3, SettleDeliveryTyped, Zenon DEF ClockChecked

-----------------------------------------------------------------------------
(* The registry.                                                           *)

(* The swap-remove leaves a list of connections and an index for each.     *)
LEMMA RegistryRemoveTyped ==
  ASSUME registry \in Seq(Conns), slot \in [Conns -> Nat],
         NEW c \in Conns, RegistryRemove(c)
  PROVE  registry' \in Seq(Conns) /\ slot' \in [Conns -> Nat]
<1>1. CASE ~Registered(c)
  BY <1>1 DEF RegistryRemove
<1>2. CASE Registered(c)
  <2> DEFINE hole == slot[c]
             tail == registry[Len(registry)]
             moved == [registry EXCEPT ![hole] = tail]
  <2>1. hole \in 1 .. Len(registry) /\ Len(registry) \in Nat
    BY <1>2 DEF Registered
  <2>2. Len(registry) \in 1 .. Len(registry)
    BY <2>1
  <2>3. tail \in Conns
    BY <2>2
  <2>4. moved \in Seq(Conns) /\ Len(moved) = Len(registry)
    BY <2>1, <2>3
  <2>5. /\ registry' = SubSeq(moved, 1, Len(moved) - 1)
        /\ slot' = [slot EXCEPT ![tail] = hole, ![c] = 0]
    BY <1>2 DEF RegistryRemove, Front, Last
  <2> HIDE DEF moved, tail
  <2>6. registry' \in Seq(Conns)
    BY <2>1, <2>4, <2>5
  <2>7. slot' \in [Conns -> Nat]
    BY <2>1, <2>3, <2>5
  <2> QED
    BY <2>6, <2>7
<1> QED
  BY <1>1, <1>2

LEMMA CommitTyped ==
  ASSUME TypeOK, NEW c \in Conns, NEW s \in ConnRec, Commit(c, s),
         UNCHANGED <<inbox, poster, up, leaving>>
  PROVE  TypeOK'
<1>1. conn' \in [Conns -> ConnRec]
  BY Zenon DEF Commit, TypeOK
<1>2. registry' \in Seq(Conns) /\ slot' \in [Conns -> Nat]
  BY RegistryRemoveTyped DEF Commit, TypeOK
<1> QED
  BY <1>1, <1>2 DEF TypeOK

LEMMA SendResultsKnown == \A s : SendResults(s) \subseteq Results
  BY DEF SendResults, Results

LEMMA ReadsTyped == Reads \subseteq Seq(FrameKinds)
<1> SUFFICES ASSUME NEW n \in 1 .. MaxRead, NEW r \in [1 .. n -> Frames]
             PROVE  r \in Seq(FrameKinds)
  BY DEF Reads
<1> QED
  BY DEF ServerAssumption

-----------------------------------------------------------------------------
(* Type correctness.                                                       *)

LEMMA InitTyped == Init => TypeOK
<1> SUFFICES ASSUME Init PROVE TypeOK
  OBVIOUS
<1>1. conn \in [Conns -> ConnRec]
  BY NoConnTyped, Zenon DEF Init
<1>2. <<>> \in Seq(Conns) /\ <<>> \in Seq({"check", "proc"})
  OBVIOUS
<1> QED
  BY <1>1, <1>2 DEF Init, TypeOK

LEMMA AcceptTyped ==
  ASSUME TypeOK, NEW c \in Conns, Accept(c) PROVE TypeOK'
<1>1. conn[c] \in ConnRec
  BY DEF TypeOK
<1>2. CASE Full
  <2>1. [conn[c] EXCEPT !.tport = "closed"] \in ConnRec
    <3>1. \A n \in ConnRec : [n EXCEPT !.tport = "closed"] \in ConnRec
      <4> TAKE n \in ConnRec
      <4> QED
        BY DEF ConnRec
    <3> QED
      BY <1>1, <3>1, Zenon
  <2>2. conn' = [conn EXCEPT ![c] = [conn[c] EXCEPT !.tport = "closed"]]
    BY <1>2 DEF Accept
  <2>3. conn' \in [Conns -> ConnRec]
    BY <2>1, <2>2, Zenon DEF TypeOK
  <2> QED
    BY <1>2, <2>3 DEF Accept, TypeOK
<1>3. CASE ~Full
  <2> DEFINE s == ArmDeadline([NoConn EXCEPT !.life = "live", !.tport = "open",
                                             !.userData = TRUE],
                              HandshakeTimeout)
  <2>1. s \in ConnRec
    <3>1. \A n \in ConnRec :
            [n EXCEPT !.life = "live", !.tport = "open", !.userData = TRUE]
              \in ConnRec
      <4> TAKE n \in ConnRec
      <4> QED
        BY DEF ConnRec
    <3>2. [NoConn EXCEPT !.life = "live", !.tport = "open", !.userData = TRUE]
            \in ConnRec
      BY <3>1, NoConnTyped, Zenon
    <3>3. HandshakeTimeout \in Nat
      BY DEF ServerAssumption
    <3> QED
      BY <3>2, <3>3, ArmDeadlineTyped
  <2>2. conn' = [conn EXCEPT ![c] = s] /\ RegistryAdd(c)
    BY <1>3, Zenon DEF Accept
  <2> HIDE DEF s
  <2>3. conn' \in [Conns -> ConnRec]
    BY <2>1, <2>2, Zenon DEF TypeOK
  <2>4. registry' \in Seq(Conns) /\ slot' \in [Conns -> Nat]
    BY <2>2 DEF RegistryAdd, TypeOK
  <2> QED
    BY <2>3, <2>4 DEF Accept, TypeOK
<1> QED
  BY <1>2, <1>3

LEMMA HandshakeDataTyped ==
  ASSUME TypeOK, NEW c \in Conns, HandshakeData(c) PROVE TypeOK'
<1>1. conn[c] \in ConnRec
  BY DEF TypeOK
<1>2. PICK e \in SendResults(conn[c]) :
        \/ Commit(c, Refuse(conn[c], e))
        \/ Commit(c, Answer(conn[c], e))
        \/ \E left \in Reads \union {<<>>} :
             Commit(c, Upgrade(conn[c], e, left))
  BY Zenon DEF HandshakeData
<1>3. e \in Results
  BY SendResultsKnown
<1>4. UNCHANGED <<inbox, poster, up, leaving>>
  BY DEF HandshakeData
<1>5. CASE Commit(c, Refuse(conn[c], e))
  BY <1>1, <1>3, <1>4, <1>5, RefuseTyped, CommitTyped, Zenon
<1>6. CASE Commit(c, Answer(conn[c], e))
  BY <1>1, <1>3, <1>4, <1>6, AnswerTyped, CommitTyped, Zenon
<1>7. CASE \E left \in Reads \union {<<>>} :
             Commit(c, Upgrade(conn[c], e, left))
  <2>1. PICK left \in Reads \union {<<>>} :
               Commit(c, Upgrade(conn[c], e, left))
    BY <1>7
  <2>2. <<>> \in Seq(FrameKinds)
    OBVIOUS
  <2>3. left \in Seq(FrameKinds)
    BY <2>2, ReadsTyped
  <2>4. Upgrade(conn[c], e, left) \in ConnRec
    BY <1>1, <1>3, <2>3, UpgradeTyped
  <2> QED
    BY <1>4, <2>1, <2>4, CommitTyped, Zenon
<1> QED
  BY <1>2, <1>5, <1>6, <1>7

LEMMA HandleDataTyped ==
  ASSUME TypeOK, NEW c \in Conns, HandleData(c) PROVE TypeOK'
<1>1. conn[c] \in ConnRec
  BY DEF TypeOK
<1>2. PICK frames \in Reads :
        Commit(c, [StartIngest(NoteActivity(conn[c]), frames)
                     EXCEPT !.reads = @ + 1])
  BY Zenon DEF HandleData
<1>3. StartIngest(NoteActivity(conn[c]), frames) \in ConnRec
  BY <1>1, ReadsTyped, NoteActivityTyped, StartIngestTyped
<1>4. \A s \in ConnRec : [s EXCEPT !.reads = s.reads + 1] \in ConnRec
  <2> TAKE s \in ConnRec
  <2>1. s.reads + 1 \in Nat
    BY DEF ConnRec
  <2>2. \A n \in Nat : [s EXCEPT !.reads = n] \in ConnRec
    BY DEF ConnRec
  <2> QED
    BY <2>1, <2>2, Zenon
<1>5. UNCHANGED <<inbox, poster, up, leaving>>
  BY DEF HandleData
<1> QED
  BY <1>2, <1>3, <1>4, <1>5, CommitTyped, Zenon

(* Parsing a frame leaves the rest of the read alone.                      *)
LEMMA SendCloseTodo == \A s \in ConnRec : SendClose(s).todo = s.todo
<1> TAKE s \in ConnRec
<1> QED
  BY DEF ConnRec, SendClose, Queue

LEMMA ParseFrameTodo ==
  \A s \in ConnRec, f \in FrameKinds : ParseFrame(s, f).todo = s.todo
<1> TAKE s \in ConnRec, f \in FrameKinds
<1>1. CASE f = "msg"
  BY <1>1 DEF ConnRec, ParseFrame
<1>2. CASE f = "ping"
  BY <1>2 DEF ConnRec, ParseFrame, SendFrame, Queue
<1>3. CASE f = "close"
  <2> DEFINE t == [s EXCEPT !.closeRecv = TRUE]
  <2>1. t \in ConnRec /\ t.todo = s.todo
    BY DEF ConnRec
  <2>2. ParseFrame(s, f) = SendClose(t)
    BY <1>3 DEF ParseFrame
  <2> HIDE DEF t
  <2> QED
    BY <2>1, <2>2, SendCloseTodo
<1>4. CASE f = "bad"
  <2> DEFINE t == [s EXCEPT !.failed = TRUE]
  <2>1. t \in ConnRec /\ t.todo = s.todo
    BY DEF ConnRec
  <2>2. ParseFrame(s, f) = SendClose(t)
    BY <1>4 DEF ParseFrame, Fail
  <2> HIDE DEF t
  <2> QED
    BY <2>1, <2>2, SendCloseTodo
<1> QED
  BY <1>1, <1>2, <1>3, <1>4 DEF FrameKinds

LEMMA IngestFrameTyped ==
  ASSUME TypeOK, NEW c \in Conns, IngestFrame(c) PROVE TypeOK'
<1> DEFINE s == conn[c]
           t == ParseFrame(s, Head(s.todo))
           w == IF Deaf(t) THEN <<>> ELSE Tail(t.todo)
<1>1. s \in ConnRec /\ s.todo # <<>>
  BY DEF TypeOK, IngestFrame
<1>2. s.todo \in Seq(FrameKinds)
  BY <1>1 DEF ConnRec
<1>3. Head(s.todo) \in FrameKinds
  BY <1>1, <1>2
<1>4. t \in ConnRec
  BY <1>1, <1>3, ParseFrameTyped
<1>5. t.todo = s.todo
  <2> HIDE DEF s
  <2> QED
    BY <1>1, <1>3, ParseFrameTodo
<1>6. w \in Seq(FrameKinds)
  <2> HIDE DEF s, t
  <2>1. Tail(t.todo) \in Seq(FrameKinds)
    BY <1>1, <1>2, <1>5
  <2>2. <<>> \in Seq(FrameKinds)
    OBVIOUS
  <2> QED
    BY <2>1, <2>2
<1>7. /\ Commit(c, [t EXCEPT !.todo = w])
      /\ UNCHANGED <<inbox, poster, up, leaving>>
  BY DEF IngestFrame
<1> HIDE DEF t, w
<1>8. [t EXCEPT !.todo = w] \in ConnRec
  <2>1. \A m \in ConnRec, x \in Seq(FrameKinds) :
          [m EXCEPT !.todo = x] \in ConnRec
    <3> TAKE m \in ConnRec, x \in Seq(FrameKinds)
    <3> QED
      BY DEF ConnRec
  <2> QED
    BY <1>4, <1>6, <2>1, Zenon
<1> QED
  BY <1>7, <1>8, CommitTyped, Zenon

LEMMA IngestEndTyped ==
  ASSUME TypeOK, NEW c \in Conns, IngestEnd(c) PROVE TypeOK'
<1>1. conn[c] \in ConnRec
  BY DEF TypeOK
<1>2. PICK e \in SendResults(conn[c]) : Commit(c, IngestDone(conn[c], e))
  BY Zenon DEF IngestEnd
<1>3. IngestDone(conn[c], e) \in ConnRec
  BY <1>1, SendResultsKnown, IngestDoneTyped
<1>4. UNCHANGED <<inbox, poster, up, leaving>>
  BY DEF IngestEnd
<1> QED
  BY <1>2, <1>3, <1>4, CommitTyped, Zenon

LEMMA HandleSendReadyTyped ==
  ASSUME TypeOK, NEW c \in Conns, HandleSendReady(c) PROVE TypeOK'
<1>1. conn[c] \in ConnRec
  BY DEF TypeOK
<1>2. PICK e \in SendResults(conn[c]) : Commit(c, SendReady(conn[c], e))
  BY Zenon DEF HandleSendReady
<1>3. SendReady(conn[c], e) \in ConnRec
  BY <1>1, SendResultsKnown, SendReadyTyped
<1>4. UNCHANGED <<inbox, poster, up, leaving>>
  BY DEF HandleSendReady
<1> QED
  BY <1>2, <1>3, <1>4, CommitTyped, Zenon

LEMMA HandleClosedTyped ==
  ASSUME TypeOK, NEW c \in Conns, HandleClosed(c) PROVE TypeOK'
<1>1. conn[c] \in ConnRec
  BY DEF TypeOK
<1>2. \A s \in ConnRec :
        [s EXCEPT !.userData = FALSE, !.dropping = TRUE, !.tport = "dead"]
          \in ConnRec
  <2> TAKE s \in ConnRec
  <2> QED
    BY DEF ConnRec
<1>3. ReleaseConn([conn[c] EXCEPT !.userData = FALSE, !.dropping = TRUE,
                                  !.tport = "dead"]) \in ConnRec
  BY <1>1, <1>2, ReleaseConnTyped, Zenon
<1>4. UNCHANGED <<inbox, poster, up, leaving>>
  BY DEF HandleClosed
<1> QED
  BY <1>3, <1>4, CommitTyped, Zenon DEF HandleClosed

(* A call by a handler, counted.                                           *)
LEMMA CallTyped ==
  \A s \in ConnRec : [s EXCEPT !.calls = s.calls + 1] \in ConnRec
<1> TAKE s \in ConnRec
<1>1. s.calls + 1 \in Nat
  BY DEF ConnRec
<1>2. \A n \in Nat : [s EXCEPT !.calls = n] \in ConnRec
  BY DEF ConnRec
<1> QED
  BY <1>1, <1>2, Zenon

LEMMA SendDataTyped ==
  ASSUME TypeOK, NEW c \in Conns, SendData(c) PROVE TypeOK'
<1> DEFINE s == [conn[c] EXCEPT !.calls = conn[c].calls + 1]
<1>1. s \in ConnRec
  BY CallTyped, Zenon DEF TypeOK
<1>2. PICK e \in SendResults(s) :
        Commit(c, QueuedSend(s, e)) \/ Commit(c, DirectSend(s, e))
  BY Zenon DEF SendData
<1>3. UNCHANGED <<inbox, poster, up, leaving>>
  BY DEF SendData
<1> HIDE DEF s
<1>4. QueuedSend(s, e) \in ConnRec /\ DirectSend(s, e) \in ConnRec
  BY <1>1, SendResultsKnown, QueuedSendTyped, DirectSendTyped
<1> QED
  BY <1>2, <1>3, <1>4, CommitTyped, Zenon

LEMMA CloseTyped ==
  ASSUME TypeOK, NEW c \in Conns, Close(c) PROVE TypeOK'
<1> DEFINE s == [conn[c] EXCEPT !.calls = conn[c].calls + 1]
<1>1. s \in ConnRec
  BY CallTyped, Zenon DEF TypeOK
<1>2. PICK e \in SendResults(s) : Commit(c, CloseCall(s, e))
  BY Zenon DEF Close
<1>3. UNCHANGED <<inbox, poster, up, leaving>>
  BY DEF Close
<1> HIDE DEF s
<1>4. CloseCall(s, e) \in ConnRec
  BY <1>1, SendResultsKnown, CloseCallTyped
<1> QED
  BY <1>2, <1>3, <1>4, CommitTyped, Zenon

LEMMA HandlerReturnsTyped ==
  ASSUME TypeOK, NEW c \in Conns, HandlerReturns(c) PROVE TypeOK'
<1> DEFINE s == conn[c]
<1>1. s \in ConnRec /\ s.run \in {"onopen", "onmessage", "onpost"}
  BY DEF TypeOK, HandlerReturns, InHandler
<1>2. PICK e \in SendResults(s) :
        Commit(c, CASE s.run = "onmessage" -> [s EXCEPT !.run = "ingest"]
                    [] s.run = "onopen" -> AfterOpen(s, e)
                    [] s.run = "onpost" -> Settled(s, e))
  BY Zenon DEF HandlerReturns
<1>3. UNCHANGED <<inbox, poster, up, leaving>>
  BY DEF HandlerReturns
<1> HIDE DEF s
<1>4. /\ AfterOpen(s, e) \in ConnRec /\ Settled(s, e) \in ConnRec
      /\ [s EXCEPT !.run = "ingest"] \in ConnRec
  <2>1. [s EXCEPT !.run = "ingest"] \in ConnRec
    BY <1>1 DEF ConnRec
  <2> QED
    BY <1>1, <2>1, SendResultsKnown, AfterOpenTyped, SettledTyped
<1>5. CASE s.run = "onmessage"
  <2>1. Commit(c, [s EXCEPT !.run = "ingest"])
    BY <1>2, <1>5
  <2> QED
    BY <1>3, <1>4, <2>1, CommitTyped, Zenon
<1>6. CASE s.run = "onopen"
  <2>1. Commit(c, AfterOpen(s, e))
    BY <1>2, <1>6
  <2> QED
    BY <1>3, <1>4, <2>1, CommitTyped, Zenon
<1>7. CASE s.run = "onpost"
  <2>1. Commit(c, Settled(s, e))
    BY <1>2, <1>7
  <2> QED
    BY <1>3, <1>4, <2>1, CommitTyped, Zenon
<1> QED
  BY <1>1, <1>5, <1>6, <1>7

LEMMA HandlerRaisesTyped ==
  ASSUME TypeOK, NEW c \in Conns, HandlerRaises(c) PROVE TypeOK'
<1> DEFINE s == [HandlerRaised(conn[c]) EXCEPT !.todo = <<>>]
<1>1. s \in ConnRec
  BY HandlerRaisedTyped, UnwoundTyped, Zenon DEF TypeOK
<1>2. PICK e \in SendResults(s) : Commit(c, Settled(s, e))
  BY Zenon DEF HandlerRaises
<1>3. UNCHANGED <<inbox, poster, up, leaving>>
  BY DEF HandlerRaises
<1> HIDE DEF s
<1>4. Settled(s, e) \in ConnRec
  BY <1>1, SendResultsKnown, SettledTyped
<1> QED
  BY <1>2, <1>3, <1>4, CommitTyped, Zenon

LEMMA CloseReturnsTyped ==
  ASSUME TypeOK, NEW c \in Conns, CloseReturns(c) PROVE TypeOK'
<1>1. Freed(conn[c]) \in ConnRec
  BY FreedTyped, Zenon DEF TypeOK
<1>2. Commit(c, Freed(conn[c])) /\ UNCHANGED <<inbox, poster, up, leaving>>
  BY DEF CloseReturns
<1> QED
  BY <1>1, <1>2, CommitTyped, Zenon

LEMMA PostLookupTyped ==
  ASSUME TypeOK, NEW t \in Threads, NEW c \in Conns, PostLookup(t, c)
  PROVE  TypeOK'
<1>1. poster' \in [Threads -> Conns \union {Nobody}]
  BY DEF PostLookup, TypeOK
<1> QED
  BY <1>1, Zenon DEF PostLookup, TypeOK

LEMMA PostSubmitTyped ==
  ASSUME TypeOK, NEW t \in Threads, PostSubmit(t)
  PROVE  TypeOK'
<1>1. poster[t] \in Conns /\ poster' \in [Threads -> Conns \union {Nobody}]
  BY DEF PostSubmit, TypeOK
<1>2. inbox[poster[t]] \in Seq({"check", "proc"})
  BY <1>1 DEF TypeOK
<1>3. Append(inbox[poster[t]], "proc") \in Seq({"check", "proc"})
  BY <1>2
<1>4. inbox' \in [Conns -> Seq({"check", "proc"})]
  BY <1>1, <1>2, <1>3, Zenon DEF PostSubmit, SubmitPost, TypeOK
<1> QED
  BY <1>1, <1>4, Zenon DEF PostSubmit, TypeOK

LEMMA DeliverPostTyped ==
  ASSUME TypeOK, NEW c \in Conns, DeliverPost(c) PROVE TypeOK'
<1>1. /\ conn[c] \in ConnRec /\ inbox[c] \in Seq({"check", "proc"})
      /\ inbox[c] # <<>>
  BY DEF TypeOK, DeliverPost
<1>2. Tail(inbox[c]) \in Seq({"check", "proc"})
  BY <1>1
<1>3. inbox' \in [Conns -> Seq({"check", "proc"})]
  BY <1>2, Zenon DEF DeliverPost, TypeOK
<1>4. \A s \in ConnRec : Commit(c, s) =>
        /\ conn' \in [Conns -> ConnRec]
        /\ registry' \in Seq(Conns) /\ slot' \in [Conns -> Nat]
  <2> SUFFICES ASSUME NEW s \in ConnRec, Commit(c, s)
               PROVE  /\ conn' \in [Conns -> ConnRec]
                      /\ registry' \in Seq(Conns) /\ slot' \in [Conns -> Nat]
    OBVIOUS
  <2>1. conn' \in [Conns -> ConnRec]
    BY Zenon DEF Commit, TypeOK
  <2>2. registry' \in Seq(Conns) /\ slot' \in [Conns -> Nat]
    BY RegistryRemoveTyped DEF Commit, TypeOK
  <2> QED
    BY <2>1, <2>2
<1>5. /\ conn' \in [Conns -> ConnRec]
      /\ registry' \in Seq(Conns) /\ slot' \in [Conns -> Nat]
  <2>1. CASE ~conn[c].userData
    BY <2>1, Zenon DEF DeliverPost, TypeOK
  <2>2. CASE conn[c].userData /\ Head(inbox[c]) = "check"
    <3>1. PICK e \in SendResults(conn[c]) : Commit(c, ClockChecked(conn[c], e))
      BY <2>2, Zenon DEF DeliverPost
    <3>2. ClockChecked(conn[c], e) \in ConnRec
      BY <1>1, SendResultsKnown, ClockCheckedTyped
    <3> QED
      BY <1>4, <3>1, <3>2, Zenon
  <2>3. CASE conn[c].userData /\ Head(inbox[c]) # "check"
    <3>1. Commit(c, [conn[c] EXCEPT !.inDelivery = TRUE, !.run = "onpost"])
      BY <2>3, Zenon DEF DeliverPost
    <3>2. \A s \in ConnRec :
            [s EXCEPT !.inDelivery = TRUE, !.run = "onpost"] \in ConnRec
      <4> TAKE s \in ConnRec
      <4> QED
        BY DEF ConnRec
    <3> QED
      BY <1>1, <1>4, <3>1, <3>2, Zenon
  <2> QED
    BY <2>1, <2>2, <2>3
<1> QED
  BY <1>3, <1>5, Zenon DEF DeliverPost, TypeOK

LEMMA PostChecksTyped ==
  ASSUME TypeOK, NEW cs, PostChecks(cs) PROVE TypeOK'
<1>1. \A c \in Conns :
        [conn[c] EXCEPT !.sweepPosted = TRUE] \in ConnRec
  <2> TAKE c \in Conns
  <2>1. conn[c] \in ConnRec
    BY DEF TypeOK
  <2>2. \A s \in ConnRec : [s EXCEPT !.sweepPosted = TRUE] \in ConnRec
    <3> TAKE s \in ConnRec
    <3> QED
      BY DEF ConnRec
  <2> QED
    BY <2>1, <2>2, Zenon
<1>2. \A c \in Conns : Append(inbox[c], "check") \in Seq({"check", "proc"})
  BY DEF TypeOK
<1>3. conn' \in [Conns -> ConnRec]
  BY <1>1, Zenon DEF PostChecks, TypeOK
<1>4. inbox' \in [Conns -> Seq({"check", "proc"})]
  BY <1>2, Zenon DEF PostChecks, TypeOK
<1> QED
  BY <1>3, <1>4, Zenon DEF PostChecks, TypeOK

LEMMA TickTyped == ASSUME TypeOK, Tick PROVE TypeOK'
<1>1. /\ \A k \in Nat : TickDown(k) \in Nat
      /\ \A k \in Nat : TickUp(k) \in Nat
  BY DEF TickDown, TickUp
<1>2. \A s \in ConnRec :
        [s EXCEPT !.deadline = TickDown(s.deadline),
                  !.pingDue = TickDown(s.pingDue),
                  !.sweepAt = TickDown(s.sweepAt),
                  !.asked = TickUp(s.asked)] \in ConnRec
  <2> TAKE s \in ConnRec
  <2>1. \A d, p, w, a \in Nat :
          [s EXCEPT !.deadline = d, !.pingDue = p, !.sweepAt = w, !.asked = a]
            \in ConnRec
    <3> TAKE d, p, w, a \in Nat
    <3> QED
      BY DEF ConnRec
  <2>2. /\ s.deadline \in Nat /\ s.pingDue \in Nat
        /\ s.sweepAt \in Nat /\ s.asked \in Nat
    BY DEF ConnRec
  <2> QED
    BY <1>1, <2>1, <2>2, Zenon
<1>3. conn' \in [Conns -> ConnRec]
  BY <1>2, Zenon DEF Tick, TypeOK
<1> QED
  BY <1>3, Zenon DEF Tick, TypeOK

LEMMA DestroyTyped == ASSUME TypeOK, Destroy PROVE TypeOK'
<1>1. \A s \in ConnRec : Detach(s) \in ConnRec
  <2> TAKE s \in ConnRec
  <2> QED
    BY DEF ConnRec, Detach
<1>2. conn' \in [Conns -> ConnRec]
  BY <1>1, Zenon DEF Destroy, TypeOK
<1>3. <<>> \in Seq(Conns) /\ <<>> \in Seq({"check", "proc"}) /\ 0 \in Nat
  OBVIOUS
<1> QED
  BY <1>2, <1>3, Zenon DEF Destroy, TypeOK

LEMMA ReleaseNextTyped == ASSUME TypeOK, ReleaseNext PROVE TypeOK'
<1>1. leaving \in Seq(Conns) /\ leaving # <<>>
  BY DEF ReleaseNext, TypeOK
<1>2. Head(leaving) \in Conns /\ Tail(leaving) \in Seq(Conns)
  BY <1>1
<1>3. conn' \in [Conns -> ConnRec]
  BY <1>2, ReleaseConnTyped, Zenon DEF ReleaseNext, TypeOK
<1> QED
  BY <1>2, <1>3, Zenon DEF ReleaseNext, TypeOK

LEMMA TypeStep == ASSUME TypeOK, [Next]_vars PROVE TypeOK'
<1>1. ASSUME NEW c \in Conns,
             \/ Accept(c) \/ HandshakeData(c) \/ HandleData(c)
             \/ IngestFrame(c) \/ IngestEnd(c) \/ HandleSendReady(c)
             \/ HandleClosed(c)
      PROVE  TypeOK'
  BY <1>1, AcceptTyped, HandshakeDataTyped, HandleDataTyped, IngestFrameTyped,
     IngestEndTyped, HandleSendReadyTyped, HandleClosedTyped, Zenon
<1>2. ASSUME NEW c \in Conns,
             \/ SendData(c) \/ Close(c) \/ HandlerReturns(c)
             \/ HandlerRaises(c) \/ CloseReturns(c)
      PROVE  TypeOK'
  BY <1>2, SendDataTyped, CloseTyped, HandlerReturnsTyped, HandlerRaisesTyped,
     CloseReturnsTyped, Zenon
<1>3. ASSUME NEW c \in Conns,
             \/ DeliverPost(c) \/ SweepStale(c)
             \/ \E t \in Threads : PostLookup(t, c)
      PROVE  TypeOK'
  BY <1>3, DeliverPostTyped, PostChecksTyped, PostLookupTyped, Zenon
     DEF SweepStale
<1>4. ASSUME NEW t \in Threads, PostSubmit(t) PROVE TypeOK'
  BY <1>4, PostSubmitTyped
<1>5. CASE SweepClocks
  BY <1>5, PostChecksTyped, Zenon DEF SweepClocks
<1>6. CASE Tick
  BY <1>6, TickTyped
<1>7. CASE Destroy
  BY <1>7, DestroyTyped
<1>8. CASE ReleaseNext
  BY <1>8, ReleaseNextTyped
<1>9. CASE UNCHANGED vars
  BY <1>9 DEF vars, TypeOK
<1> QED
  BY <1>1, <1>2, <1>3, <1>4, <1>5, <1>6, <1>7, <1>8, <1>9, Zenon DEF Next

(* Whatever the constants, each procedure of the unit keeps the connection *)
(* record well formed and the registry a list of connections.              *)
THEOREM TypeInvariant == Spec => []TypeOK
<1>1. Init => TypeOK
  BY InitTyped
<1>2. TypeOK /\ [Next]_vars => TypeOK'
  BY TypeStep
<1> QED
  BY <1>1, <1>2, PTL DEF Spec

-----------------------------------------------------------------------------
(* A record of a connection that has been accepted, between two callbacks. *)
Good == {s \in ConnRec : Lawful(s) /\ s.life # "none"}

(* What the invariant reads of a record.  Inside a delivery no procedure   *)
(* changes it: drops are deferred.                                         *)
Alike(s, t) ==
  /\ t.life = s.life /\ t.run = s.run
  /\ t.userData = s.userData /\ t.inDelivery = s.inDelivery
  /\ t.dropping = s.dropping /\ t.opened = s.opened /\ t.closes = s.closes
  /\ t.state = "handshake" <=> s.state = "handshake"

LEMMA AlikeTrans ==
  \A r, s, t : Alike(r, s) /\ Alike(s, t) => Alike(r, t)
  BY DEF Alike

LEMMA AlikeGood == \A s \in Good, t \in ConnRec : Alike(s, t) => t \in Good
  BY DEF Alike, Good, Lawful

-----------------------------------------------------------------------------
(* Procedures that never touch the lifecycle.                              *)

LEMMA RescheduleAlike == \A s \in ConnRec : Alike(s, Reschedule(s))
  BY DEF Alike, Reschedule, ConnRec

LEMMA ArmDeadlineAlike ==
  \A s \in ConnRec, ms \in Nat : Alike(s, ArmDeadline(s, ms))
<1> TAKE s \in ConnRec, ms \in Nat
<1> DEFINE t == [s EXCEPT !.deadline = Armed(ms)]
<1>1. t \in ConnRec
  <2>1. Armed(ms) \in Nat
    BY ArmedTyped
  <2> QED
    BY <2>1 DEF ConnRec
<1>2. Alike(s, t)
  BY ZenonT(30) DEF Alike, ConnRec
<1>3. ArmDeadline(s, ms) = Reschedule(t)
  BY DEF ArmDeadline
<1> HIDE DEF t
<1> QED
  BY <1>1, <1>2, <1>3, RescheduleAlike, AlikeTrans, Zenon

LEMMA BeginDrainAlike == \A s \in ConnRec : Alike(s, BeginDrain(s))
<1> TAKE s \in ConnRec
<1> DEFINE t == [s EXCEPT !.dropPending = TRUE, !.pingDue = 0]
<1>1. t \in ConnRec /\ Alike(s, t) /\ Alike(s, s)
  BY ZenonT(30) DEF ConnRec, Alike
<1>2. CloseTimeout \in Nat
  BY DEF ServerAssumption
<1>3. BeginDrain(s) \in {s, ArmDeadline(t, CloseTimeout)}
  BY DEF BeginDrain
<1> HIDE DEF t
<1> QED
  BY <1>1, <1>2, <1>3, ArmDeadlineAlike, AlikeTrans, Zenon

LEMMA NoteActivityAlike == \A s \in ConnRec : Alike(s, NoteActivity(s))
<1> TAKE s \in ConnRec
<1> DEFINE t == [s EXCEPT !.deadline = Armed(IdleTimeout),
                          !.pingDue = Armed(PingInterval), !.asked = 0]
<1>1. t \in ConnRec
  <2>1. Armed(IdleTimeout) \in Nat /\ Armed(PingInterval) \in Nat
    BY ArmedTyped DEF ServerAssumption
  <2> QED
    BY <2>1 DEF ConnRec
<1>2. Alike(s, t) /\ Alike(s, s)
  BY ZenonT(30) DEF Alike, ConnRec
<1>3. NoteActivity(s) \in {s, Reschedule(t)}
  BY DEF NoteActivity
<1> HIDE DEF t
<1> QED
  BY <1>1, <1>2, <1>3, RescheduleAlike, AlikeTrans, Zenon

LEMMA OutConsumeAlike == \A s \in ConnRec, n \in Nat : Alike(s, OutConsume(s, n))
  BY DEF Alike, OutConsume, ConnRec

LEMMA QueueAlike == \A s \in ConnRec, item \in Item : Alike(s, Queue(s, item))
  BY DEF Alike, Queue, ConnRec

LEMMA SendFrameAlike ==
  \A s \in ConnRec, item \in Item : Alike(s, SendFrame(s, item))
  BY DEF Alike, SendFrame, Queue, ConnRec

LEMMA SendCloseAlike == \A s \in ConnRec : Alike(s, SendClose(s))
<1> TAKE s \in ConnRec
<1> DEFINE t == [s EXCEPT !.closeSent = TRUE]
<1>1. t \in ConnRec /\ Alike(s, t) /\ Alike(s, s)
  BY ZenonT(30) DEF ConnRec, Alike
<1>2. SendClose(s) \in {s, Queue(t, It("close"))}
  BY DEF SendClose
<1>3. It("close") \in Item
  BY ItemTyped
<1> HIDE DEF t
<1> QED
  BY <1>1, <1>2, <1>3, QueueAlike, AlikeTrans, Zenon

LEMMA FailAlike == \A s \in ConnRec : Alike(s, Fail(s))
<1> TAKE s \in ConnRec
<1> DEFINE t == [s EXCEPT !.failed = TRUE]
<1>1. t \in ConnRec /\ Alike(s, t)
  BY ZenonT(30) DEF ConnRec, Alike
<1>2. Fail(s) = SendClose(t)
  BY DEF Fail
<1> HIDE DEF t
<1> QED
  BY <1>1, <1>2, SendCloseAlike, AlikeTrans, Zenon

LEMMA ClosingAlike ==
  \A s \in ConnRec :
    s.state # "handshake" => Alike(s, [s EXCEPT !.state = "closing"])
<1> TAKE s \in ConnRec
<1> QED
  BY ZenonT(30) DEF Alike, ConnRec

LEMMA HandlerRaisedAlike == \A s \in ConnRec : Alike(s, HandlerRaised(s))
<1> TAKE s \in ConnRec
<1> DEFINE t == [s EXCEPT !.faulted = TRUE]
           u == SendClose(t)
<1>1. t \in ConnRec /\ Alike(s, t) /\ Alike(s, s)
  BY ZenonT(30) DEF ConnRec, Alike
<1>2. HandlerRaised(s) =
        IF s.dropping THEN s
        ELSE IF t.state = "open" THEN [u EXCEPT !.state = "closing"] ELSE t
  BY DEF HandlerRaised
<1> HIDE DEF t
<1>3. u \in ConnRec /\ Alike(t, u)
  BY <1>1, SendCloseTyped, SendCloseAlike
<1> HIDE DEF u
<1>4. t.state = "open" => Alike(u, [u EXCEPT !.state = "closing"])
  <2>1. t.state = "open" => u.state # "handshake"
    BY <1>3 DEF Alike
  <2> QED
    BY <1>3, <2>1, ClosingAlike, Zenon
<1>5. t.state = "open" => Alike(s, [u EXCEPT !.state = "closing"])
  BY <1>1, <1>3, <1>4, AlikeTrans, Zenon
<1> QED
  BY <1>1, <1>2, <1>5, Zenon

LEMMA PingLapsedAlike == \A s \in ConnRec : Alike(s, PingLapsed(s))
<1> TAKE s \in ConnRec
<1> DEFINE put == /\ s.state = "open" /\ s.deadline # 0 /\ PingInterval > 0
                  /\ IdleTimeout > PingInterval /\ AnswerBy > s.deadline
           d == IF put THEN AnswerBy ELSE s.deadline
           t == [s EXCEPT !.pingDue = 0, !.deadline = d]
<1>1. PingLapsed(s) = Reschedule(t)
  BY DEF PingLapsed
<1>2. AnswerBy \in Nat /\ s.deadline \in Nat
  <2>1. IdleTimeout - PingInterval \in Int
    BY DEF ServerAssumption
  <2>2. AnswerBy \in Nat
    BY <2>1, ArmedTyped, Zenon DEF AnswerBy
  <2> QED
    BY <2>2 DEF ConnRec
<1> HIDE DEF put
<1>3. d \in Nat
  BY <1>2
<1> HIDE DEF d
<1>4. t \in ConnRec /\ Alike(s, t)
  BY <1>3 DEF ConnRec, Alike
<1> HIDE DEF t
<1> QED
  BY <1>1, <1>4, RescheduleAlike, AlikeTrans, Zenon

-----------------------------------------------------------------------------
(* Inside a delivery a drop only leaves a note.                            *)

LEMMA DropConnInside ==
  \A s \in ConnRec : s.inDelivery => Alike(s, DropConn(s))
  BY DEF Alike, DropConn, ConnRec

(* A dead peer or a taken output does not touch the lifecycle by itself.   *)
LEMMA TportAlike ==
  \A s \in ConnRec : /\ [s EXCEPT !.tport = "dead"] \in ConnRec
                     /\ Alike(s, [s EXCEPT !.tport = "dead"])
<1> TAKE s \in ConnRec
<1> QED
  BY ZenonT(30) DEF Alike, ConnRec

LEMMA TakenAlike ==
  \A s \in ConnRec, e \in Results : s.out # <<>> =>
    /\ OutConsume(s, Taken(s, e)) \in ConnRec
    /\ Alike(s, OutConsume(s, Taken(s, e)))
<1> TAKE s \in ConnRec, e \in Results
<1> SUFFICES ASSUME s.out # <<>>
             PROVE  /\ OutConsume(s, Taken(s, e)) \in ConnRec
                    /\ Alike(s, OutConsume(s, Taken(s, e)))
  OBVIOUS
<1>1. Taken(s, e) \in 0 .. Len(s.out)
  BY TakenTyped
<1>2. Len(s.out) \in Nat
  BY DEF ConnRec
<1>3. Taken(s, e) \in Nat
  BY <1>1, <1>2
<1> QED
  BY <1>1, <1>3, OutConsumeTyped, OutConsumeAlike

(* What a flush amounts to: a record like the one before, or its drop.     *)
LEMMA FlushConnSplit ==
  \A s \in ConnRec, e \in Results :
    \E t \in ConnRec : Alike(s, t) /\ FlushConn(s, e) \in {t, DropConn(t)}
<1> TAKE s \in ConnRec, e \in Results
<1>1. CASE s.out = <<>>
  <2>1. Alike(s, s)
    BY DEF Alike
  <2> QED
    BY <1>1, <2>1 DEF FlushConn
<1>2. CASE s.out # <<>> /\ e = "dead"
  <2>1. FlushConn(s, e) = DropConn([s EXCEPT !.tport = "dead"])
    BY <1>2 DEF FlushConn
  <2> QED
    BY <2>1, TportAlike, Zenon
<1>3. CASE s.out # <<>> /\ e # "dead"
  <2> DEFINE t == OutConsume(s, Taken(s, e))
  <2>1. t \in ConnRec /\ Alike(s, t)
    BY <1>3, TakenAlike
  <2>2. FlushConn(s, e) \in {t, DropConn(t)}
    BY <1>3, Zenon DEF FlushConn
  <2> HIDE DEF t
  <2> QED
    BY <2>1, <2>2, Zenon
<1> QED
  BY <1>1, <1>2, <1>3

LEMMA FlushConnInside ==
  \A s \in ConnRec, e \in Results : s.inDelivery => Alike(s, FlushConn(s, e))
<1> TAKE s \in ConnRec, e \in Results
<1> SUFFICES ASSUME s.inDelivery PROVE Alike(s, FlushConn(s, e))
  OBVIOUS
<1>1. PICK t \in ConnRec : Alike(s, t) /\ FlushConn(s, e) \in {t, DropConn(t)}
  BY FlushConnSplit, Zenon
<1>2. t.inDelivery
  BY <1>1 DEF Alike
<1>3. Alike(t, DropConn(t))
  BY <1>2, DropConnInside, Zenon
<1>4. Alike(s, DropConn(t))
  BY <1>1, <1>3, AlikeTrans, Zenon
<1> QED
  BY <1>1, <1>4, Zenon

LEMMA DirectSendInside ==
  \A s \in ConnRec, e \in Results : s.inDelivery => Alike(s, DirectSend(s, e))
<1> TAKE s \in ConnRec, e \in Results
<1> SUFFICES ASSUME s.inDelivery PROVE Alike(s, DirectSend(s, e))
  OBVIOUS
<1> DEFINE item == DataItem(s.sent + 1)
           t == [s EXCEPT !.sent = s.sent + 1]
           q == Queue(t, item)
           d == [s EXCEPT !.tport = "dead"]
           w == [t EXCEPT !.wire = Append(t.wire, item), !.owed = FALSE]
<1>1. DirectSend(s, e) \in {DropConn(d), FlushConn(q, e), w}
  BY Zenon DEF DirectSend
<1>2. item \in Item /\ t \in ConnRec
  <2>1. s.sent + 1 \in Nat
    BY DEF ConnRec
  <2>2. \A n \in Nat : [s EXCEPT !.sent = n] \in ConnRec
    BY DEF ConnRec
  <2> QED
    BY <2>1, <2>2, ItemTyped, Zenon
<1>3. Alike(s, t) /\ Alike(s, d) /\ d \in ConnRec
  BY ZenonT(30) DEF Alike, ConnRec
<1> HIDE DEF item, t, d
<1>4. q \in ConnRec /\ Alike(t, q)
  BY <1>2, QueueTyped, QueueAlike
<1>5. Alike(t, w)
  BY <1>2 DEF Alike, ConnRec
<1> HIDE DEF q, w
<1>6. d.inDelivery /\ q.inDelivery
  BY <1>3, <1>4 DEF Alike
<1>7. Alike(d, DropConn(d)) /\ Alike(q, FlushConn(q, e))
  BY <1>3, <1>4, <1>6, DropConnInside, FlushConnInside
<1>8. Alike(s, DropConn(d)) /\ Alike(s, FlushConn(q, e)) /\ Alike(s, w)
  BY <1>3, <1>4, <1>5, <1>7, AlikeTrans, Zenon
<1> QED
  BY <1>1, <1>8, Zenon

LEMMA QueuedSendInside ==
  \A s \in ConnRec, e \in Results : s.inDelivery => Alike(s, QueuedSend(s, e))
<1> TAKE s \in ConnRec, e \in Results
<1> SUFFICES ASSUME s.inDelivery PROVE Alike(s, QueuedSend(s, e))
  OBVIOUS
<1> DEFINE item == DataItem(s.sent + 1)
           t == [s EXCEPT !.sent = s.sent + 1]
           q == Queue(t, item)
<1>1. QueuedSend(s, e) \in {FlushConn(s, e), FlushConn(q, e)}
  BY Zenon DEF QueuedSend
<1>2. item \in Item /\ t \in ConnRec
  <2>1. s.sent + 1 \in Nat
    BY DEF ConnRec
  <2>2. \A n \in Nat : [s EXCEPT !.sent = n] \in ConnRec
    BY DEF ConnRec
  <2> QED
    BY <2>1, <2>2, ItemTyped, Zenon
<1>3. Alike(s, t)
  BY ZenonT(30) DEF Alike, ConnRec
<1> HIDE DEF item, t
<1>4. q \in ConnRec /\ Alike(t, q)
  BY <1>2, QueueTyped, QueueAlike
<1> HIDE DEF q
<1>5. q.inDelivery
  BY <1>3, <1>4 DEF Alike
<1>6. Alike(s, FlushConn(s, e)) /\ Alike(q, FlushConn(q, e))
  BY <1>4, <1>5, FlushConnInside
<1>7. Alike(s, FlushConn(q, e))
  BY <1>3, <1>4, <1>6, AlikeTrans, Zenon
<1> QED
  BY <1>1, <1>6, <1>7, Zenon

LEMMA CloseCallInside ==
  \A s \in ConnRec, e \in Results :
    s.inDelivery /\ s.state = "open" => Alike(s, CloseCall(s, e))
<1> TAKE s \in ConnRec, e \in Results
<1> SUFFICES ASSUME s.inDelivery, s.state = "open"
             PROVE  Alike(s, CloseCall(s, e))
  OBVIOUS
<1> DEFINE u == SendClose(s)
           t == [u EXCEPT !.state = "closing", !.pingDue = 0]
           a == ArmDeadline(t, CloseTimeout)
<1>1. u \in ConnRec /\ Alike(s, u)
  BY SendCloseTyped, SendCloseAlike
<1>2. CloseCall(s, e) = FlushConn(a, e)
  BY DEF CloseCall
<1> HIDE DEF u
<1>3. u.state # "handshake"
  BY <1>1 DEF Alike
<1>4. t \in ConnRec
  BY <1>1 DEF ConnRec
<1>5. Alike(u, t)
  BY <1>1, <1>3 DEF Alike, ConnRec
<1> HIDE DEF t
<1>6. a \in ConnRec /\ Alike(t, a)
  <2>1. CloseTimeout \in Nat
    BY DEF ServerAssumption
  <2> QED
    BY <1>4, <2>1, ArmDeadlineTyped, ArmDeadlineAlike
<1> HIDE DEF a
<1>7. Alike(s, a)
  BY <1>1, <1>5, <1>6, AlikeTrans, Zenon
<1>8. a.inDelivery
  BY <1>7 DEF Alike
<1> QED
  BY <1>2, <1>6, <1>7, <1>8, FlushConnInside, AlikeTrans, Zenon

LEMMA JudgeDeadlineInside ==
  \A s \in ConnRec, e \in Results :
    s.inDelivery => Alike(s, JudgeDeadline(s, e))
<1> TAKE s \in ConnRec, e \in Results
<1> SUFFICES ASSUME s.inDelivery PROVE Alike(s, JudgeDeadline(s, e))
  OBVIOUS
<1> DEFINE z == [s EXCEPT !.deadline = 0]
           u == SendClose(z)
           t == [u EXCEPT !.state = "closing"]
           f == FlushConn(t, e)
<1>1. z \in ConnRec /\ Alike(s, z) /\ Alike(s, s)
  BY ZenonT(30) DEF ConnRec, Alike
<1>2. JudgeDeadline(s, e) =
        IF ~Lapsed(s.deadline) THEN s
        ELSE IF z.state = "open" THEN DropConn(f) ELSE DropConn(z)
  BY Zenon DEF JudgeDeadline, DeadlineLapsed
<1> HIDE DEF z
<1>3. z.inDelivery
  BY <1>1 DEF Alike
<1>4. Alike(s, DropConn(z))
  BY <1>1, <1>3, DropConnInside, AlikeTrans, Zenon
<1>5. ASSUME z.state = "open" PROVE Alike(s, DropConn(f))
  <2>1. u \in ConnRec /\ Alike(z, u)
    BY <1>1, SendCloseTyped, SendCloseAlike
  <2> HIDE DEF u
  <2>2. u.state # "handshake"
    BY <1>5, <2>1 DEF Alike
  <2>3. t \in ConnRec /\ Alike(u, t)
    BY <2>1, <2>2, ClosingTyped, ClosingAlike, Zenon
  <2> HIDE DEF t
  <2>4. Alike(s, t)
    BY <1>1, <2>1, <2>3, AlikeTrans, Zenon
  <2>5. t.inDelivery
    BY <2>4 DEF Alike
  <2>6. f \in ConnRec /\ Alike(t, f)
    BY <2>3, <2>5, FlushConnTyped, FlushConnInside
  <2> HIDE DEF f
  <2>7. f.inDelivery
    BY <2>5, <2>6 DEF Alike
  <2> QED
    BY <2>4, <2>6, <2>7, DropConnInside, AlikeTrans, Zenon
<1> QED
  BY <1>1, <1>2, <1>4, <1>5, Zenon

LEMMA CheckClockInside ==
  \A s \in ConnRec, e \in Results : s.inDelivery => Alike(s, CheckClock(s, e))
<1> TAKE s \in ConnRec, e \in Results
<1> SUFFICES ASSUME s.inDelivery PROVE Alike(s, CheckClock(s, e))
  OBVIOUS
<1> DEFINE z == [s EXCEPT !.sweepPosted = FALSE]
           p == PingLapsed(z)
           u == SendFrame(p, It("ping"))
           q == [u EXCEPT !.asked = 1]
<1>1. z \in ConnRec /\ Alike(s, z)
  <2>1. z \in ConnRec
    BY DEF ConnRec
  <2>2. Alike(s, z)
    BY ZenonT(30) DEF ConnRec, Alike
  <2> QED
    BY <2>1, <2>2
<1>2. CheckClock(s, e) \in
        {z, FlushConn(q, e), JudgeDeadline(p, e), JudgeDeadline(z, e)}
  BY Zenon DEF CheckClock
<1> HIDE DEF z
<1>3. p \in ConnRec /\ Alike(z, p)
  BY <1>1, PingLapsedTyped, PingLapsedAlike
<1> HIDE DEF p
<1>4. u \in ConnRec /\ Alike(p, u)
  BY <1>3, ItemTyped, SendFrameTyped, SendFrameAlike
<1> HIDE DEF u
<1>5. q \in ConnRec /\ Alike(u, q)
  BY <1>4 DEF ConnRec, Alike
<1> HIDE DEF q
<1>6. Alike(s, p) /\ Alike(s, q)
  BY <1>1, <1>3, <1>4, <1>5, AlikeTrans, Zenon
<1>7. z.inDelivery /\ p.inDelivery /\ q.inDelivery
  BY <1>1, <1>6 DEF Alike
<1>8. /\ Alike(q, FlushConn(q, e))
      /\ Alike(p, JudgeDeadline(p, e)) /\ Alike(z, JudgeDeadline(z, e))
  BY <1>1, <1>3, <1>5, <1>7, FlushConnInside, JudgeDeadlineInside
<1>9. /\ Alike(s, FlushConn(q, e))
      /\ Alike(s, JudgeDeadline(p, e)) /\ Alike(s, JudgeDeadline(z, e))
  BY <1>1, <1>6, <1>8, AlikeTrans, Zenon
<1> QED
  BY <1>1, <1>2, <1>9, Zenon

-----------------------------------------------------------------------------
(* Teardown: outside a delivery a record stays lawful whatever is run on   *)
(* it, dropped at most once.                                               *)

LEMMA GoodFields ==
  \A s \in Good :
    /\ s \in ConnRec /\ s.life \in {"live", "freed"}
    /\ s.dropping \in BOOLEAN /\ s.closes \in Nat /\ s.opened \in BOOLEAN
    /\ Lawful(s)
  BY DEF Good, ConnRec

LEMMA FreedFields ==
  \A s \in ConnRec :
    /\ Freed(s).life = "freed" /\ Freed(s).run = "idle" /\ Freed(s).dropping
    /\ ~Freed(s).userData /\ ~Freed(s).inDelivery
    /\ Freed(s).opened = s.opened /\ Freed(s).closes = s.closes
<1> TAKE s \in ConnRec
<1> DEFINE n == NoConn
<1>1. n \in ConnRec /\ n.run = "idle" /\ ~n.userData /\ ~n.inDelivery
  BY NoConnTyped DEF NoConn
<1>2. Freed(s) =
        [n EXCEPT !.life = "freed", !.dropping = TRUE,
                  !.tport = IF s.tport = "dead" THEN "dead" ELSE "closed",
                  !.opened = s.opened, !.closes = s.closes, !.wire = s.wire]
  BY DEF Freed
<1> HIDE DEF n
<1> QED
  BY <1>1, <1>2 DEF ConnRec

(* ReleaseConn on a session that has just been detached.                   *)
LEMMA ReleaseConnGood ==
  \A s \in ConnRec :
    /\ s.life = "live" /\ s.run = "idle" /\ s.dropping
    /\ ~s.userData /\ ~s.inDelivery
    /\ s.closes = 0 /\ (s.opened <=> s.state # "handshake")
    => ReleaseConn(s) \in Good /\ ReleaseConn(s).dropping
<1> TAKE s \in ConnRec
<1> SUFFICES ASSUME s.life = "live", s.run = "idle", s.dropping,
                    ~s.userData, ~s.inDelivery,
                    s.closes = 0, s.opened <=> s.state # "handshake"
             PROVE  ReleaseConn(s) \in Good /\ ReleaseConn(s).dropping
  OBVIOUS
<1>1. CASE s.state # "handshake"
  <2> DEFINE t == [s EXCEPT !.run = "onclose", !.todo = <<>>, !.closes = 0 + 1]
  <2>1. ReleaseConn(s) = t
    BY <1>1 DEF ReleaseConn
  <2>2. ReleaseConn(s) \in ConnRec
    BY ReleaseConnTyped
  <2>3. /\ t.life = "live" /\ t.run = "onclose" /\ t.dropping
        /\ ~t.userData /\ ~t.inDelivery /\ t.closes = 1
        /\ t.opened /\ t.state # "handshake"
    BY <1>1 DEF ConnRec
  <2> HIDE DEF t
  <2> QED
    BY <2>1, <2>2, <2>3 DEF Good, Lawful
<1>2. CASE s.state = "handshake"
  <2>1. ReleaseConn(s) = Freed(s)
    BY <1>2 DEF ReleaseConn
  <2>2. ~s.opened
    BY <1>2
  <2> QED
    BY <2>1, <2>2, FreedTyped, FreedFields DEF Good, Lawful
<1> QED
  BY <1>1, <1>2

LEMMA DropConnGood ==
  \A s \in Good : DropConn(s) \in Good
<1> TAKE s \in Good
<1>1. s \in ConnRec /\ Lawful(s) /\ s.life \in {"live", "freed"}
  BY GoodFields
<1>2. CASE s.inDelivery
  BY <1>1, <1>2, DropConnInside, DropConnTyped, AlikeGood
<1>3. CASE ~s.inDelivery /\ s.dropping
  BY <1>3 DEF DropConn
<1>4. CASE ~s.inDelivery /\ ~s.dropping
  <2> DEFINE t == [s EXCEPT !.dropping = TRUE, !.userData = FALSE]
  <2>1. DropConn(s) = ReleaseConn(t)
    BY <1>4 DEF DropConn
  <2>2. t \in ConnRec
    BY <1>1 DEF ConnRec
  <2>3. s.life = "live" /\ s.run = "idle" /\ s.closes = 0
        /\ (s.opened <=> s.state # "handshake")
    BY <1>1, <1>4 DEF Lawful, ConnRec
  <2>4. /\ t.life = "live" /\ t.run = "idle" /\ t.dropping
        /\ ~t.userData /\ ~t.inDelivery
        /\ t.closes = 0 /\ (t.opened <=> t.state # "handshake")
    BY <1>1, <1>4, <2>3 DEF ConnRec
  <2> HIDE DEF t
  <2> QED
    BY <2>1, <2>2, <2>4, ReleaseConnGood
<1> QED
  BY <1>2, <1>3, <1>4

LEMMA FlushConnGood ==
  \A s \in Good, e \in Results : FlushConn(s, e) \in Good
<1> TAKE s \in Good, e \in Results
<1>1. s \in ConnRec
  BY GoodFields
<1>2. PICK t \in ConnRec : Alike(s, t) /\ FlushConn(s, e) \in {t, DropConn(t)}
  BY <1>1, FlushConnSplit, Zenon
<1>3. t \in Good
  BY <1>2, AlikeGood, Zenon
<1>4. DropConn(t) \in Good
  BY <1>3, DropConnGood, Zenon
<1> QED
  BY <1>2, <1>3, <1>4, Zenon

LEMMA DrainThenDropGood ==
  \A s \in Good, e \in Results : DrainThenDrop(s, e) \in Good
<1> TAKE s \in Good, e \in Results
<1> DEFINE b == BeginDrain(s)
           t == FlushConn(b, e)
<1>1. DrainThenDrop(s, e) \in {DropConn(s), DropConn(t), t}
  BY Zenon DEF DrainThenDrop
<1>2. s \in ConnRec
  BY GoodFields
<1>3. b \in Good
  BY <1>2, BeginDrainTyped, BeginDrainAlike, AlikeGood, Zenon
<1> HIDE DEF b
<1>4. t \in Good
  BY <1>3, FlushConnGood, Zenon
<1> HIDE DEF t
<1>5. DropConn(s) \in Good /\ DropConn(t) \in Good
  BY <1>4, DropConnGood, Zenon
<1> QED
  BY <1>1, <1>4, <1>5, Zenon

LEMMA SettleDeliveryGood ==
  \A s \in Good, e \in Results : SettleDelivery(s, e) \in Good
<1> TAKE s \in Good, e \in Results
<1> DEFINE d == [s EXCEPT !.dropDeferred = FALSE]
<1>1. s \in ConnRec
  BY GoodFields
<1>2. d \in ConnRec /\ Alike(s, d)
  <2>1. \A n \in ConnRec : /\ [n EXCEPT !.dropDeferred = FALSE] \in ConnRec
                           /\ Alike(n, [n EXCEPT !.dropDeferred = FALSE])
    <3> TAKE n \in ConnRec
    <3>1. [n EXCEPT !.dropDeferred = FALSE] \in ConnRec
      BY DEF ConnRec
    <3>2. Alike(n, [n EXCEPT !.dropDeferred = FALSE])
      BY ZenonT(30) DEF ConnRec, Alike
    <3> QED
      BY <3>1, <3>2
  <2> QED
    BY <1>1, <2>1, Zenon
<1>3. SettleDelivery(s, e) \in {DropConn(d), DrainThenDrop(s, e), s}
  BY Zenon DEF SettleDelivery
<1> HIDE DEF d
<1>4. d \in Good
  BY <1>2, AlikeGood, Zenon
<1>5. DropConn(d) \in Good /\ DrainThenDrop(s, e) \in Good
  BY <1>4, DropConnGood, DrainThenDropGood, Zenon
<1> QED
  BY <1>3, <1>5, Zenon

-----------------------------------------------------------------------------
(* What one callback or handler call makes of a lawful record.             *)

LEMMA RefuseGood == \A s \in Good, e \in Results : Refuse(s, e) \in Good
<1> TAKE s \in Good, e \in Results
<1> DEFINE d == [s EXCEPT !.tport = "dead"]
           w == [s EXCEPT !.wire = Append(s.wire, It("answer"))]
<1>1. s \in ConnRec
  BY GoodFields
<1>2. Refuse(s, e) \in {DropConn(d), DropConn(s), DropConn(w)}
  BY Zenon DEF Refuse
<1>3. d \in ConnRec /\ Alike(s, d)
  BY <1>1, TportAlike, Zenon
<1>4. w \in ConnRec /\ Alike(s, w)
  <2>1. s.wire \in Seq(Item) /\ It("answer") \in Item
    BY <1>1, ItemTyped DEF ConnRec
  <2>2. Append(s.wire, It("answer")) \in Seq(Item)
    BY <2>1
  <2>3. \A n \in ConnRec, x \in Seq(Item) :
          [n EXCEPT !.wire = x] \in ConnRec /\ Alike(n, [n EXCEPT !.wire = x])
    <3> TAKE n \in ConnRec, x \in Seq(Item)
    <3> QED
      BY ZenonT(30) DEF ConnRec, Alike
  <2> QED
    BY <1>1, <2>2, <2>3, Zenon
<1> HIDE DEF d, w
<1>5. d \in Good /\ w \in Good
  BY <1>3, <1>4, AlikeGood, Zenon
<1> QED
  BY <1>2, <1>5, DropConnGood, Zenon

(* The protocol object is made and the answer or the 101 queued.           *)
LEMMA ProtoGood ==
  \A s \in Good, item \in Item : Queue([s EXCEPT !.proto = TRUE], item) \in Good
<1> TAKE s \in Good, item \in Item
<1> DEFINE t == [s EXCEPT !.proto = TRUE]
<1>1. s \in ConnRec
  BY GoodFields
<1>2. t \in ConnRec /\ Alike(s, t)
  <2>1. \A n \in ConnRec : /\ [n EXCEPT !.proto = TRUE] \in ConnRec
                           /\ Alike(n, [n EXCEPT !.proto = TRUE])
    <3> TAKE n \in ConnRec
    <3> QED
      BY ZenonT(30) DEF ConnRec, Alike
  <2> QED
    BY <1>1, <2>1, Zenon
<1> HIDE DEF t
<1>3. Queue(t, item) \in ConnRec /\ Alike(t, Queue(t, item))
  BY <1>2, QueueTyped, QueueAlike, Zenon
<1> QED
  BY <1>2, <1>3, AlikeTrans, AlikeGood, Zenon DEF t

LEMMA AnswerGood == \A s \in Good, e \in Results : Answer(s, e) \in Good
  BY ItemTyped, ProtoGood, DrainThenDropGood DEF Answer

LEMMA UpgradeGood ==
  \A s \in Good, e \in Results, left \in Seq(FrameKinds) :
    Upgrade(s, e, left) \in Good
<1> TAKE s \in Good, e \in Results, left \in Seq(FrameKinds)
<1> DEFINE t == FlushConn(Queue([s EXCEPT !.proto = TRUE], It("101")), e)
           o == [t EXCEPT !.state = "open"]
           n == NoteActivity(o)
           r == [n EXCEPT !.inDelivery = TRUE, !.run = "onopen",
                          !.opened = TRUE, !.todo = left]
<1>1. s \in ConnRec
  BY GoodFields
<1>2. t \in Good
  BY ItemTyped, ProtoGood, FlushConnGood
<1>3. Upgrade(s, e, left) = IF t.dropping THEN t ELSE r
  BY Zenon DEF Upgrade
<1>4. ASSUME ~t.dropping PROVE r \in Good
  <2>1. r \in ConnRec
    <3>1. Upgrade(s, e, left) \in ConnRec
      BY <1>1, UpgradeTyped
    <3> QED
      BY <1>3, <1>4, <3>1
  <2> HIDE DEF t
  <2>2. /\ t \in ConnRec /\ t.life = "live" /\ t.userData
        /\ t.run # "onclose" /\ t.closes = 0
    BY <1>2, <1>4 DEF Good, Lawful, ConnRec
  <2>3. /\ o \in ConnRec /\ o.life = "live" /\ o.userData /\ ~o.dropping
        /\ o.closes = 0 /\ o.state = "open"
    <3>1. \A m \in ConnRec :
            /\ [m EXCEPT !.state = "open"] \in ConnRec
            /\ [m EXCEPT !.state = "open"].life = m.life
            /\ [m EXCEPT !.state = "open"].userData = m.userData
            /\ [m EXCEPT !.state = "open"].dropping = m.dropping
            /\ [m EXCEPT !.state = "open"].closes = m.closes
            /\ [m EXCEPT !.state = "open"].state = "open"
      <4> TAKE m \in ConnRec
      <4> QED
        BY DEF ConnRec
    <3> QED
      BY <1>4, <2>2, <3>1, Zenon
  <2> HIDE DEF o
  <2>4. /\ n \in ConnRec /\ n.life = "live" /\ n.userData /\ ~n.dropping
        /\ n.closes = 0 /\ n.state # "handshake"
    BY <2>3, NoteActivityTyped, NoteActivityAlike DEF Alike
  <2> HIDE DEF n
  <2>5. /\ r.life = "live" /\ r.userData /\ ~r.dropping /\ r.closes = 0
        /\ r.state # "handshake" /\ r.inDelivery /\ r.run = "onopen"
        /\ r.opened
    BY <2>4 DEF ConnRec
  <2> HIDE DEF r
  <2> QED
    BY <2>1, <2>5 DEF Good, Lawful
<1> HIDE DEF t, r
<1> QED
  BY <1>2, <1>3, <1>4, Zenon

(* A frame of the context goes on the stack of a session not yet dropped,  *)
(* or off it.                                                              *)
LEMMA EnterGood ==
  \A s \in Good, t \in ConnRec :
    /\ ~s.dropping
    /\ t.life = s.life /\ t.userData = s.userData /\ t.dropping = s.dropping
    /\ t.opened = s.opened /\ t.closes = s.closes
    /\ (t.state = "handshake" <=> s.state = "handshake")
    /\ \/ t.inDelivery /\ t.run \in {"ingest", "onopen", "onmessage", "onpost"}
       \/ ~t.inDelivery /\ t.run = "idle"
    => t \in Good
  BY DEF Good, Lawful

LEMMA StartIngestGood ==
  \A s \in Good, frames \in Seq(FrameKinds) :
    ~s.dropping => StartIngest(s, frames) \in Good
<1> TAKE s \in Good, frames \in Seq(FrameKinds)
<1> DEFINE t == StartIngest(s, frames)
<1>1. s \in ConnRec
  BY GoodFields
<1>2. t \in ConnRec
  BY <1>1, StartIngestTyped
<1>3. /\ t.life = s.life /\ t.userData = s.userData /\ t.dropping = s.dropping
      /\ t.opened = s.opened /\ t.closes = s.closes /\ t.state = s.state
      /\ t.inDelivery /\ t.run = "ingest"
  BY <1>1 DEF StartIngest, ConnRec
<1> HIDE DEF t
<1>4. ~s.dropping => t \in Good
  BY <1>2, <1>3, EnterGood
<1> QED
  BY <1>4 DEF t

LEMMA UnwoundGood ==
  \A s \in Good :
    s.inDelivery =>
      /\ [s EXCEPT !.inDelivery = FALSE, !.run = "idle"] \in Good
      /\ ~[s EXCEPT !.inDelivery = FALSE, !.run = "idle"].dropping
<1> TAKE s \in Good
<1> DEFINE t == [s EXCEPT !.inDelivery = FALSE, !.run = "idle"]
<1>1. s \in ConnRec /\ (s.inDelivery => ~s.dropping)
  BY GoodFields DEF Lawful
<1>2. t \in ConnRec
  BY <1>1, UnwoundTyped, Zenon
<1>3. /\ t.life = s.life /\ t.userData = s.userData /\ t.dropping = s.dropping
      /\ t.opened = s.opened /\ t.closes = s.closes /\ t.state = s.state
      /\ ~t.inDelivery /\ t.run = "idle"
  BY <1>1 DEF ConnRec
<1> HIDE DEF t
<1>4. s.inDelivery => t \in Good /\ ~t.dropping
  BY <1>1, <1>2, <1>3, EnterGood
<1> QED
  BY <1>4 DEF t

LEMMA IngestDoneGood ==
  \A s \in Good, e \in Results : s.inDelivery => IngestDone(s, e) \in Good
<1> TAKE s \in Good, e \in Results
<1> SUFFICES ASSUME s.inDelivery PROVE IngestDone(s, e) \in Good
  OBVIOUS
<1> DEFINE u == [s EXCEPT !.inDelivery = FALSE, !.run = "idle"]
           v == FlushConn(u, e)
           b == BeginDrain(v)
<1>1. u \in Good
  BY UnwoundGood, Zenon
<1>2. IngestDone(s, e) \in
        {SettleDelivery(u, e), DrainThenDrop(u, e), v, DropConn(v), b}
  BY Zenon DEF IngestDone
<1> HIDE DEF u
<1>3. v \in Good
  BY <1>1, FlushConnGood, Zenon
<1> HIDE DEF v
<1>4. b \in Good
  BY <1>3, GoodFields, BeginDrainTyped, BeginDrainAlike, AlikeGood, Zenon
<1>5. /\ SettleDelivery(u, e) \in Good /\ DrainThenDrop(u, e) \in Good
      /\ DropConn(v) \in Good
  BY <1>1, <1>3, SettleDeliveryGood, DrainThenDropGood, DropConnGood, Zenon
<1> QED
  BY <1>2, <1>3, <1>4, <1>5, Zenon

LEMMA SendReadyGood ==
  \A s \in Good, e \in Results : SendReady(s, e) \in Good
<1> TAKE s \in Good, e \in Results
<1> DEFINE u == [s EXCEPT !.owed = FALSE]
           t == FlushConn(u, e)
<1>1. SendReady(s, e) \in {t, DropConn(t)}
  BY Zenon DEF SendReady
<1>2. u \in Good
  <2>1. \A n \in ConnRec : /\ [n EXCEPT !.owed = FALSE] \in ConnRec
                           /\ Alike(n, [n EXCEPT !.owed = FALSE])
    <3> TAKE n \in ConnRec
    <3> QED
      BY ZenonT(30) DEF ConnRec, Alike
  <2> QED
    BY <2>1, GoodFields, AlikeGood, Zenon
<1> HIDE DEF u
<1>3. t \in Good
  BY <1>2, FlushConnGood, Zenon
<1> HIDE DEF t
<1> QED
  BY <1>1, <1>3, DropConnGood, Zenon

LEMMA SettledGood ==
  \A s \in Good, e \in Results : s.inDelivery => Settled(s, e) \in Good
  BY UnwoundGood, SettleDeliveryGood, Zenon DEF Settled

LEMMA TodoGood == \A s \in Good : [s EXCEPT !.todo = <<>>] \in Good
<1> TAKE s \in Good
<1>1. \A n \in ConnRec : Alike(n, [n EXCEPT !.todo = <<>>])
  <2> TAKE n \in ConnRec
  <2> QED
    BY ZenonT(30) DEF ConnRec, Alike
<1> QED
  BY <1>1, UnwoundTyped, GoodFields, AlikeGood, Zenon

LEMMA AfterOpenGood ==
  \A s \in Good, e \in Results : s.inDelivery => AfterOpen(s, e) \in Good
<1> TAKE s \in Good, e \in Results
<1> SUFFICES ASSUME s.inDelivery PROVE AfterOpen(s, e) \in Good
  OBVIOUS
<1> DEFINE u == [s EXCEPT !.inDelivery = FALSE, !.run = "idle"]
           t == Settled(s, e)
<1>1. t \in Good /\ [t EXCEPT !.todo = <<>>] \in Good
  BY SettledGood, TodoGood, Zenon
<1>2. CASE ~(t.state = "open" /\ ~s.dropDeferred /\ ~s.faulted /\ s.todo # <<>>)
  <2>1. AfterOpen(s, e) = [t EXCEPT !.todo = <<>>]
    BY <1>2, Zenon DEF AfterOpen
  <2> QED
    BY <1>1, <2>1, Zenon
<1>3. CASE t.state = "open" /\ ~s.dropDeferred /\ ~s.faulted /\ s.todo # <<>>
  <2>1. AfterOpen(s, e) = StartIngest(t, s.todo)
    BY <1>3, Zenon DEF AfterOpen
  <2>2. s \in ConnRec /\ s.todo \in Seq(FrameKinds)
    BY GoodFields DEF ConnRec
  <2>3. u.dropDeferred = s.dropDeferred /\ u.faulted = s.faulted
    BY <2>2 DEF ConnRec
  <2>4. t = SettleDelivery(u, e)
    BY DEF Settled
  <2>5. u \in Good /\ ~u.dropping
    BY UnwoundGood, Zenon
  <2> HIDE DEF u
  <2>6. t = u
    BY <1>3, <2>3, <2>4 DEF SettleDelivery
  <2> HIDE DEF t
  <2> QED
    BY <2>1, <2>2, <2>5, <2>6, StartIngestGood
<1> QED
  BY <1>2, <1>3

LEMMA ClockCheckedGood ==
  \A s \in Good, e \in Results : s.run = "idle" => ClockChecked(s, e) \in Good
<1> TAKE s \in Good, e \in Results
<1> SUFFICES ASSUME s.run = "idle" PROVE ClockChecked(s, e) \in Good
  OBVIOUS
<1> DEFINE d == [s EXCEPT !.inDelivery = TRUE]
           r == CheckClock(d, e)
           t == [r EXCEPT !.inDelivery = FALSE]
<1>1. s \in ConnRec /\ ~s.inDelivery
  BY GoodFields DEF Lawful
<1>2. ClockChecked(s, e) = SettleDelivery(t, e)
  BY DEF ClockChecked
<1>3. /\ d \in ConnRec /\ d.inDelivery
      /\ Alike(s, [d EXCEPT !.inDelivery = FALSE])
  <2>1. \A n \in ConnRec : ~n.inDelivery =>
          /\ [n EXCEPT !.inDelivery = TRUE] \in ConnRec
          /\ [n EXCEPT !.inDelivery = TRUE].inDelivery
          /\ Alike(n, [[n EXCEPT !.inDelivery = TRUE]
                         EXCEPT !.inDelivery = FALSE])
    <3> TAKE n \in ConnRec
    <3> QED
      BY ZenonT(30) DEF ConnRec, Alike
  <2> QED
    BY <1>1, <2>1, Zenon
<1> HIDE DEF d
<1>4. r \in ConnRec /\ Alike(d, r)
  BY <1>3, CheckClockTyped, CheckClockInside
<1> HIDE DEF r
<1>5. /\ t \in ConnRec
      /\ Alike([d EXCEPT !.inDelivery = FALSE], t)
  <2>1. \A n, m \in ConnRec : Alike(n, m) =>
          /\ [m EXCEPT !.inDelivery = FALSE] \in ConnRec
          /\ Alike([n EXCEPT !.inDelivery = FALSE],
                   [m EXCEPT !.inDelivery = FALSE])
    <3> TAKE n, m \in ConnRec
    <3> QED
      BY ZenonT(30) DEF ConnRec, Alike
  <2> QED
    BY <1>3, <1>4, <2>1, Zenon
<1> HIDE DEF t
<1>6. t \in Good
  BY <1>3, <1>5, AlikeTrans, AlikeGood, Zenon
<1> QED
  BY <1>2, <1>6, SettleDeliveryGood, Zenon

-----------------------------------------------------------------------------
(* The registry: the swap-remove takes out one connection and leaves every *)
(* other one at the index it carries.                                      *)

(* The list and the indices point at each other.                           *)
Indexed ==
  /\ \A d \in Conns : slot[d] # 0 => Registered(d)
  /\ \A i \in 1 .. Len(registry) : slot[registry[i]] = i

LEMMA RegistryRemoveExact ==
  ASSUME registry \in Seq(Conns), slot \in [Conns -> Nat], Indexed,
         NEW c \in Conns, slot[c] # 0, RegistryRemove(c)
  PROVE  /\ Indexed'
         /\ \A d \in Conns : slot'[d] # 0 <=> slot[d] # 0 /\ d # c
         /\ Len(registry') = Len(registry) - 1
<1> DEFINE hole == slot[c]
           last == Len(registry)
           tail == registry[last]
           moved == [registry EXCEPT ![hole] = tail]
<1>1. Registered(c) /\ hole \in 1 .. last /\ registry[hole] = c
  BY DEF Indexed, Registered
<1>2. last \in Nat /\ last \in 1 .. last
  BY <1>1
<1>3. tail \in Conns /\ slot[tail] = last
  BY <1>2 DEF Indexed
<1>4. /\ registry' = SubSeq(moved, 1, Len(moved) - 1)
      /\ slot' = [slot EXCEPT ![tail] = hole, ![c] = 0]
  BY <1>1 DEF RegistryRemove, Front, Last
<1>5. moved \in Seq(Conns) /\ Len(moved) = last
  BY <1>1, <1>3
<1>6. /\ Len(registry') = last - 1
      /\ \A i \in 1 .. last - 1 :
           registry'[i] = IF i = hole THEN tail ELSE registry[i]
  <2>1. Len(registry') = last - 1
    BY <1>2, <1>4, <1>5
  <2>2. \A i \in 1 .. last - 1 : registry'[i] = moved[i]
    <3> HIDE DEF moved
    <3> QED
      BY <1>2, <1>4, <1>5
  <2>3. \A i \in 1 .. last - 1 :
          moved[i] = IF i = hole THEN tail ELSE registry[i]
    <3> TAKE i \in 1 .. last - 1
    <3>1. i \in 1 .. last
      BY <1>2
    <3>2. i \in DOMAIN registry
      BY <3>1
    <3> QED
      BY <3>2, Zenon
  <2> QED
    BY <2>1, <2>2, <2>3
<1>7. \A d \in Conns :
        slot'[d] = IF d = c THEN 0 ELSE IF d = tail THEN hole ELSE slot[d]
  BY <1>3, <1>4
<1> HIDE DEF tail, moved
<1>8. \A d \in Conns : slot'[d] # 0 <=> slot[d] # 0 /\ d # c
  BY <1>1, <1>2, <1>3, <1>7
<1>9. \A d \in Conns : slot'[d] # 0 => Registered(d)'
  <2> SUFFICES ASSUME NEW d \in Conns, slot'[d] # 0
               PROVE  slot'[d] \in 1 .. last - 1 /\ registry'[slot'[d]] = d
    BY <1>6 DEF Registered
  <2>1. slot[d] # 0 /\ d # c
    BY <1>8
  <2>2. slot[d] \in 1 .. last /\ registry[slot[d]] = d
    BY <2>1 DEF Indexed, Registered
  <2>3. CASE d = tail
    <3>1. slot'[d] = hole /\ hole # last
      BY <1>1, <1>7, <2>1, <2>3 DEF tail
    <3>2. hole \in 1 .. last - 1
      BY <1>1, <1>2, <3>1
    <3> QED
      BY <1>6, <2>3, <3>1, <3>2
  <2>4. CASE d # tail
    <3>1. slot'[d] = slot[d] /\ slot[d] # last /\ slot[d] # hole
      BY <1>1, <1>7, <2>1, <2>2, <2>4 DEF tail
    <3>2. slot[d] \in 1 .. last - 1
      BY <1>2, <2>2, <3>1
    <3> QED
      BY <1>6, <2>2, <3>1, <3>2
  <2> QED
    BY <2>3, <2>4
<1>10. \A i \in 1 .. Len(registry') : slot'[registry'[i]] = i
  <2> SUFFICES ASSUME NEW i \in 1 .. last - 1 PROVE slot'[registry'[i]] = i
    BY <1>6
  <2>1. i \in 1 .. last /\ i # last
    BY <1>2
  <2>2. CASE i = hole
    <3>1. registry'[i] = tail /\ tail # c
      BY <1>3, <1>6, <2>1, <2>2
    <3> QED
      BY <1>3, <1>7, <2>2, <3>1
  <2>3. CASE i # hole
    <3>1. registry'[i] = registry[i] /\ registry[i] \in Conns
      BY <1>6, <2>1, <2>3
    <3>2. slot[registry[i]] = i
      BY <2>1 DEF Indexed
    <3>3. registry[i] # c /\ registry[i] # tail
      BY <1>3, <2>1, <2>3, <3>2
    <3> QED
      BY <1>7, <3>1, <3>2, <3>3
  <2> QED
    BY <2>2, <2>3
<1> QED
  BY <1>6, <1>8, <1>9, <1>10 DEF Indexed

-----------------------------------------------------------------------------
(* Steps.                                                                  *)

Teardown == SessionsLawful /\ RegistryExact /\ LeavingExact

(* A session the transport refers to, and one whose context is running.    *)
LEMMA ReadyLive ==
  ASSUME IInv, NEW c \in Conns, conn[c].userData
  PROVE  /\ conn[c] \in Good /\ conn[c] \in ConnRec
         /\ conn[c].life = "live" /\ ~conn[c].dropping
  BY DEF IInv, TypeOK, SessionsLawful, Untouched, Lawful, Good

LEMMA RunningLive ==
  ASSUME IInv, NEW c \in Conns, conn[c].run # "idle"
  PROVE  /\ conn[c] \in Good /\ conn[c] \in ConnRec /\ conn[c].life = "live"
         /\ \/ conn[c].run = "onclose" /\ conn[c].dropping
            \/ conn[c].inDelivery /\ ~conn[c].dropping
<1>1. conn[c] \in ConnRec
  BY DEF IInv, TypeOK
<1>2. conn[c].life \in {"none", "live", "freed"}
      /\ conn[c].run \in {"idle", "ingest", "onopen", "onmessage", "onpost", "onclose"}
  BY <1>1 DEF ConnRec
<1>3. conn[c].life # "none" /\ Lawful(conn[c])
  BY DEF IInv, SessionsLawful, Untouched
<1> QED
  BY <1>1, <1>2, <1>3 DEF Lawful, Good

(* A callback writes a lawful record back.                                 *)
LEMMA CommitKeeps ==
  ASSUME IInv, NEW c \in Conns, NEW s \in Good, Commit(c, s),
         conn[c].life = "live",
         ~conn[c].dropping \/ (conn[c].run = "onclose" /\ s.dropping),
         UNCHANGED <<up, leaving>>
  PROVE  Teardown'
<1>1. /\ conn \in [Conns -> ConnRec] /\ registry \in Seq(Conns)
      /\ slot \in [Conns -> Nat]
  BY DEF IInv, TypeOK
<1>2. conn'[c] = s /\ \A d \in Conns : d # c => conn'[d] = conn[d]
  BY <1>1 DEF Commit
<1>3. s.life # "none" /\ Lawful(s) /\ s.life \in {"live", "freed"}
      /\ (~s.dropping => s.life = "live") /\ s.dropping \in BOOLEAN
  BY GoodFields DEF Good, Lawful
<1>4. SessionsLawful'
  BY <1>2, <1>3 DEF IInv, SessionsLawful, Lawful, Untouched
<1>5. LeavingExact'
  <2>1. \A i \in 1 .. Len(leaving) : leaving[i] # c
    BY DEF IInv, LeavingExact
  <2>2. \A i \in 1 .. Len(leaving) : leaving[i] \in Conns
    BY DEF IInv, TypeOK
  <2> QED
    BY <1>2, <2>1, <2>2 DEF IInv, LeavingExact
<1>6. Indexed
  BY DEF IInv, RegistryExact, Indexed
<1>7. \A d \in Conns : slot[d] # 0 <=> conn[d].life = "live" /\ ~conn[d].dropping
  BY DEF IInv, RegistryExact
<1>8. MaxConnections > 0 => Len(registry) <= MaxConnections
  BY DEF IInv, RegistryExact
<1>9. CASE s.dropping /\ ~conn[c].dropping
  <2>1. RegistryRemove(c) /\ slot[c] # 0
    BY <1>7, <1>9 DEF Commit
  <2>2. /\ Indexed'
        /\ \A d \in Conns : slot'[d] # 0 <=> slot[d] # 0 /\ d # c
        /\ Len(registry') = Len(registry) - 1
    BY <1>1, <1>6, <2>1, RegistryRemoveExact
  <2>3. \A d \in Conns :
          slot'[d] # 0 <=> conn'[d].life = "live" /\ ~conn'[d].dropping
    BY <1>2, <1>7, <1>9, <2>2
  <2>4. MaxConnections > 0 => Len(registry') <= MaxConnections
    <3>1. Len(registry) \in Nat /\ MaxConnections \in Nat
      BY <1>1 DEF ServerAssumption
    <3> QED
      BY <1>8, <2>2, <3>1
  <2>5. RegistryExact'
    BY <2>2, <2>3, <2>4 DEF RegistryExact, Indexed
  <2> QED
    BY <1>4, <1>5, <2>5 DEF Teardown
<1>10. CASE ~(s.dropping /\ ~conn[c].dropping)
  <2>1. UNCHANGED <<registry, slot>>
    BY <1>10 DEF Commit
  <2>2. conn'[c].life = "live" /\ ~conn'[c].dropping
          <=> conn[c].life = "live" /\ ~conn[c].dropping
    BY <1>2, <1>3, <1>10
  <2>3. \A d \in Conns :
          slot'[d] # 0 <=> conn'[d].life = "live" /\ ~conn'[d].dropping
    BY <1>2, <1>7, <2>1, <2>2
  <2>4. RegistryExact'
    BY <2>1, <2>3 DEF IInv, RegistryExact, Registered
  <2> QED
    BY <1>4, <1>5, <2>4 DEF Teardown
<1> QED
  BY <1>9, <1>10

(* Steps that write only what the invariant does not read.                 *)
LEMMA AlikeKeeps ==
  ASSUME IInv, UNCHANGED <<registry, slot, up, leaving>>,
         \A c \in Conns : Alike(conn[c], conn'[c])
  PROVE  Teardown'
<1>1. SessionsLawful'
  BY DEF IInv, SessionsLawful, Alike, Lawful, Untouched
<1>2. RegistryExact'
  BY DEF IInv, RegistryExact, Registered, Alike
<1>3. LeavingExact'
  <2>1. \A i \in 1 .. Len(leaving) : leaving[i] \in Conns
    BY DEF IInv, TypeOK
  <2> QED
    BY <2>1 DEF IInv, LeavingExact, Alike
<1> QED
  BY <1>1, <1>2, <1>3 DEF Teardown

LEMMA ReadyKeeps ==
  ASSUME IInv, NEW c \in Conns, conn[c].userData,
         NEW s \in Good, Commit(c, s), UNCHANGED <<up, leaving>>
  PROVE  Teardown'
  BY ReadyLive, CommitKeeps

LEMMA RunningKeeps ==
  ASSUME IInv, NEW c \in Conns,
         conn[c].run \in {"ingest", "onopen", "onmessage", "onpost"},
         NEW s \in Good, Commit(c, s), UNCHANGED <<up, leaving>>
  PROVE  Teardown'
<1>1. conn[c].life = "live" /\ ~conn[c].dropping
  BY RunningLive
<1> QED
  BY <1>1, CommitKeeps

LEMMA AcceptKeeps ==
  ASSUME IInv, NEW c \in Conns, Accept(c) PROVE Teardown'
<1>1. /\ conn \in [Conns -> ConnRec] /\ registry \in Seq(Conns)
      /\ slot \in [Conns -> Nat] /\ conn[c] \in ConnRec
      /\ conn[c].life = "none" /\ leaving = <<>>
  BY DEF IInv, TypeOK, Accept, LeavingExact
<1>2. LeavingExact'
  BY <1>1 DEF Accept, LeavingExact
<1>3. CASE Full
  <2>1. /\ conn'[c] = [conn[c] EXCEPT !.tport = "closed"]
        /\ \A d \in Conns : d # c => conn'[d] = conn[d]
        /\ UNCHANGED <<registry, slot, up, leaving>>
    BY <1>1, <1>3 DEF Accept
  <2>2. Alike(conn[c], conn'[c])
    <3>1. \A s \in ConnRec : Alike(s, [s EXCEPT !.tport = "closed"])
      <4> TAKE s \in ConnRec
      <4> QED
        BY ZenonT(30) DEF Alike, ConnRec
    <3> QED
      BY <1>1, <2>1, <3>1, Zenon
  <2>3. \A d \in Conns : Alike(conn[d], conn'[d])
    BY <2>1, <2>2 DEF Alike
  <2> QED
    BY <2>1, <2>3, AlikeKeeps
<1>4. CASE ~Full
  <2> DEFINE n == NoConn
             o == [n EXCEPT !.life = "live", !.tport = "open", !.userData = TRUE]
             s == ArmDeadline(o, HandshakeTimeout)
  <2>1. conn' = [conn EXCEPT ![c] = s] /\ RegistryAdd(c)
    BY <1>4, Zenon DEF Accept
  <2>2. /\ n \in ConnRec /\ n.run = "idle" /\ n.closes = 0 /\ ~n.inDelivery
        /\ ~n.dropping /\ ~n.opened /\ n.state = "handshake"
    BY NoConnTyped DEF NoConn
  <2> HIDE DEF n
  <2>3. /\ o \in ConnRec /\ o.run = "idle" /\ o.closes = 0 /\ ~o.inDelivery
        /\ ~o.dropping /\ ~o.opened /\ o.state = "handshake"
        /\ o.life = "live" /\ o.userData
    <3>1. \A m \in ConnRec :
            [m EXCEPT !.life = "live", !.tport = "open", !.userData = TRUE]
              \in ConnRec
      <4> TAKE m \in ConnRec
      <4> QED
        BY DEF ConnRec
    <3>2. o \in ConnRec
      BY <2>2, <3>1, Zenon
    <3>3. /\ o.run = n.run /\ o.closes = n.closes /\ o.inDelivery = n.inDelivery
          /\ o.dropping = n.dropping /\ o.opened = n.opened
          /\ o.state = n.state /\ o.life = "live" /\ o.userData
      BY <2>2 DEF ConnRec
    <3> HIDE DEF o
    <3> QED
      BY <2>2, <3>2, <3>3
  <2> HIDE DEF o
  <2>4. s \in ConnRec /\ Alike(o, s)
    <3>1. HandshakeTimeout \in Nat
      BY DEF ServerAssumption
    <3> QED
      BY <2>3, <3>1, ArmDeadlineTyped, ArmDeadlineAlike
  <2> HIDE DEF s
  <2>5. s.life = "live" /\ ~s.dropping /\ Lawful(s)
    BY <2>3, <2>4 DEF Alike, Lawful
  <2>6. conn'[c] = s /\ \A d \in Conns : d # c => conn'[d] = conn[d]
    BY <1>1, <2>1
  <2>7. SessionsLawful'
    BY <2>5, <2>6 DEF IInv, SessionsLawful
  <2>8. RegistryExact'
    <3> DEFINE k == Len(registry) + 1
    <3>1. k \in Nat /\ Len(registry) \in Nat
      BY <1>1
    <3>2. /\ Len(registry') = k /\ registry'[k] = c
          /\ \A i \in 1 .. Len(registry) : registry'[i] = registry[i]
      BY <1>1, <2>1 DEF RegistryAdd
    <3>3. slot'[c] = k /\ \A d \in Conns : d # c => slot'[d] = slot[d]
      BY <1>1, <2>1 DEF RegistryAdd
    <3>4. slot[c] = 0
      BY <1>1 DEF IInv, RegistryExact, TypeOK
    <3>5. \A d \in Conns :
            slot'[d] # 0 <=> conn'[d].life = "live" /\ ~conn'[d].dropping
      BY <2>5, <2>6, <3>1, <3>3 DEF IInv, RegistryExact
    <3>6. \A d \in Conns : slot'[d] # 0 => Registered(d)'
      <4> SUFFICES ASSUME NEW d \in Conns, slot'[d] # 0 PROVE Registered(d)'
        OBVIOUS
      <4>1. CASE d = c
        BY <3>1, <3>2, <3>3, <4>1 DEF Registered
      <4>2. CASE d # c
        <5>1. slot[d] \in 1 .. Len(registry) /\ registry[slot[d]] = d
          BY <3>3, <4>2 DEF IInv, RegistryExact, Registered
        <5>2. slot[d] \in 1 .. k
          BY <3>1, <5>1
        <5> QED
          BY <3>2, <3>3, <4>2, <5>1, <5>2 DEF Registered
      <4> QED
        BY <4>1, <4>2
    <3>7. \A i \in 1 .. Len(registry') : slot'[registry'[i]] = i
      <4> SUFFICES ASSUME NEW i \in 1 .. k PROVE slot'[registry'[i]] = i
        BY <3>2
      <4>1. CASE i = k
        BY <3>2, <3>3, <4>1
      <4>2. CASE i # k
        <5>1. i \in 1 .. Len(registry)
          BY <3>1, <4>2
        <5>2. /\ registry[i] \in Conns /\ slot[registry[i]] = i
              /\ registry'[i] = registry[i]
          BY <1>1, <3>2, <5>1 DEF IInv, RegistryExact
        <5>3. registry[i] # c
          BY <3>4, <5>1, <5>2
        <5> QED
          BY <3>3, <5>2, <5>3
      <4> QED
        BY <4>1, <4>2
    <3>8. MaxConnections > 0 => Len(registry') <= MaxConnections
      <4>1. MaxConnections \in Nat
        BY DEF ServerAssumption
      <4> QED
        BY <1>4, <3>1, <3>2, <4>1 DEF Full
    <3> QED
      BY <3>5, <3>6, <3>7, <3>8 DEF RegistryExact
  <2> QED
    BY <1>2, <2>7, <2>8 DEF Teardown
<1> QED
  BY <1>3, <1>4

LEMMA HandshakeDataKeeps ==
  ASSUME IInv, NEW c \in Conns, HandshakeData(c) PROVE Teardown'
<1>1. conn[c].userData /\ UNCHANGED <<up, leaving>>
  BY DEF HandshakeData, Ready
<1>2. conn[c] \in Good
  BY <1>1, ReadyLive
<1>3. PICK e \in SendResults(conn[c]) :
        \/ Commit(c, Refuse(conn[c], e))
        \/ Commit(c, Answer(conn[c], e))
        \/ \E left \in Reads \union {<<>>} :
             Commit(c, Upgrade(conn[c], e, left))
  BY Zenon DEF HandshakeData
<1>4. e \in Results
  BY SendResultsKnown
<1>5. CASE Commit(c, Refuse(conn[c], e))
  BY <1>1, <1>2, <1>4, <1>5, RefuseGood, ReadyKeeps, Zenon
<1>6. CASE Commit(c, Answer(conn[c], e))
  BY <1>1, <1>2, <1>4, <1>6, AnswerGood, ReadyKeeps, Zenon
<1>7. CASE \E left \in Reads \union {<<>>} :
             Commit(c, Upgrade(conn[c], e, left))
  <2>1. PICK left \in Reads \union {<<>>} :
               Commit(c, Upgrade(conn[c], e, left))
    BY <1>7
  <2>2. <<>> \in Seq(FrameKinds)
    OBVIOUS
  <2>3. left \in Seq(FrameKinds)
    BY <2>2, ReadsTyped
  <2> QED
    BY <1>1, <1>2, <1>4, <2>1, <2>3, UpgradeGood, ReadyKeeps, Zenon
<1> QED
  BY <1>3, <1>5, <1>6, <1>7

LEMMA HandleDataKeeps ==
  ASSUME IInv, NEW c \in Conns, HandleData(c) PROVE Teardown'
<1> DEFINE a == NoteActivity(conn[c])
<1>1. conn[c].userData /\ UNCHANGED <<up, leaving>>
  BY DEF HandleData, Ready
<1>2. conn[c] \in Good /\ conn[c] \in ConnRec /\ ~conn[c].dropping
  BY <1>1, ReadyLive
<1>3. PICK frames \in Reads :
        Commit(c, [StartIngest(a, frames) EXCEPT !.reads = @ + 1])
  BY Zenon DEF HandleData
<1>4. a \in Good /\ ~a.dropping
  <2>1. a \in ConnRec /\ Alike(conn[c], a)
    BY <1>2, NoteActivityTyped, NoteActivityAlike
  <2> HIDE DEF a
  <2> QED
    BY <1>2, <2>1, AlikeGood DEF Alike
<1> HIDE DEF a
<1>5. StartIngest(a, frames) \in Good
  BY <1>4, ReadsTyped, StartIngestGood
<1>6. \A s \in Good : [s EXCEPT !.reads = s.reads + 1] \in Good
  <2> TAKE s \in Good
  <2>1. \A n \in ConnRec : /\ [n EXCEPT !.reads = n.reads + 1] \in ConnRec
                           /\ Alike(n, [n EXCEPT !.reads = n.reads + 1])
    <3> TAKE n \in ConnRec
    <3>1. n.reads + 1 \in Nat
      BY DEF ConnRec
    <3>2. \A k \in Nat : [n EXCEPT !.reads = k] \in ConnRec
      BY DEF ConnRec
    <3>3. Alike(n, [n EXCEPT !.reads = n.reads + 1])
      BY ZenonT(30) DEF Alike, ConnRec
    <3> QED
      BY <3>1, <3>2, <3>3, Zenon
  <2> QED
    BY <2>1, GoodFields, AlikeGood, Zenon
<1> QED
  BY <1>1, <1>3, <1>5, <1>6, ReadyKeeps, Zenon

LEMMA IngestFrameKeeps ==
  ASSUME IInv, NEW c \in Conns, IngestFrame(c) PROVE Teardown'
<1> DEFINE s == conn[c]
           f == Head(s.todo)
           t == ParseFrame(s, f)
           w == IF Deaf(t) THEN <<>> ELSE Tail(t.todo)
<1>1. s.run = "ingest" /\ s.todo # <<>> /\ UNCHANGED <<up, leaving>>
  BY DEF IngestFrame
<1>2. s \in Good /\ s \in ConnRec /\ s.inDelivery /\ ~s.dropping
  BY <1>1, RunningLive
<1>3. s.todo \in Seq(FrameKinds)
  BY <1>2 DEF ConnRec
<1>4. f \in FrameKinds
  BY <1>1, <1>3
<1>5. Commit(c, [t EXCEPT !.todo = w])
  BY DEF IngestFrame
<1>6. t \in ConnRec /\ t.todo = s.todo
  <2> HIDE DEF f, s
  <2> QED
    BY <1>2, <1>4, ParseFrameTyped, ParseFrameTodo
<1>7. t \in Good
  <2> HIDE DEF s, f
  <2>1. CASE f = "msg"
    <3> DEFINE m == [s EXCEPT !.run = "onmessage"]
    <3>1. t \in {s, m}
      BY <2>1 DEF ParseFrame
    <3>2. /\ m.life = s.life /\ m.userData = s.userData
          /\ m.dropping = s.dropping /\ m.opened = s.opened
          /\ m.closes = s.closes /\ m.state = s.state
          /\ m.inDelivery = s.inDelivery /\ m.run = "onmessage"
      BY <1>2 DEF ConnRec
    <3>3. m \in ConnRec
      BY <1>2 DEF ConnRec
    <3> HIDE DEF m
    <3>4. m \in Good
      BY <1>2, <3>2, <3>3, EnterGood
    <3> QED
      BY <1>2, <3>1, <3>4, Zenon
  <2>2. CASE f = "ping"
    <3>1. t = SendFrame(s, It("pong"))
      BY <2>2 DEF ParseFrame
    <3>2. Alike(s, t)
      BY <1>2, <3>1, ItemTyped, SendFrameAlike
    <3> HIDE DEF t
    <3> QED
      BY <1>2, <1>6, <3>2, AlikeGood
  <2>3. CASE f = "close"
    <3> DEFINE r == [s EXCEPT !.closeRecv = TRUE]
    <3>1. t = SendClose(r)
      BY <2>3 DEF ParseFrame
    <3>2. r \in ConnRec /\ Alike(s, r)
      BY <1>2 DEF ConnRec, Alike
    <3> HIDE DEF r
    <3>3. Alike(r, t)
      BY <3>1, <3>2, SendCloseAlike
    <3> HIDE DEF t
    <3> QED
      BY <1>2, <1>6, <3>2, <3>3, AlikeTrans, AlikeGood, Zenon
  <2>4. CASE f = "bad"
    <3>1. t = Fail(s)
      BY <2>4 DEF ParseFrame
    <3>2. Alike(s, t)
      BY <1>2, <3>1, FailAlike
    <3> HIDE DEF t
    <3> QED
      BY <1>2, <1>6, <3>2, AlikeGood
  <2> QED
    BY <1>4, <2>1, <2>2, <2>3, <2>4 DEF FrameKinds
<1>8. w \in Seq(FrameKinds)
  <2> HIDE DEF s, t
  <2>1. Tail(t.todo) \in Seq(FrameKinds)
    BY <1>1, <1>3, <1>6
  <2>2. <<>> \in Seq(FrameKinds)
    OBVIOUS
  <2> QED
    BY <2>1, <2>2
<1> HIDE DEF t, w
<1>9. [t EXCEPT !.todo = w] \in Good
  <2>1. \A m \in ConnRec, x \in Seq(FrameKinds) :
          /\ [m EXCEPT !.todo = x] \in ConnRec
          /\ Alike(m, [m EXCEPT !.todo = x])
    <3> TAKE m \in ConnRec, x \in Seq(FrameKinds)
    <3> QED
      BY ZenonT(30) DEF ConnRec, Alike
  <2> QED
    BY <1>6, <1>7, <1>8, <2>1, AlikeGood, Zenon
<1> QED
  BY <1>1, <1>5, <1>9, RunningKeeps, Zenon

LEMMA IngestEndKeeps ==
  ASSUME IInv, NEW c \in Conns, IngestEnd(c) PROVE Teardown'
<1>1. conn[c].run = "ingest" /\ UNCHANGED <<up, leaving>>
  BY DEF IngestEnd
<1>2. conn[c] \in Good /\ conn[c].inDelivery
  BY <1>1, RunningLive
<1>3. PICK e \in SendResults(conn[c]) : Commit(c, IngestDone(conn[c], e))
  BY Zenon DEF IngestEnd
<1>4. IngestDone(conn[c], e) \in Good
  BY <1>2, SendResultsKnown, IngestDoneGood
<1> QED
  BY <1>1, <1>3, <1>4, RunningKeeps, Zenon

LEMMA HandleSendReadyKeeps ==
  ASSUME IInv, NEW c \in Conns, HandleSendReady(c) PROVE Teardown'
<1>1. conn[c].userData /\ UNCHANGED <<up, leaving>>
  BY DEF HandleSendReady, Ready
<1>2. conn[c] \in Good
  BY <1>1, ReadyLive
<1>3. PICK e \in SendResults(conn[c]) : Commit(c, SendReady(conn[c], e))
  BY Zenon DEF HandleSendReady
<1>4. SendReady(conn[c], e) \in Good
  BY <1>2, SendResultsKnown, SendReadyGood
<1> QED
  BY <1>1, <1>3, <1>4, ReadyKeeps, Zenon

LEMMA HandleClosedKeeps ==
  ASSUME IInv, NEW c \in Conns, HandleClosed(c) PROVE Teardown'
<1> DEFINE s == conn[c]
           t == [s EXCEPT !.userData = FALSE, !.dropping = TRUE, !.tport = "dead"]
<1>1. s.userData /\ s.run = "idle" /\ UNCHANGED <<up, leaving>>
      /\ Commit(c, ReleaseConn(t))
  BY DEF HandleClosed, Ready
<1>2. s \in Good /\ s \in ConnRec /\ s.life = "live" /\ ~s.dropping /\ Lawful(s)
  BY <1>1, ReadyLive, GoodFields
<1> HIDE DEF s
<1>3. t \in ConnRec
  BY <1>2 DEF ConnRec
<1>4. /\ t.life = s.life /\ t.run = s.run /\ t.inDelivery = s.inDelivery
      /\ t.closes = s.closes /\ t.opened = s.opened /\ t.state = s.state
      /\ ~t.userData /\ t.dropping
  BY <1>2 DEF ConnRec
<1> HIDE DEF t
<1>5. ReleaseConn(t) \in Good
  BY <1>1, <1>2, <1>3, <1>4, ReleaseConnGood DEF Lawful
<1> USE DEF s
<1> QED
  BY <1>1, <1>5, ReadyKeeps, Zenon

(* A call by a handler, counted.                                           *)
LEMMA CallGood ==
  \A s \in Good : [s EXCEPT !.calls = s.calls + 1] \in Good
                  /\ Alike(s, [s EXCEPT !.calls = s.calls + 1])
<1> TAKE s \in Good
<1>1. \A n \in ConnRec : Alike(n, [n EXCEPT !.calls = n.calls + 1])
  <2> TAKE n \in ConnRec
  <2> QED
    BY ZenonT(30) DEF Alike, ConnRec
<1> QED
  BY <1>1, CallTyped, GoodFields, AlikeGood, Zenon

LEMMA SendDataKeeps ==
  ASSUME IInv, NEW c \in Conns, SendData(c) PROVE Teardown'
<1> DEFINE s == [conn[c] EXCEPT !.calls = conn[c].calls + 1]
<1>1. /\ conn[c].run \in {"onopen", "onmessage", "onpost"}
      /\ UNCHANGED <<up, leaving>>
  BY DEF SendData, Calling, InHandler
<1>2. conn[c] \in Good /\ conn[c].inDelivery
  BY <1>1, RunningLive
<1>3. s \in Good /\ Alike(conn[c], s)
  BY <1>2, CallGood, Zenon
<1>4. PICK e \in SendResults(s) :
        Commit(c, QueuedSend(s, e)) \/ Commit(c, DirectSend(s, e))
  BY Zenon DEF SendData
<1> HIDE DEF s
<1>5. s \in ConnRec /\ s.inDelivery /\ e \in Results
  BY <1>2, <1>3, GoodFields, SendResultsKnown DEF Alike
<1>6. QueuedSend(s, e) \in Good
  BY <1>3, <1>5, QueuedSendTyped, QueuedSendInside, AlikeGood
<1>7. DirectSend(s, e) \in Good
  BY <1>3, <1>5, DirectSendTyped, DirectSendInside, AlikeGood
<1>8. conn[c].run \in {"ingest", "onopen", "onmessage", "onpost"}
  BY <1>1
<1> QED
  BY <1>1, <1>4, <1>6, <1>7, <1>8, RunningKeeps, Zenon

LEMMA CloseKeeps ==
  ASSUME IInv, NEW c \in Conns, Close(c) PROVE Teardown'
<1> DEFINE s == [conn[c] EXCEPT !.calls = conn[c].calls + 1]
<1>1. /\ conn[c].run \in {"onopen", "onmessage", "onpost"}
      /\ UNCHANGED <<up, leaving>>
  BY DEF Close, Calling, InHandler
<1>2. conn[c] \in Good /\ conn[c].inDelivery
  BY <1>1, RunningLive
<1>3. s \in Good /\ Alike(conn[c], s)
  BY <1>2, CallGood, Zenon
<1>4. PICK e \in SendResults(s) : Commit(c, CloseCall(s, e))
  BY Zenon DEF Close
<1>5. s.state = "open"
  BY Zenon DEF Close
<1> HIDE DEF s
<1>6. s \in ConnRec /\ s.inDelivery /\ e \in Results
  BY <1>2, <1>3, GoodFields, SendResultsKnown DEF Alike
<1>7. CloseCall(s, e) \in Good
  BY <1>3, <1>5, <1>6, CloseCallTyped, CloseCallInside, AlikeGood
<1>8. conn[c].run \in {"ingest", "onopen", "onmessage", "onpost"}
  BY <1>1
<1> QED
  BY <1>1, <1>4, <1>7, <1>8, RunningKeeps, Zenon

LEMMA HandlerReturnsKeeps ==
  ASSUME IInv, NEW c \in Conns, HandlerReturns(c) PROVE Teardown'
<1> DEFINE s == conn[c]
<1>1. /\ s.run \in {"onopen", "onmessage", "onpost"}
      /\ s.run \in {"ingest", "onopen", "onmessage", "onpost"}
      /\ UNCHANGED <<up, leaving>>
  BY DEF HandlerReturns, InHandler
<1>2. s \in Good /\ s \in ConnRec /\ s.inDelivery /\ ~s.dropping
  BY <1>1, RunningLive
<1>3. PICK e \in SendResults(s) :
        Commit(c, CASE s.run = "onmessage" -> [s EXCEPT !.run = "ingest"]
                    [] s.run = "onopen" -> AfterOpen(s, e)
                    [] s.run = "onpost" -> Settled(s, e))
  BY Zenon DEF HandlerReturns
<1>4. AfterOpen(s, e) \in Good /\ Settled(s, e) \in Good
  BY <1>2, SendResultsKnown, AfterOpenGood, SettledGood
<1>5. [s EXCEPT !.run = "ingest"] \in Good
  <2> DEFINE m == [s EXCEPT !.run = "ingest"]
  <2> HIDE DEF s
  <2>1. /\ m.life = s.life /\ m.userData = s.userData
        /\ m.dropping = s.dropping /\ m.opened = s.opened
        /\ m.closes = s.closes /\ m.state = s.state
        /\ m.inDelivery = s.inDelivery /\ m.run = "ingest"
    BY <1>2 DEF ConnRec
  <2>2. m \in ConnRec
    BY <1>2 DEF ConnRec
  <2> HIDE DEF m
  <2>3. m \in Good
    BY <1>2, <2>1, <2>2, EnterGood
  <2> QED
    BY <2>3 DEF m
<1>6. CASE s.run = "onmessage"
  <2>1. Commit(c, [s EXCEPT !.run = "ingest"])
    BY <1>3, <1>6
  <2> QED
    BY <1>1, <1>5, <2>1, RunningKeeps, Zenon
<1>7. CASE s.run = "onopen"
  <2>1. Commit(c, AfterOpen(s, e))
    BY <1>3, <1>7
  <2> QED
    BY <1>1, <1>4, <2>1, RunningKeeps, Zenon
<1>8. CASE s.run = "onpost"
  <2>1. Commit(c, Settled(s, e))
    BY <1>3, <1>8
  <2> QED
    BY <1>1, <1>4, <2>1, RunningKeeps, Zenon
<1> QED
  BY <1>1, <1>6, <1>7, <1>8

LEMMA HandlerRaisesKeeps ==
  ASSUME IInv, NEW c \in Conns, HandlerRaises(c) PROVE Teardown'
<1> DEFINE h == HandlerRaised(conn[c])
           s == [h EXCEPT !.todo = <<>>]
<1>1. /\ conn[c].run \in {"ingest", "onopen", "onmessage", "onpost"}
      /\ UNCHANGED <<up, leaving>>
  BY DEF HandlerRaises, InHandler
<1>2. conn[c] \in Good /\ conn[c] \in ConnRec /\ conn[c].inDelivery
  BY <1>1, RunningLive
<1>3. PICK e \in SendResults(s) : Commit(c, Settled(s, e))
  BY Zenon DEF HandlerRaises
<1>4. h \in Good /\ h \in ConnRec /\ h.inDelivery
  <2>1. h \in ConnRec /\ Alike(conn[c], h)
    BY <1>2, HandlerRaisedTyped, HandlerRaisedAlike
  <2> HIDE DEF h
  <2> QED
    BY <1>2, <2>1, AlikeGood DEF Alike
<1> HIDE DEF h
<1>5. s \in Good /\ s.inDelivery
  <2>1. s \in Good
    BY <1>4, TodoGood, Zenon
  <2>2. s.inDelivery
    BY <1>4 DEF ConnRec
  <2> QED
    BY <2>1, <2>2
<1> HIDE DEF s
<1>6. Settled(s, e) \in Good
  BY <1>5, SendResultsKnown, SettledGood
<1> QED
  BY <1>1, <1>3, <1>6, RunningKeeps, Zenon

LEMMA CloseReturnsKeeps ==
  ASSUME IInv, NEW c \in Conns, CloseReturns(c) PROVE Teardown'
<1> DEFINE s == conn[c]
<1>1. s.run = "onclose" /\ Commit(c, Freed(s)) /\ UNCHANGED <<up, leaving>>
  BY DEF CloseReturns
<1>2. s \in Good /\ s \in ConnRec /\ s.life = "live" /\ s.dropping
  BY <1>1, RunningLive, GoodFields DEF Lawful
<1>3. Freed(s) \in Good /\ Freed(s).dropping
  <2> HIDE DEF s
  <2> QED
    BY <1>1, <1>2, GoodFields, FreedTyped, FreedFields DEF Good, Lawful
<1> QED
  BY <1>1, <1>2, <1>3, CommitKeeps, Zenon

LEMMA DeliverPostKeeps ==
  ASSUME IInv, NEW c \in Conns, DeliverPost(c) PROVE Teardown'
<1> DEFINE s == conn[c]
<1>1. s.run = "idle" /\ UNCHANGED <<up, leaving>>
  BY DEF DeliverPost
<1>2. CASE ~s.userData
  <2>1. UNCHANGED <<conn, registry, slot>>
    BY <1>2 DEF DeliverPost
  <2>2. \A d \in Conns : Alike(conn[d], conn'[d])
    BY <2>1 DEF Alike
  <2> QED
    BY <1>1, <2>1, <2>2, AlikeKeeps
<1>3. CASE s.userData
  <2>1. s \in Good /\ s \in ConnRec /\ ~s.dropping
    BY <1>3, ReadyLive
  <2>2. CASE Head(inbox[c]) = "check"
    <3>1. PICK e \in SendResults(s) : Commit(c, ClockChecked(s, e))
      BY <1>3, <2>2, Zenon DEF DeliverPost
    <3>2. ClockChecked(s, e) \in Good
      BY <1>1, <2>1, SendResultsKnown, ClockCheckedGood
    <3> QED
      BY <1>1, <1>3, <3>1, <3>2, ReadyKeeps, Zenon
  <2>3. CASE Head(inbox[c]) # "check"
    <3> DEFINE m == [s EXCEPT !.inDelivery = TRUE, !.run = "onpost"]
    <3>1. Commit(c, m)
      BY <1>3, <2>3, Zenon DEF DeliverPost
    <3> HIDE DEF s
    <3>2. /\ m.life = s.life /\ m.userData = s.userData
          /\ m.dropping = s.dropping /\ m.opened = s.opened
          /\ m.closes = s.closes /\ m.state = s.state
          /\ m.inDelivery /\ m.run = "onpost"
      BY <2>1 DEF ConnRec
    <3>3. m \in ConnRec
      BY <2>1 DEF ConnRec
    <3> HIDE DEF m
    <3>4. m \in Good
      BY <2>1, <3>2, <3>3, EnterGood
    <3> USE DEF s
    <3> QED
      BY <1>1, <1>3, <3>1, <3>4, ReadyKeeps, Zenon
  <2> QED
    BY <2>2, <2>3
<1> QED
  BY <1>2, <1>3

LEMMA PostChecksKeeps ==
  ASSUME IInv, NEW cs, PostChecks(cs) PROVE Teardown'
<1>1. \A s \in ConnRec : Alike(s, [s EXCEPT !.sweepPosted = TRUE]) /\ Alike(s, s)
  <2> TAKE s \in ConnRec
  <2> QED
    BY ZenonT(30) DEF Alike, ConnRec
<1>2. \A c \in Conns : conn[c] \in ConnRec
  BY DEF IInv, TypeOK
<1>3. \A c \in Conns : Alike(conn[c], conn'[c])
  BY <1>1, <1>2, Zenon DEF PostChecks
<1>4. UNCHANGED <<registry, slot, up, leaving>>
  BY DEF PostChecks
<1> QED
  BY <1>3, <1>4, AlikeKeeps

LEMMA TickKeeps == ASSUME IInv, Tick PROVE Teardown'
<1>1. \A s \in ConnRec :
        Alike(s, [s EXCEPT !.deadline = TickDown(s.deadline),
                           !.pingDue = TickDown(s.pingDue),
                           !.sweepAt = TickDown(s.sweepAt),
                           !.asked = TickUp(s.asked)])
  <2> TAKE s \in ConnRec
  <2> QED
    BY ZenonT(30) DEF Alike, ConnRec
<1>2. \A c \in Conns : conn[c] \in ConnRec
  BY DEF IInv, TypeOK
<1>3. \A c \in Conns : Alike(conn[c], conn'[c])
  BY <1>1, <1>2, Zenon DEF Tick
<1>4. UNCHANGED <<registry, slot, up, leaving>>
  BY DEF Tick
<1> QED
  BY <1>3, <1>4, AlikeKeeps

LEMMA DestroyKeeps == ASSUME IInv, Destroy PROVE Teardown'
<1>1. /\ registry \in Seq(Conns) /\ slot \in [Conns -> Nat]
      /\ \A c \in Conns : conn[c] \in ConnRec /\ conn[c].run = "idle"
  BY DEF IInv, TypeOK, Destroy
<1>2. /\ \A c \in Conns : conn'[c] = IF Registered(c) THEN Detach(conn[c])
                                      ELSE conn[c]
      /\ registry' = <<>> /\ \A c \in Conns : slot'[c] = 0
      /\ leaving' = registry /\ ~up'
  BY DEF Destroy
<1>3. \A c \in Conns : Registered(c) <=> conn[c].life = "live" /\ ~conn[c].dropping
  <2> TAKE c \in Conns
  <2>1. Registered(c) => slot[c] # 0
    BY <1>1 DEF Registered
  <2> QED
    BY <2>1 DEF IInv, RegistryExact
<1>4. \A s \in ConnRec :
        /\ Detach(s).life = s.life /\ Detach(s).run = s.run
        /\ Detach(s).inDelivery = s.inDelivery
        /\ Detach(s).opened = s.opened /\ Detach(s).closes = s.closes
        /\ Detach(s).state = s.state
        /\ Detach(s).dropping /\ ~Detach(s).userData
  <2> TAKE s \in ConnRec
  <2> QED
    BY DEF Detach, ConnRec
<1>5. SessionsLawful'
  <2> SUFFICES ASSUME NEW c \in Conns
               PROVE  IF conn'[c].life = "none" THEN Untouched(conn'[c])
                      ELSE Lawful(conn'[c])
    BY DEF SessionsLawful
  <2>1. CASE Registered(c)
    <3>1. conn[c].life = "live" /\ conn[c].run = "idle" /\ Lawful(conn[c])
      BY <1>1, <1>3, <2>1 DEF IInv, SessionsLawful
    <3>2. conn'[c] = Detach(conn[c]) /\ conn[c] \in ConnRec
      BY <1>1, <1>2, <2>1
    <3> QED
      BY <1>4, <3>1, <3>2 DEF Lawful
  <2>2. CASE ~Registered(c)
    BY <1>2, <2>2 DEF IInv, SessionsLawful
  <2> QED
    BY <2>1, <2>2
<1>6. RegistryExact'
  <2>1. \A c \in Conns : ~(conn'[c].life = "live" /\ ~conn'[c].dropping)
    BY <1>1, <1>2, <1>3, <1>4
  <2>2. Len(registry') = 0
    BY <1>2
  <2>3. MaxConnections > 0 => 0 <= MaxConnections
    BY DEF ServerAssumption
  <2> QED
    BY <1>2, <2>1, <2>2, <2>3 DEF RegistryExact
<1>7. LeavingExact'
  <2>1. \A i, j \in 1 .. Len(registry) : registry[i] = registry[j] => i = j
    BY DEF IInv, RegistryExact
  <2>2. \A i \in 1 .. Len(registry) : registry[i] \in Conns /\ Registered(registry[i])
    BY <1>1 DEF IInv, RegistryExact, Registered
  <2>3. \A i \in 1 .. Len(registry) :
          LET s == conn'[registry[i]]
          IN s.life = "live" /\ s.dropping /\ s.run = "idle"
    BY <1>1, <1>2, <1>3, <1>4, <2>2
  <2> QED
    BY <1>2, <2>1, <2>3 DEF LeavingExact
<1> QED
  BY <1>5, <1>6, <1>7 DEF Teardown

LEMMA ReleaseNextKeeps == ASSUME IInv, ReleaseNext PROVE Teardown'
<1> DEFINE h == Head(leaving)
           r == ReleaseConn(conn[h])
<1>1. leaving \in Seq(Conns) /\ leaving # <<>> /\ conn \in [Conns -> ConnRec]
  BY DEF IInv, TypeOK, ReleaseNext
<1>2. h \in Conns /\ h = leaving[1] /\ 1 \in 1 .. Len(leaving)
  BY <1>1
<1>3. /\ conn[h] \in ConnRec /\ conn[h].life = "live" /\ conn[h].dropping
      /\ conn[h].run = "idle" /\ Lawful(conn[h])
  BY <1>1, <1>2 DEF IInv, LeavingExact, SessionsLawful
<1>4. /\ conn' = [conn EXCEPT ![h] = r] /\ leaving' = Tail(leaving)
      /\ UNCHANGED <<registry, slot, up>>
  BY DEF ReleaseNext
<1>5. r \in Good /\ r.dropping
  <2>1. ~conn[h].userData /\ ~conn[h].inDelivery /\ conn[h].closes = 0
        /\ (conn[h].opened <=> conn[h].state # "handshake")
    BY <1>3 DEF Lawful
  <2> HIDE DEF h
  <2> QED
    BY <1>3, <2>1, ReleaseConnGood
<1> HIDE DEF r, h
<1>6. conn'[h] = r /\ \A d \in Conns : d # h => conn'[d] = conn[d]
  BY <1>1, <1>2, <1>4
<1>7. SessionsLawful'
  BY <1>5, <1>6 DEF IInv, SessionsLawful, Good
<1>8. RegistryExact'
  BY <1>3, <1>4, <1>5, <1>6 DEF IInv, RegistryExact, Registered
<1>9. LeavingExact'
  <2>1. Len(leaving') = Len(leaving) - 1 /\ Len(leaving) \in Nat
        /\ \A i \in 1 .. Len(leaving') : leaving'[i] = leaving[i + 1]
    BY <1>1, <1>4
  <2>2. \A i \in 1 .. Len(leaving') :
          /\ i + 1 \in 1 .. Len(leaving) /\ i + 1 # 1
          /\ leaving[i + 1] \in Conns
    BY <1>1, <2>1
  <2>3. \A i \in 1 .. Len(leaving') : leaving[i + 1] # h
    BY <1>2, <2>2 DEF IInv, LeavingExact
  <2>4. \A i, j \in 1 .. Len(leaving') : leaving'[i] = leaving'[j] => i = j
    <3> TAKE i, j \in 1 .. Len(leaving')
    <3> HAVE leaving'[i] = leaving'[j]
    <3>1. leaving[i + 1] = leaving[j + 1]
      BY <2>1
    <3>2. i + 1 = j + 1
      BY <2>2, <3>1 DEF IInv, LeavingExact
    <3> QED
      BY <2>1, <3>2
  <2>5. \A i \in 1 .. Len(leaving') :
          LET s == conn'[leaving'[i]]
          IN s.life = "live" /\ s.dropping /\ s.run = "idle"
    BY <1>6, <2>1, <2>2, <2>3 DEF IInv, LeavingExact
  <2>6. ~up'
    BY <1>1, <1>4 DEF IInv, LeavingExact
  <2> QED
    BY <2>4, <2>5, <2>6 DEF LeavingExact
<1> QED
  BY <1>7, <1>8, <1>9 DEF Teardown

-----------------------------------------------------------------------------
(* The inductive invariant and what follows from it.                       *)

LEMMA InitKeeps == Init => IInv
<1> SUFFICES ASSUME Init PROVE IInv
  OBVIOUS
<1>1. TypeOK
  BY InitTyped
<1> DEFINE n == NoConn
<1>2. n.life = "none" /\ Untouched(n)
  BY DEF NoConn, Untouched
<1>3. \A c \in Conns : conn[c] = n /\ slot[c] = 0
  BY DEF Init
<1> HIDE DEF n
<1>4. SessionsLawful
  BY <1>2, <1>3 DEF SessionsLawful
<1>5. Len(registry) = 0 /\ Len(leaving) = 0 /\ leaving = <<>>
  BY DEF Init
<1>6. RegistryExact
  <2>1. MaxConnections > 0 => 0 <= MaxConnections
    BY DEF ServerAssumption
  <2> QED
    BY <1>2, <1>3, <1>5, <2>1 DEF RegistryExact
<1>7. LeavingExact
  BY <1>5 DEF LeavingExact
<1> QED
  BY <1>1, <1>4, <1>6, <1>7 DEF IInv

LEMMA TeardownStep == ASSUME IInv, [Next]_vars PROVE Teardown'
<1>1. ASSUME NEW c \in Conns,
             \/ Accept(c) \/ HandshakeData(c) \/ HandleData(c)
             \/ IngestFrame(c) \/ IngestEnd(c) \/ HandleSendReady(c)
             \/ HandleClosed(c)
      PROVE  Teardown'
  BY <1>1, AcceptKeeps, HandshakeDataKeeps, HandleDataKeeps, IngestFrameKeeps,
     IngestEndKeeps, HandleSendReadyKeeps, HandleClosedKeeps, Zenon
<1>2. ASSUME NEW c \in Conns,
             \/ SendData(c) \/ Close(c) \/ HandlerReturns(c)
             \/ HandlerRaises(c) \/ CloseReturns(c)
      PROVE  Teardown'
  BY <1>2, SendDataKeeps, CloseKeeps, HandlerReturnsKeeps, HandlerRaisesKeeps,
     CloseReturnsKeeps, Zenon
<1>3. ASSUME NEW c \in Conns, DeliverPost(c) \/ SweepStale(c) PROVE Teardown'
  BY <1>3, DeliverPostKeeps, PostChecksKeeps, Zenon DEF SweepStale
<1>4. ASSUME UNCHANGED <<conn, registry, slot, up, leaving>> PROVE Teardown'
  <2>1. \A c \in Conns : Alike(conn[c], conn'[c])
    BY <1>4 DEF Alike
  <2> QED
    BY <1>4, <2>1, AlikeKeeps
<1>5. ASSUME NEW t \in Threads, NEW c \in Conns, PostLookup(t, c)
      PROVE  Teardown'
  BY <1>4, <1>5 DEF PostLookup
<1>6. ASSUME NEW t \in Threads, PostSubmit(t) PROVE Teardown'
  BY <1>4, <1>6 DEF PostSubmit
<1>7. CASE SweepClocks
  BY <1>7, PostChecksKeeps, Zenon DEF SweepClocks
<1>8. CASE Tick
  BY <1>8, TickKeeps
<1>9. CASE Destroy
  BY <1>9, DestroyKeeps
<1>10. CASE ReleaseNext
  BY <1>10, ReleaseNextKeeps
<1>11. CASE UNCHANGED vars
  BY <1>4, <1>11 DEF vars
<1> QED
  BY <1>1, <1>2, <1>3, <1>5, <1>6, <1>7, <1>8, <1>9, <1>10, <1>11, Zenon DEF Next

(* The invariant behind the three promises on teardown is inductive, for   *)
(* any number of connections, with any interleaving of callbacks, handlers *)
(* that raise, the sweeper, posting threads and Destroy.                   *)
THEOREM InductiveInvariant == Spec => []IInv
<1>1. Init => IInv
  BY InitKeeps
<1>2. IInv /\ [Next]_vars => IInv'
  <2> SUFFICES ASSUME IInv, [Next]_vars PROVE IInv'
    OBVIOUS
  <2>1. TypeOK'
    BY TypeStep DEF IInv
  <2> QED
    BY <2>1, TeardownStep DEF IInv, Teardown
<1> QED
  BY <1>1, <1>2, PTL DEF Spec

(* OnClientClose is called exactly once for every connection that saw      *)
(* OnOpen and never for another one.                                       *)
THEOREM ClosesOnce == Spec => []OpenClosePaired
<1>1. IInv => OpenClosePaired
  <2> SUFFICES ASSUME IInv, NEW c \in Conns
               PROVE  conn[c].closes =
                        IF conn[c].opened /\ (\/ conn[c].life = "freed"
                                              \/ conn[c].run = "onclose")
                          THEN 1 ELSE 0
    BY DEF OpenClosePaired
  <2> QED
    BY DEF IInv, SessionsLawful, Untouched, Lawful
<1> QED
  BY <1>1, InductiveInvariant, PTL

(* No reference to a freed session survives, and no drop starts below a    *)
(* running delivery.                                                       *)
THEOREM NeverUsedAfterFree == Spec => []NoUseAfterFree
<1>1. IInv => NoUseAfterFree
  <2> SUFFICES ASSUME IInv, NEW c \in Conns
               PROVE  LET s == conn[c] IN
                      /\ (\/ s.userData \/ s.run # "idle" \/ s.inDelivery
                          \/ Registered(c) \/ c \in ToSet(leaving))
                           => s.life = "live"
                      /\ s.userData \/ s.inDelivery => ~s.dropping
    BY DEF NoUseAfterFree
  <2>1. conn[c].userData => conn[c].life = "live" /\ ~conn[c].dropping
    BY ReadyLive
  <2>2. conn[c].run # "idle" => conn[c].life = "live"
    BY RunningLive
  <2>3. conn[c].inDelivery => conn[c].run # "idle" /\ ~conn[c].dropping
    BY DEF IInv, SessionsLawful, Untouched, Lawful
  <2>4. Registered(c) => conn[c].life = "live"
    <3>1. Registered(c) => slot[c] # 0
      BY DEF Registered, IInv, TypeOK
    <3> QED
      BY <3>1 DEF IInv, RegistryExact
  <2>5. c \in ToSet(leaving) => conn[c].life = "live"
    <3> SUFFICES ASSUME c \in ToSet(leaving) PROVE conn[c].life = "live"
      OBVIOUS
    <3>1. leaving \in Seq(Conns)
      BY DEF IInv, TypeOK
    <3>2. PICK i \in 1 .. Len(leaving) : leaving[i] = c
      BY <3>1 DEF ToSet
    <3> QED
      BY <3>2 DEF IInv, LeavingExact
  <2> QED
    BY <2>1, <2>2, <2>3, <2>4, <2>5
<1> QED
  BY <1>1, InductiveInvariant, PTL

(* The registry holds exactly the sessions not being torn down, each at    *)
(* the index it carries, within MaxConnections.                            *)
THEOREM RegistryAlwaysExact == Spec => []RegistryExact
<1>1. IInv => RegistryExact
  BY DEF IInv
<1> QED
  BY <1>1, InductiveInvariant, PTL

-----------------------------------------------------------------------------
(***************************************************************************)
(* The session layer keeps its contract with the host: every step of       *)
(* WSServer is a step of WSLifecycle, or changes nothing the contract      *)
(* speaks of.  What that needs beyond the invariant on teardown is when a  *)
(* session still hears messages, which four flags and two fields of the    *)
(* protocol object decide together.                                        *)
(***************************************************************************)

(* What holds of a session between two actions.  Code runs for a session   *)
(* only after OnOpen; a drop that was put off is carried out as soon as    *)
(* the delivery unwinds; an open connection drains only because it failed, *)
(* its handler raised or the peer closed; before OnOpen none of that has   *)
(* happened; and frames are left to parse only while it hears them.        *)
Hears(s) ==
  /\ s.life = "none" => ~Condemned(s)
  /\ s.life = "live" => (s.run # "idle" => s.opened)
  /\ s.life = "live" /\ ~s.dropping =>
       /\ ~s.inDelivery => ~s.dropDeferred
       /\ s.opened /\ s.dropPending => s.faulted \/ Deaf(s)
       /\ ~s.opened => ~s.faulted /\ ~Deaf(s)
       /\ s.run \in {"ingest", "onmessage"} /\ s.todo # <<>>
            => ~s.faulted /\ ~Deaf(s)

(* A proc is posted, or about to be, only to a session that saw OnOpen.    *)
ProcsOpened ==
  /\ \A c \in Conns :
       (\E i \in 1 .. Len(inbox[c]) : inbox[c][i] = "proc") => conn[c].opened
  /\ \A t \in Threads : poster[t] # Nobody => conn[poster[t]].opened

RInv == IInv /\ (\A c \in Conns : Hears(conn[c])) /\ ProcsOpened

-----------------------------------------------------------------------------
(* Two records that differ only in what neither the contract nor Hears     *)
(* reads.                                                                  *)
Flags(s, t) ==
  /\ t.dropDeferred = s.dropDeferred /\ t.dropPending = s.dropPending
  /\ t.faulted = s.faulted /\ t.failed = s.failed
  /\ t.closeRecv = s.closeRecv /\ t.todo = s.todo

Plain(s, t) == Alike(s, t) /\ Flags(s, t)

(* The same inside a delivery, where a drop may have left its note.        *)
Deferred(s, t) ==
  /\ Alike(s, t)
  /\ s.dropDeferred => t.dropDeferred
  /\ t.dropPending = s.dropPending /\ t.faulted = s.faulted
  /\ t.failed = s.failed /\ t.closeRecv = s.closeRecv /\ t.todo = s.todo

(* The same, but draining.                                                 *)
Drained(s, t) ==
  /\ Alike(s, t)
  /\ t.dropPending /\ t.dropDeferred = s.dropDeferred
  /\ t.faulted = s.faulted /\ t.failed = s.failed
  /\ t.closeRecv = s.closeRecv /\ t.todo = s.todo

(* Released: an opened session runs OnClientClose, another one is gone.    *)
Ends(s, t) ==
  /\ t.dropping /\ t.opened = s.opened
  /\ s.opened => t.life = "live" /\ t.run = "onclose"
  /\ ~s.opened => t.life = "freed" /\ t.run = "idle"

LEMMA PlainTrans ==
  /\ \A s : Plain(s, s)
  /\ \A r, s, t : Plain(r, s) /\ Plain(s, t) => Plain(r, t)
  /\ \A r, s, t : Plain(r, s) /\ Deferred(s, t) => Deferred(r, t)
  /\ \A r, s, t : Plain(r, s) /\ Drained(s, t) => Drained(r, t)
  /\ \A r, s, t : Deferred(r, s) /\ Deferred(s, t) => Deferred(r, t)
  /\ \A s, t : Plain(s, t) => Deferred(s, t)
  /\ \A r, s, t : Alike(r, s) /\ Ends(s, t) => Ends(r, t)
  /\ \A s, t : Plain(s, t) \/ Deferred(s, t) \/ Drained(s, t) => Alike(s, t)
  BY DEF Alike, Flags, Plain, Deferred, Drained, Ends

-----------------------------------------------------------------------------
(* Procedures that touch neither.                                          *)

LEMMA ReschedulePlain == \A s \in ConnRec : Plain(s, Reschedule(s))
<1> TAKE s \in ConnRec
<1>1. Flags(s, Reschedule(s))
  BY DEF Flags, Reschedule, ConnRec
<1> QED
  BY <1>1, RescheduleAlike DEF Plain

LEMMA ArmDeadlinePlain ==
  \A s \in ConnRec, ms \in Nat : Plain(s, ArmDeadline(s, ms))
<1> TAKE s \in ConnRec, ms \in Nat
<1>1. Flags(s, ArmDeadline(s, ms))
  BY DEF Flags, ArmDeadline, Reschedule, ConnRec
<1> QED
  BY <1>1, ArmDeadlineAlike DEF Plain

LEMMA NoteActivityPlain == \A s \in ConnRec : Plain(s, NoteActivity(s))
<1> TAKE s \in ConnRec
<1>1. Flags(s, NoteActivity(s))
  BY DEF Flags, NoteActivity, Reschedule, ConnRec
<1> QED
  BY <1>1, NoteActivityAlike DEF Plain

LEMMA QueuePlain == \A s \in ConnRec, item \in Item : Plain(s, Queue(s, item))
<1> TAKE s \in ConnRec, item \in Item
<1>1. Flags(s, Queue(s, item))
  BY DEF Flags, Queue, ConnRec
<1> QED
  BY <1>1, QueueAlike DEF Plain

LEMMA SendFramePlain ==
  \A s \in ConnRec, item \in Item : Plain(s, SendFrame(s, item))
<1> TAKE s \in ConnRec, item \in Item
<1>1. Flags(s, SendFrame(s, item))
  BY DEF Flags, SendFrame, Queue, ConnRec
<1> QED
  BY <1>1, SendFrameAlike DEF Plain

LEMMA SendClosePlain == \A s \in ConnRec : Plain(s, SendClose(s))
<1> TAKE s \in ConnRec
<1>1. Flags(s, SendClose(s))
  BY DEF Flags, SendClose, Queue, ConnRec
<1> QED
  BY <1>1, SendCloseAlike DEF Plain

LEMMA PingLapsedPlain == \A s \in ConnRec : Plain(s, PingLapsed(s))
<1> TAKE s \in ConnRec
<1>1. Flags(s, PingLapsed(s))
  BY DEF Flags, PingLapsed, Reschedule, ConnRec
<1> QED
  BY <1>1, PingLapsedAlike DEF Plain

LEMMA TportPlain ==
  \A s \in ConnRec : /\ [s EXCEPT !.tport = "dead"] \in ConnRec
                     /\ Plain(s, [s EXCEPT !.tport = "dead"])
<1> TAKE s \in ConnRec
<1>1. Flags(s, [s EXCEPT !.tport = "dead"])
  BY DEF Flags, ConnRec
<1> QED
  BY <1>1, TportAlike DEF Plain

LEMMA TakenPlain ==
  \A s \in ConnRec, e \in Results : s.out # <<>> =>
    /\ OutConsume(s, Taken(s, e)) \in ConnRec
    /\ Plain(s, OutConsume(s, Taken(s, e)))
<1> TAKE s \in ConnRec, e \in Results
<1>1. Flags(s, OutConsume(s, Taken(s, e)))
  BY DEF Flags, OutConsume, ConnRec
<1> QED
  BY <1>1, TakenAlike DEF Plain

LEMMA BeginDrainDrains ==
  \A s \in ConnRec : Drained(s, BeginDrain(s))
<1> TAKE s \in ConnRec
<1>1. /\ BeginDrain(s).dropPending
      /\ BeginDrain(s).dropDeferred = s.dropDeferred
      /\ BeginDrain(s).faulted = s.faulted /\ BeginDrain(s).failed = s.failed
      /\ BeginDrain(s).closeRecv = s.closeRecv /\ BeginDrain(s).todo = s.todo
  BY DEF BeginDrain, ArmDeadline, Reschedule, ConnRec
<1> QED
  BY <1>1, BeginDrainAlike DEF Drained

-----------------------------------------------------------------------------
(* Inside a delivery.                                                      *)

LEMMA DropConnDefers ==
  \A s \in ConnRec : s.inDelivery => Deferred(s, DropConn(s))
<1> TAKE s \in ConnRec
<1>1. s.inDelivery =>
        /\ DropConn(s).dropDeferred
        /\ DropConn(s).dropPending = s.dropPending
        /\ DropConn(s).faulted = s.faulted /\ DropConn(s).failed = s.failed
        /\ DropConn(s).closeRecv = s.closeRecv /\ DropConn(s).todo = s.todo
  BY DEF DropConn, ConnRec
<1> QED
  BY <1>1, DropConnInside DEF Deferred

(* What a flush amounts to: a plain record, or its drop.                   *)
LEMMA FlushConnParts ==
  \A s \in ConnRec, e \in Results :
    \E t \in ConnRec : Plain(s, t) /\ FlushConn(s, e) \in {t, DropConn(t)}
<1> TAKE s \in ConnRec, e \in Results
<1>1. CASE s.out = <<>>
  <2>1. FlushConn(s, e) = s
    BY <1>1 DEF FlushConn
  <2> QED
    BY <2>1, PlainTrans, Zenon
<1>2. CASE s.out # <<>> /\ e = "dead"
  <2>1. FlushConn(s, e) = DropConn([s EXCEPT !.tport = "dead"])
    BY <1>2 DEF FlushConn
  <2> QED
    BY <2>1, TportPlain, Zenon
<1>3. CASE s.out # <<>> /\ e # "dead"
  <2> DEFINE t == OutConsume(s, Taken(s, e))
  <2>1. t \in ConnRec /\ Plain(s, t)
    BY <1>3, TakenPlain
  <2>2. FlushConn(s, e) \in {t, DropConn(t)}
    BY <1>3, Zenon DEF FlushConn
  <2> HIDE DEF t
  <2> QED
    BY <2>1, <2>2, Zenon
<1> QED
  BY <1>1, <1>2, <1>3

LEMMA FlushConnDefers ==
  \A s \in ConnRec, e \in Results : s.inDelivery => Deferred(s, FlushConn(s, e))
<1> TAKE s \in ConnRec, e \in Results
<1> SUFFICES ASSUME s.inDelivery PROVE Deferred(s, FlushConn(s, e))
  OBVIOUS
<1>1. PICK t \in ConnRec : Plain(s, t) /\ FlushConn(s, e) \in {t, DropConn(t)}
  BY FlushConnParts, Zenon
<1>2. t.inDelivery
  BY <1>1 DEF Plain, Alike
<1>3. Deferred(s, t) /\ Deferred(s, DropConn(t))
  BY <1>1, <1>2, DropConnDefers, PlainTrans, Zenon
<1> QED
  BY <1>1, <1>3, Zenon

LEMMA DirectSendDefers ==
  \A s \in ConnRec, e \in Results :
    s.inDelivery => Deferred(s, DirectSend(s, e))
<1> TAKE s \in ConnRec, e \in Results
<1> SUFFICES ASSUME s.inDelivery PROVE Deferred(s, DirectSend(s, e))
  OBVIOUS
<1> DEFINE item == DataItem(s.sent + 1)
           t == [s EXCEPT !.sent = s.sent + 1]
           q == Queue(t, item)
           d == [s EXCEPT !.tport = "dead"]
           w == [t EXCEPT !.wire = Append(t.wire, item), !.owed = FALSE]
<1>1. DirectSend(s, e) \in {DropConn(d), FlushConn(q, e), w}
  BY Zenon DEF DirectSend
<1>2. item \in Item /\ t \in ConnRec
  <2>1. s.sent + 1 \in Nat
    BY DEF ConnRec
  <2>2. \A n \in Nat : [s EXCEPT !.sent = n] \in ConnRec
    BY DEF ConnRec
  <2> QED
    BY <2>1, <2>2, ItemTyped, Zenon
<1>3. Plain(s, t) /\ Plain(s, d) /\ d \in ConnRec
  <2>1. Alike(s, t) /\ Alike(s, d) /\ d \in ConnRec
    BY ZenonT(30) DEF Alike, ConnRec
  <2>2. Flags(s, t) /\ Flags(s, d)
    BY DEF Flags, ConnRec
  <2> QED
    BY <2>1, <2>2 DEF Plain
<1> HIDE DEF item, t, d
<1>4. q \in ConnRec /\ Plain(t, q)
  BY <1>2, QueueTyped, QueuePlain
<1>5. Plain(t, w)
  BY <1>2 DEF Plain, Flags, Alike, ConnRec
<1> HIDE DEF q, w
<1>6. d.inDelivery /\ q.inDelivery
  BY <1>3, <1>4 DEF Plain, Alike
<1>7. Deferred(d, DropConn(d)) /\ Deferred(q, FlushConn(q, e))
  BY <1>3, <1>4, <1>6, DropConnDefers, FlushConnDefers
<1>8. Plain(s, q) /\ Plain(s, w)
  BY <1>3, <1>4, <1>5, PlainTrans, Zenon
<1>9. /\ Deferred(s, DropConn(d)) /\ Deferred(s, FlushConn(q, e))
      /\ Deferred(s, w)
  BY <1>3, <1>7, <1>8, PlainTrans, Zenon
<1> QED
  BY <1>1, <1>9, Zenon

LEMMA QueuedSendDefers ==
  \A s \in ConnRec, e \in Results :
    s.inDelivery => Deferred(s, QueuedSend(s, e))
<1> TAKE s \in ConnRec, e \in Results
<1> SUFFICES ASSUME s.inDelivery PROVE Deferred(s, QueuedSend(s, e))
  OBVIOUS
<1> DEFINE item == DataItem(s.sent + 1)
           t == [s EXCEPT !.sent = s.sent + 1]
           q == Queue(t, item)
<1>1. QueuedSend(s, e) \in {FlushConn(s, e), FlushConn(q, e)}
  BY Zenon DEF QueuedSend
<1>2. item \in Item /\ t \in ConnRec
  <2>1. s.sent + 1 \in Nat
    BY DEF ConnRec
  <2>2. \A n \in Nat : [s EXCEPT !.sent = n] \in ConnRec
    BY DEF ConnRec
  <2> QED
    BY <2>1, <2>2, ItemTyped, Zenon
<1>3. Plain(s, t)
  <2>1. Alike(s, t)
    BY ZenonT(30) DEF Alike, ConnRec
  <2>2. Flags(s, t)
    BY DEF Flags, ConnRec
  <2> QED
    BY <2>1, <2>2 DEF Plain
<1> HIDE DEF item, t
<1>4. q \in ConnRec /\ Plain(s, q)
  BY <1>2, <1>3, QueueTyped, QueuePlain, PlainTrans, Zenon
<1> HIDE DEF q
<1>5. q.inDelivery
  BY <1>4 DEF Plain, Alike
<1>6. Deferred(s, FlushConn(s, e)) /\ Deferred(q, FlushConn(q, e))
  BY <1>4, <1>5, FlushConnDefers
<1>7. Deferred(s, FlushConn(q, e))
  BY <1>4, <1>6, PlainTrans, Zenon
<1> QED
  BY <1>1, <1>6, <1>7, Zenon

LEMMA ClosingPlain ==
  \A s \in ConnRec :
    s.state # "handshake" => Plain(s, [s EXCEPT !.state = "closing"])
<1> TAKE s \in ConnRec
<1>1. Flags(s, [s EXCEPT !.state = "closing"])
  BY DEF Flags, ConnRec
<1> QED
  BY <1>1, ClosingAlike DEF Plain

LEMMA CloseCallDefers ==
  \A s \in ConnRec, e \in Results :
    s.inDelivery /\ s.state = "open" => Deferred(s, CloseCall(s, e))
<1> TAKE s \in ConnRec, e \in Results
<1> SUFFICES ASSUME s.inDelivery, s.state = "open"
             PROVE  Deferred(s, CloseCall(s, e))
  OBVIOUS
<1> DEFINE u == SendClose(s)
           t == [u EXCEPT !.state = "closing", !.pingDue = 0]
           a == ArmDeadline(t, CloseTimeout)
<1>1. u \in ConnRec /\ Plain(s, u)
  BY SendCloseTyped, SendClosePlain
<1>2. CloseCall(s, e) = FlushConn(a, e)
  BY DEF CloseCall
<1> HIDE DEF u
<1>3. u.state # "handshake"
  BY <1>1 DEF Plain, Alike
<1>4. t \in ConnRec
  BY <1>1 DEF ConnRec
<1>5. Plain(u, t)
  <2>1. \A m \in ConnRec :
          m.state # "handshake" =>
            Alike(m, [m EXCEPT !.state = "closing", !.pingDue = 0])
    <3> TAKE m \in ConnRec
    <3> QED
      BY ZenonT(30) DEF Alike, ConnRec
  <2>2. Flags(u, t)
    BY <1>1 DEF Flags, ConnRec
  <2> QED
    BY <1>1, <1>3, <2>1, <2>2 DEF Plain
<1> HIDE DEF t
<1>6. a \in ConnRec /\ Plain(t, a)
  <2>1. CloseTimeout \in Nat
    BY DEF ServerAssumption
  <2> QED
    BY <1>4, <2>1, ArmDeadlineTyped, ArmDeadlinePlain
<1> HIDE DEF a
<1>7. Plain(s, a)
  BY <1>1, <1>5, <1>6, PlainTrans, Zenon
<1>8. a.inDelivery
  BY <1>7 DEF Plain, Alike
<1> QED
  BY <1>2, <1>6, <1>7, <1>8, FlushConnDefers, PlainTrans, Zenon

LEMMA JudgeDeadlineDefers ==
  \A s \in ConnRec, e \in Results :
    s.inDelivery => Deferred(s, JudgeDeadline(s, e))
<1> TAKE s \in ConnRec, e \in Results
<1> SUFFICES ASSUME s.inDelivery PROVE Deferred(s, JudgeDeadline(s, e))
  OBVIOUS
<1> DEFINE z == [s EXCEPT !.deadline = 0]
           u == SendClose(z)
           t == [u EXCEPT !.state = "closing"]
           f == FlushConn(t, e)
<1>1. z \in ConnRec /\ Plain(s, z)
  <2>1. z \in ConnRec /\ Alike(s, z)
    BY ZenonT(30) DEF ConnRec, Alike
  <2>2. Flags(s, z)
    BY DEF Flags, ConnRec
  <2> QED
    BY <2>1, <2>2 DEF Plain
<1>2. JudgeDeadline(s, e) =
        IF ~Lapsed(s.deadline) THEN s
        ELSE IF z.state = "open" THEN DropConn(f) ELSE DropConn(z)
  BY Zenon DEF JudgeDeadline, DeadlineLapsed
<1> HIDE DEF z
<1>3. z.inDelivery
  BY <1>1 DEF Plain, Alike
<1>4. Deferred(s, DropConn(z))
  BY <1>1, <1>3, DropConnDefers, PlainTrans, Zenon
<1>5. ASSUME z.state = "open" PROVE Deferred(s, DropConn(f))
  <2>1. u \in ConnRec /\ Plain(z, u)
    BY <1>1, SendCloseTyped, SendClosePlain
  <2> HIDE DEF u
  <2>2. u.state # "handshake"
    BY <1>5, <2>1 DEF Plain, Alike
  <2>3. t \in ConnRec /\ Plain(u, t)
    BY <2>1, <2>2, ClosingTyped, ClosingPlain, Zenon
  <2> HIDE DEF t
  <2>4. Plain(s, t)
    BY <1>1, <2>1, <2>3, PlainTrans, Zenon
  <2>5. t.inDelivery
    BY <2>4 DEF Plain, Alike
  <2>6. f \in ConnRec /\ Deferred(t, f)
    BY <2>3, <2>5, FlushConnTyped, FlushConnDefers
  <2> HIDE DEF f
  <2>7. f.inDelivery
    BY <2>5, <2>6 DEF Deferred, Alike
  <2>8. Deferred(t, DropConn(f))
    BY <2>6, <2>7, DropConnDefers, PlainTrans, Zenon
  <2> QED
    BY <2>4, <2>8, PlainTrans, Zenon
<1>6. Deferred(s, s)
  BY PlainTrans, Zenon
<1> QED
  BY <1>2, <1>4, <1>5, <1>6, Zenon

LEMMA CheckClockDefers ==
  \A s \in ConnRec, e \in Results : s.inDelivery => Deferred(s, CheckClock(s, e))
<1> TAKE s \in ConnRec, e \in Results
<1> SUFFICES ASSUME s.inDelivery PROVE Deferred(s, CheckClock(s, e))
  OBVIOUS
<1> DEFINE z == [s EXCEPT !.sweepPosted = FALSE]
           p == PingLapsed(z)
           u == SendFrame(p, It("ping"))
           q == [u EXCEPT !.asked = 1]
<1>1. z \in ConnRec /\ Plain(s, z)
  <2>1. z \in ConnRec
    BY DEF ConnRec
  <2>2. Alike(s, z)
    BY ZenonT(30) DEF ConnRec, Alike
  <2>3. Flags(s, z)
    BY DEF Flags, ConnRec
  <2> QED
    BY <2>1, <2>2, <2>3 DEF Plain
<1>2. CheckClock(s, e) \in
        {z, FlushConn(q, e), JudgeDeadline(p, e), JudgeDeadline(z, e)}
  BY Zenon DEF CheckClock
<1> HIDE DEF z
<1>3. p \in ConnRec /\ Plain(z, p)
  BY <1>1, PingLapsedTyped, PingLapsedPlain
<1> HIDE DEF p
<1>4. u \in ConnRec /\ Plain(p, u)
  BY <1>3, ItemTyped, SendFrameTyped, SendFramePlain
<1> HIDE DEF u
<1>5. q \in ConnRec /\ Plain(u, q)
  BY <1>4 DEF ConnRec, Plain, Flags, Alike
<1> HIDE DEF q
<1>6. Plain(s, p) /\ Plain(s, q)
  BY <1>1, <1>3, <1>4, <1>5, PlainTrans, Zenon
<1>7. z.inDelivery /\ p.inDelivery /\ q.inDelivery
  BY <1>1, <1>6 DEF Plain, Alike
<1>8. /\ Deferred(q, FlushConn(q, e))
      /\ Deferred(p, JudgeDeadline(p, e)) /\ Deferred(z, JudgeDeadline(z, e))
  BY <1>1, <1>3, <1>5, <1>7, FlushConnDefers, JudgeDeadlineDefers
<1>9. /\ Deferred(s, FlushConn(q, e)) /\ Deferred(s, z)
      /\ Deferred(s, JudgeDeadline(p, e)) /\ Deferred(s, JudgeDeadline(z, e))
  BY <1>1, <1>6, <1>8, PlainTrans, Zenon
<1> QED
  BY <1>2, <1>9, Zenon

-----------------------------------------------------------------------------
(* Outside a delivery: a session that has not been dropped.                *)
Free(s) == s \in Good /\ s.life = "live" /\ ~s.dropping /\ ~s.inDelivery

LEMMA FreeAlike == \A s, t \in ConnRec : Free(s) /\ Alike(s, t) => Free(t)
  BY AlikeGood DEF Free, Alike

LEMMA FreeFields ==
  \A s : Free(s) => s \in Good /\ s \in ConnRec /\ s.run = "idle"
                    /\ s.life = "live" /\ ~s.dropping /\ ~s.inDelivery
                    /\ (s.opened <=> s.state # "handshake")
<1> TAKE s
<1> SUFFICES ASSUME Free(s)
             PROVE  s \in Good /\ s \in ConnRec /\ s.run = "idle"
                    /\ s.life = "live" /\ ~s.dropping /\ ~s.inDelivery
                    /\ (s.opened <=> s.state # "handshake")
  OBVIOUS
<1>1. s \in Good /\ s \in ConnRec /\ Lawful(s)
  BY GoodFields DEF Free
<1>2. s.run \in {"idle", "ingest", "onopen", "onmessage", "onpost", "onclose"}
  BY <1>1 DEF ConnRec
<1> QED
  BY <1>1, <1>2 DEF Free, Lawful

(* ReleaseConn of a session that has been detached.                        *)
LEMMA ReleaseConnEnds ==
  \A s \in ConnRec :
    /\ s.life = "live" /\ s.dropping /\ (s.opened <=> s.state # "handshake")
    => Ends(s, ReleaseConn(s))
<1> TAKE s \in ConnRec
<1> SUFFICES ASSUME s.life = "live", s.dropping,
                    s.opened <=> s.state # "handshake"
             PROVE  Ends(s, ReleaseConn(s))
  OBVIOUS
<1>1. CASE s.state # "handshake"
  <2> DEFINE t == [s EXCEPT !.run = "onclose", !.todo = <<>>,
                            !.closes = s.closes + 1]
  <2>1. ReleaseConn(s) = t
    BY <1>1 DEF ReleaseConn
  <2>2. /\ t.life = "live" /\ t.run = "onclose" /\ t.dropping
        /\ t.opened = s.opened /\ s.opened
    BY <1>1 DEF ConnRec
  <2> HIDE DEF t
  <2> QED
    BY <2>1, <2>2 DEF Ends
<1>2. CASE s.state = "handshake"
  <2>1. ReleaseConn(s) = Freed(s) /\ ~s.opened
    BY <1>2 DEF ReleaseConn
  <2> QED
    BY <2>1, FreedFields DEF Ends
<1> QED
  BY <1>1, <1>2

LEMMA DropConnEnds == \A s : Free(s) => Ends(s, DropConn(s))
<1> TAKE s
<1> SUFFICES ASSUME Free(s) PROVE Ends(s, DropConn(s))
  OBVIOUS
<1> DEFINE t == [s EXCEPT !.dropping = TRUE, !.userData = FALSE]
<1>1. /\ s \in ConnRec /\ s.life = "live" /\ ~s.dropping /\ ~s.inDelivery
      /\ (s.opened <=> s.state # "handshake")
  BY FreeFields
<1>2. DropConn(s) = ReleaseConn(t)
  BY <1>1 DEF DropConn
<1>3. /\ t \in ConnRec /\ t.life = "live" /\ t.dropping
      /\ (t.opened <=> t.state # "handshake") /\ t.opened = s.opened
  BY <1>1 DEF ConnRec
<1> HIDE DEF t
<1>4. Ends(t, ReleaseConn(t))
  BY <1>3, ReleaseConnEnds
<1> QED
  BY <1>2, <1>3, <1>4 DEF Ends

LEMMA FlushConnFree ==
  \A s, e : Free(s) /\ e \in Results =>
    \/ Plain(s, FlushConn(s, e)) /\ Free(FlushConn(s, e))
    \/ Ends(s, FlushConn(s, e))
<1> TAKE s, e
<1> SUFFICES ASSUME Free(s), e \in Results
             PROVE  \/ Plain(s, FlushConn(s, e)) /\ Free(FlushConn(s, e))
                    \/ Ends(s, FlushConn(s, e))
  OBVIOUS
<1>1. s \in ConnRec
  BY FreeFields
<1>2. PICK t \in ConnRec : Plain(s, t) /\ FlushConn(s, e) \in {t, DropConn(t)}
  BY <1>1, FlushConnParts, Zenon
<1>3. Alike(s, t)
  BY <1>2 DEF Plain
<1>4. Free(t)
  BY <1>1, <1>2, <1>3, FreeAlike, Zenon
<1>5. Ends(s, DropConn(t))
  BY <1>3, <1>4, DropConnEnds, PlainTrans, Zenon
<1> QED
  BY <1>2, <1>4, <1>5, Zenon

LEMMA DrainThenDropFree ==
  \A s, e : Free(s) /\ e \in Results =>
    Drained(s, DrainThenDrop(s, e)) \/ Ends(s, DrainThenDrop(s, e))
<1> TAKE s, e
<1> SUFFICES ASSUME Free(s), e \in Results
             PROVE  \/ Drained(s, DrainThenDrop(s, e))
                    \/ Ends(s, DrainThenDrop(s, e))
  OBVIOUS
<1> DEFINE b == BeginDrain(s)
           t == FlushConn(b, e)
<1>1. \/ DrainThenDrop(s, e) = DropConn(s)
      \/ DrainThenDrop(s, e) = DropConn(t) /\ ~t.dropping
      \/ DrainThenDrop(s, e) = t
  BY Zenon DEF DrainThenDrop
<1>2. Ends(s, DropConn(s))
  BY DropConnEnds
<1>3. b \in ConnRec /\ Drained(s, b)
  BY FreeFields, BeginDrainTyped, BeginDrainDrains
<1> HIDE DEF b
<1>4. Alike(s, b) /\ Free(b)
  <2>1. Alike(s, b)
    BY <1>3 DEF Drained
  <2> QED
    BY <1>3, <2>1, FreeFields, FreeAlike, Zenon
<1>5. (Plain(b, t) /\ Free(t)) \/ Ends(b, t)
  BY <1>4, FlushConnFree, Zenon
<1> HIDE DEF t
<1>6. CASE Plain(b, t) /\ Free(t)
  <2>1. Drained(s, t)
    BY <1>3, <1>6 DEF Plain, Flags, Alike, Drained
  <2>2. Alike(s, t) /\ Ends(t, DropConn(t))
    BY <1>6, <2>1, DropConnEnds, PlainTrans, Zenon
  <2>3. Ends(s, DropConn(t))
    BY <2>2, PlainTrans, Zenon
  <2> QED
    BY <1>1, <1>2, <2>1, <2>3, Zenon
<1>7. CASE Ends(b, t)
  <2>1. Ends(s, t) /\ t.dropping
    <3>1. Ends(s, t)
      BY <1>4, <1>7, PlainTrans, Zenon
    <3> QED
      BY <3>1 DEF Ends
  <2> QED
    BY <1>1, <1>2, <2>1, Zenon
<1> QED
  BY <1>5, <1>6, <1>7

LEMMA SettleDeliveryFree ==
  \A s, e : Free(s) /\ e \in Results =>
    LET t == SettleDelivery(s, e) IN
    /\ s.dropDeferred => Ends(s, t)
    /\ ~s.dropDeferred /\ s.faulted => Drained(s, t) \/ Ends(s, t)
    /\ ~s.dropDeferred /\ ~s.faulted => t = s
<1> TAKE s, e
<1> SUFFICES ASSUME Free(s), e \in Results
             PROVE  /\ s.dropDeferred => Ends(s, SettleDelivery(s, e))
                    /\ ~s.dropDeferred /\ s.faulted =>
                         \/ Drained(s, SettleDelivery(s, e))
                         \/ Ends(s, SettleDelivery(s, e))
                    /\ ~s.dropDeferred /\ ~s.faulted => SettleDelivery(s, e) = s
  BY Zenon
<1> DEFINE d == [s EXCEPT !.dropDeferred = FALSE]
<1>1. s \in ConnRec
  BY FreeFields
<1>2. d \in ConnRec /\ Alike(s, d)
  <2>1. \A n \in ConnRec : /\ [n EXCEPT !.dropDeferred = FALSE] \in ConnRec
                           /\ Alike(n, [n EXCEPT !.dropDeferred = FALSE])
    <3> TAKE n \in ConnRec
    <3>1. [n EXCEPT !.dropDeferred = FALSE] \in ConnRec
      BY DEF ConnRec
    <3>2. Alike(n, [n EXCEPT !.dropDeferred = FALSE])
      BY ZenonT(30) DEF ConnRec, Alike
    <3> QED
      BY <3>1, <3>2
  <2> QED
    BY <1>1, <2>1, Zenon
<1>3. s.dropDeferred => SettleDelivery(s, e) = DropConn(d)
  BY Zenon DEF SettleDelivery
<1> HIDE DEF d
<1>4. Free(d)
  BY <1>1, <1>2, FreeAlike, Zenon
<1>5. Ends(s, DropConn(d))
  BY <1>2, <1>4, DropConnEnds, PlainTrans, Zenon
<1>6. ~s.dropDeferred /\ s.faulted => SettleDelivery(s, e) = DrainThenDrop(s, e)
  BY Zenon DEF SettleDelivery
<1>7. ~s.dropDeferred /\ ~s.faulted => SettleDelivery(s, e) = s
  BY Zenon DEF SettleDelivery
<1>8. Drained(s, DrainThenDrop(s, e)) \/ Ends(s, DrainThenDrop(s, e))
  BY DrainThenDropFree, Zenon
<1> QED
  BY <1>3, <1>5, <1>6, <1>7, <1>8, Zenon

-----------------------------------------------------------------------------
(* What one action makes of a session, in the contract's terms.            *)

(* A session the host has not been told the end of.                        *)
Running(s) ==
  /\ s \in Good /\ s.life = "live" /\ s.run # "onclose" /\ Hears(s)

(* Nothing is called; or the handler that ran is done, and the frame loop  *)
(* may be running.  Neither the phase nor a verdict is taken back.         *)
GoesOn(s, t) ==
  /\ t.life = "live" /\ t.opened = s.opened
  /\ t.run = s.run \/ t.run \in {"idle", "ingest"}
  /\ Condemned(s) => Condemned(t)

Moves(s, t) == GoesOn(s, t) \/ Ends(s, t)

LEMMA EndsHears == \A s, t : Ends(s, t) => Hears(t)
  BY DEF Ends, Hears

LEMMA PlainMoves ==
  \A s, t : Running(s) /\ Plain(s, t) => Hears(t) /\ Moves(s, t)
  BY DEF Running, Plain, Flags, Alike, Hears, Moves, GoesOn, Condemned, Deaf

LEMMA DeferredMoves ==
  \A s, t : Running(s) /\ s.inDelivery /\ Deferred(s, t)
              => Hears(t) /\ Moves(s, t)
  BY DEF Running, Deferred, Alike, Hears, Moves, GoesOn, Condemned, Deaf

(* u is s with its delivery unwound; only a drop that was put off may      *)
(* still be waiting.                                                       *)
Unwinds(s, u) ==
  /\ Free(u) /\ u.opened = s.opened
  /\ Condemned(s) => Condemned(u)
  /\ u.opened /\ u.dropPending => u.faulted \/ Deaf(u)
  /\ ~u.opened => ~u.faulted /\ ~Deaf(u)

(* What is run on it then.                                                 *)
Outcome(u, t) ==
  \/ Plain(u, t) /\ ~u.dropDeferred
  \/ Drained(u, t) /\ ~u.dropDeferred /\ (u.opened => u.faulted \/ Deaf(u))
  \/ Ends(u, t)

LEMMA UnwindsSelf == \A s : Free(s) /\ Hears(s) =>
                              Running(s) /\ Unwinds(s, s) /\ ~s.dropDeferred
  BY FreeFields DEF Free, Running, Unwinds, Hears

LEMMA OutcomeMoves ==
  \A s, u, t : Running(s) /\ Unwinds(s, u) /\ Outcome(u, t)
                 => Hears(t) /\ Moves(s, t)
<1> TAKE s, u, t
<1> SUFFICES ASSUME Running(s), Unwinds(s, u), Outcome(u, t)
             PROVE  Hears(t) /\ Moves(s, t)
  OBVIOUS
<1>1. /\ u.run = "idle" /\ u.life = "live" /\ ~u.dropping /\ ~u.inDelivery
  BY FreeFields DEF Unwinds
<1>2. CASE Ends(u, t)
  <2>1. Ends(s, t)
    BY <1>2 DEF Unwinds, Ends
  <2> QED
    BY <2>1, EndsHears DEF Moves
<1>3. CASE Plain(u, t) /\ ~u.dropDeferred
  <2>1. /\ t.life = "live" /\ t.run = "idle" /\ t.opened = u.opened
        /\ ~t.dropping /\ ~t.inDelivery /\ ~t.dropDeferred
        /\ t.dropPending = u.dropPending /\ t.faulted = u.faulted
        /\ t.failed = u.failed /\ t.closeRecv = u.closeRecv
    BY <1>1, <1>3 DEF Plain, Flags, Alike
  <2>2. Hears(t)
    BY <1>1, <2>1 DEF Unwinds, Hears, Deaf
  <2>3. Condemned(u) => Condemned(t)
    BY <1>1, <1>3, <2>1 DEF Condemned, Deaf
  <2>4. GoesOn(s, t)
    BY <2>1, <2>3 DEF GoesOn, Unwinds
  <2> QED
    BY <2>2, <2>4 DEF Moves
<1>4. CASE Drained(u, t) /\ ~u.dropDeferred /\ (u.opened => u.faulted \/ Deaf(u))
  <2>1. /\ t.life = "live" /\ t.run = "idle" /\ t.opened = u.opened
        /\ ~t.dropping /\ ~t.inDelivery /\ ~t.dropDeferred
        /\ t.dropPending /\ t.faulted = u.faulted
        /\ t.failed = u.failed /\ t.closeRecv = u.closeRecv
    BY <1>1, <1>4 DEF Drained, Alike
  <2>2. Hears(t)
    BY <1>1, <1>4, <2>1 DEF Unwinds, Hears, Deaf
  <2>3. GoesOn(s, t)
    BY <2>1 DEF GoesOn, Unwinds, Condemned
  <2> QED
    BY <2>2, <2>3 DEF Moves
<1> QED
  BY <1>2, <1>3, <1>4 DEF Outcome

(* Frames given up change nothing.                                         *)
LEMMA TodoMoves ==
  \A s, t \in ConnRec : Hears(t) /\ Moves(s, t) =>
    Hears([t EXCEPT !.todo = <<>>]) /\ Moves(s, [t EXCEPT !.todo = <<>>])
<1> TAKE s, t \in ConnRec
<1> DEFINE r == [t EXCEPT !.todo = <<>>]
<1>1. /\ r.life = t.life /\ r.run = t.run /\ r.opened = t.opened
      /\ r.dropping = t.dropping /\ r.inDelivery = t.inDelivery
      /\ r.dropDeferred = t.dropDeferred /\ r.dropPending = t.dropPending
      /\ r.faulted = t.faulted /\ r.failed = t.failed
      /\ r.closeRecv = t.closeRecv /\ r.todo = <<>>
  BY DEF ConnRec
<1> HIDE DEF r
<1>2. Condemned(r) <=> Condemned(t)
  BY <1>1 DEF Condemned, Deaf
<1>3. Hears(t) => Hears(r)
  BY <1>1, <1>2 DEF Hears, Deaf
<1>4. Moves(s, t) => Moves(s, r)
  BY <1>1, <1>2 DEF Moves, GoesOn, Ends
<1> QED
  BY <1>3, <1>4 DEF r

-----------------------------------------------------------------------------
(* The callbacks, record by record.                                        *)

(* A plain record of a free session is as free, and hears as much.         *)
LEMMA PlainFree ==
  \A s, t \in ConnRec : Free(s) /\ Hears(s) /\ Plain(s, t) =>
    Free(t) /\ Hears(t) /\ Unwinds(s, t) /\ ~t.dropDeferred
<1> TAKE s, t \in ConnRec
<1> SUFFICES ASSUME Free(s), Hears(s), Plain(s, t)
             PROVE  Free(t) /\ Hears(t) /\ Unwinds(s, t) /\ ~t.dropDeferred
  OBVIOUS
<1>1. Free(t) /\ Running(s) /\ ~s.dropDeferred
  BY FreeAlike, UnwindsSelf DEF Plain
<1>2. Hears(t)
  BY <1>1, PlainMoves
<1>3. t.opened = s.opened /\ (Condemned(s) => Condemned(t)) /\ ~t.dropDeferred
  BY <1>1 DEF Plain, Flags, Alike, Condemned, Deaf
<1> QED
  BY <1>1, <1>2, <1>3, UnwindsSelf DEF Unwinds

LEMMA RefuseMoves ==
  \A s, e : Free(s) /\ Hears(s) /\ e \in Results =>
    Hears(Refuse(s, e)) /\ Moves(s, Refuse(s, e))
<1> TAKE s, e
<1> SUFFICES ASSUME Free(s), Hears(s), e \in Results
             PROVE  Hears(Refuse(s, e)) /\ Moves(s, Refuse(s, e))
  OBVIOUS
<1> DEFINE d == [s EXCEPT !.tport = "dead"]
           w == [s EXCEPT !.wire = Append(s.wire, It("answer"))]
<1>1. s \in ConnRec
  BY FreeFields
<1>2. Refuse(s, e) \in {DropConn(d), DropConn(s), DropConn(w)}
  BY Zenon DEF Refuse
<1>3. d \in ConnRec /\ Alike(s, d)
  BY <1>1, TportAlike, Zenon
<1>4. w \in ConnRec /\ Alike(s, w)
  <2>1. s.wire \in Seq(Item) /\ It("answer") \in Item
    BY <1>1, ItemTyped DEF ConnRec
  <2>2. Append(s.wire, It("answer")) \in Seq(Item)
    BY <2>1
  <2>3. \A n \in ConnRec, x \in Seq(Item) :
          [n EXCEPT !.wire = x] \in ConnRec /\ Alike(n, [n EXCEPT !.wire = x])
    <3> TAKE n \in ConnRec, x \in Seq(Item)
    <3> QED
      BY ZenonT(30) DEF ConnRec, Alike
  <2> QED
    BY <1>1, <2>2, <2>3, Zenon
<1> HIDE DEF d, w
<1>5. Free(d) /\ Free(w)
  BY <1>1, <1>3, <1>4, FreeAlike
<1>6. Ends(s, DropConn(d)) /\ Ends(s, DropConn(s)) /\ Ends(s, DropConn(w))
  BY <1>3, <1>4, <1>5, DropConnEnds, PlainTrans, Zenon
<1> QED
  BY <1>2, <1>6, EndsHears, Zenon DEF Moves

(* The protocol object is made and the answer or the 101 queued.           *)
LEMMA ProtoFree ==
  \A s, item : Free(s) /\ Hears(s) /\ item \in Item =>
    LET t == Queue([s EXCEPT !.proto = TRUE], item)
    IN /\ t \in ConnRec /\ Plain(s, t)
       /\ Free(t) /\ Hears(t) /\ Unwinds(s, t) /\ ~t.dropDeferred
<1> TAKE s, item
<1> SUFFICES ASSUME Free(s), Hears(s), item \in Item
             PROVE  LET t == Queue([s EXCEPT !.proto = TRUE], item)
                    IN /\ t \in ConnRec /\ Plain(s, t)
                       /\ Free(t) /\ Hears(t) /\ Unwinds(s, t) /\ ~t.dropDeferred
  OBVIOUS
<1> DEFINE p == [s EXCEPT !.proto = TRUE]
           t == Queue(p, item)
<1>1. s \in ConnRec
  BY FreeFields
<1>2. p \in ConnRec /\ Plain(s, p)
  <2>1. \A n \in ConnRec : /\ [n EXCEPT !.proto = TRUE] \in ConnRec
                           /\ Plain(n, [n EXCEPT !.proto = TRUE])
    <3> TAKE n \in ConnRec
    <3>1. [n EXCEPT !.proto = TRUE] \in ConnRec
      BY DEF ConnRec
    <3>2. Alike(n, [n EXCEPT !.proto = TRUE])
      BY ZenonT(30) DEF ConnRec, Alike
    <3>3. Flags(n, [n EXCEPT !.proto = TRUE])
      BY DEF ConnRec, Flags
    <3> QED
      BY <3>1, <3>2, <3>3 DEF Plain
  <2> QED
    BY <1>1, <2>1, Zenon
<1> HIDE DEF p
<1>3. t \in ConnRec /\ Plain(s, t)
  BY <1>2, QueueTyped, QueuePlain, PlainTrans, Zenon
<1> HIDE DEF t
<1>4. Free(t) /\ Hears(t) /\ Unwinds(s, t) /\ ~t.dropDeferred
  BY <1>1, <1>3, PlainFree
<1> QED
  BY <1>3, <1>4 DEF t, p

LEMMA AnswerMoves ==
  \A s, e : Free(s) /\ Hears(s) /\ s.state = "handshake" /\ e \in Results =>
    Hears(Answer(s, e)) /\ Moves(s, Answer(s, e))
<1> TAKE s, e
<1> SUFFICES ASSUME Free(s), Hears(s), s.state = "handshake", e \in Results
             PROVE  Hears(Answer(s, e)) /\ Moves(s, Answer(s, e))
  OBVIOUS
<1> DEFINE u == Queue([s EXCEPT !.proto = TRUE], It("answer"))
<1>1. Answer(s, e) = DrainThenDrop(u, e)
  BY DEF Answer
<1>2. Free(u) /\ Unwinds(s, u) /\ ~u.dropDeferred
  BY ItemTyped, ProtoFree
<1> HIDE DEF u
<1>3. Drained(u, DrainThenDrop(u, e)) \/ Ends(u, DrainThenDrop(u, e))
  BY <1>2, DrainThenDropFree
<1>4. ~u.opened
  BY <1>2, FreeFields DEF Unwinds
<1>5. Outcome(u, DrainThenDrop(u, e))
  BY <1>2, <1>3, <1>4 DEF Outcome
<1> QED
  BY <1>1, <1>2, <1>5, UnwindsSelf, OutcomeMoves

(* OnOpen is called: for a session nothing has condemned.                  *)
Opens(s, t) ==
  /\ ~s.opened /\ ~Condemned(s)
  /\ t.life = "live" /\ t.opened /\ t.run = "onopen" /\ ~Condemned(t)

LEMMA UpgradeMoves ==
  \A s, e, left :
    /\ Free(s) /\ Hears(s) /\ s.state = "handshake" /\ ~s.dropPending
    /\ e \in Results /\ left \in Seq(FrameKinds)
    => /\ Hears(Upgrade(s, e, left))
       /\ Moves(s, Upgrade(s, e, left)) \/ Opens(s, Upgrade(s, e, left))
<1> TAKE s, e, left
<1> DEFINE q == Queue([s EXCEPT !.proto = TRUE], It("101"))
           t == FlushConn(q, e)
           o == [t EXCEPT !.state = "open"]
           n == NoteActivity(o)
           r == [n EXCEPT !.inDelivery = TRUE, !.run = "onopen",
                          !.opened = TRUE, !.todo = left]
<1> SUFFICES ASSUME Free(s), Hears(s), s.state = "handshake", ~s.dropPending,
                    e \in Results, left \in Seq(FrameKinds)
             PROVE  /\ Hears(Upgrade(s, e, left))
                    /\ \/ Moves(s, Upgrade(s, e, left))
                       \/ Opens(s, Upgrade(s, e, left))
  OBVIOUS
<1>1. Upgrade(s, e, left) = IF t.dropping THEN t ELSE r
  BY Zenon DEF Upgrade
<1>2. q \in ConnRec /\ Plain(s, q) /\ Free(q)
  BY ItemTyped, ProtoFree
<1> HIDE DEF q
<1>3. (Plain(q, t) /\ Free(t)) \/ Ends(q, t)
  BY <1>2, FlushConnFree
<1>4. t \in ConnRec
  BY <1>2, FlushConnTyped
<1> HIDE DEF t
<1>5. CASE Ends(q, t)
  <2>1. Ends(s, t) /\ t.dropping
    BY <1>2, <1>5 DEF Ends, Plain, Alike
  <2> QED
    BY <1>1, <2>1, EndsHears DEF Moves
<1>6. CASE Plain(q, t) /\ Free(t)
  <2>1. Plain(s, t) /\ ~t.dropping
    BY <1>2, <1>6, PlainTrans DEF Free
  <2>2. /\ ~s.opened /\ ~s.dropDeferred /\ ~s.faulted /\ ~Deaf(s)
        /\ ~s.dropping
    BY FreeFields, UnwindsSelf DEF Free, Hears
  <2>3. /\ ~t.dropDeferred /\ ~t.dropPending /\ ~t.faulted /\ ~t.failed
        /\ ~t.closeRecv /\ t.life = "live"
    BY <1>6, <2>1, <2>2 DEF Plain, Flags, Free, Deaf
  <2>4. /\ o \in ConnRec
        /\ ~o.dropDeferred /\ ~o.dropPending /\ ~o.faulted /\ ~o.failed
        /\ ~o.closeRecv /\ o.life = "live" /\ ~o.dropping
    BY <1>4, <2>1, <2>3 DEF ConnRec
  <2> HIDE DEF o
  <2>5. n \in ConnRec /\ Plain(o, n)
    BY <2>4, NoteActivityTyped, NoteActivityPlain
  <2> HIDE DEF n
  <2>6. /\ ~n.dropDeferred /\ ~n.dropPending /\ ~n.faulted /\ ~n.failed
        /\ ~n.closeRecv /\ n.life = "live" /\ ~n.dropping
    BY <2>4, <2>5 DEF Plain, Flags, Alike
  <2>7. /\ r.inDelivery /\ r.run = "onopen" /\ r.opened
        /\ ~r.dropDeferred /\ ~r.dropPending /\ ~r.faulted /\ ~r.failed
        /\ ~r.closeRecv /\ r.life = "live" /\ ~r.dropping
    BY <2>5, <2>6 DEF ConnRec
  <2> HIDE DEF r
  <2>8. Hears(r) /\ ~Condemned(r)
    BY <2>7 DEF Hears, Condemned, Deaf
  <2>9. ~Condemned(s)
    BY <2>2 DEF Condemned
  <2> QED
    BY <1>1, <2>1, <2>2, <2>7, <2>8, <2>9 DEF Opens
<1> QED
  BY <1>3, <1>5, <1>6

(* A read enters the frame loop.                                           *)
LEMMA StartIngestMoves ==
  \A s \in ConnRec, frames \in Seq(FrameKinds) :
    /\ s.life = "live" /\ s.opened /\ ~s.dropping /\ ~s.faulted
    /\ s.dropPending => Deaf(s)
    => LET t == StartIngest(s, frames)
       IN Hears(t) /\ t.life = "live" /\ t.opened /\ t.run = "ingest"
          /\ (Condemned(s) => Condemned(t))
<1> TAKE s \in ConnRec, frames \in Seq(FrameKinds)
<1> SUFFICES ASSUME s.life = "live", s.opened, ~s.dropping, ~s.faulted,
                    s.dropPending => Deaf(s)
             PROVE  LET t == StartIngest(s, frames)
                    IN Hears(t) /\ t.life = "live" /\ t.opened /\ t.run = "ingest"
                       /\ (Condemned(s) => Condemned(t))
  OBVIOUS
<1> DEFINE w == IF Deaf(s) THEN <<>> ELSE frames
           t == [s EXCEPT !.inDelivery = TRUE, !.run = "ingest", !.todo = w]
<1>1. StartIngest(s, frames) = t
  BY DEF StartIngest
<1>2. /\ t.life = "live" /\ t.opened /\ ~t.dropping /\ ~t.faulted
      /\ t.inDelivery /\ t.run = "ingest" /\ t.todo = w
      /\ t.dropPending = s.dropPending /\ t.dropDeferred = s.dropDeferred
      /\ t.failed = s.failed /\ t.closeRecv = s.closeRecv
  BY DEF ConnRec
<1> HIDE DEF t
<1>3. Deaf(t) <=> Deaf(s)
  BY <1>2 DEF Deaf
<1>4. Hears(t)
  BY <1>2, <1>3 DEF Hears
<1>5. Condemned(s) => Condemned(t)
  BY <1>2, <1>3 DEF Condemned
<1> QED
  BY <1>1, <1>2, <1>4, <1>5

(* One frame is parsed.                                                    *)
HearsMessage(s, t) ==
  /\ s.opened /\ s.run = "ingest" /\ ~Condemned(s)
  /\ t.life = "live" /\ t.opened /\ t.run = "onmessage" /\ ~Condemned(t)

LEMMA RunningFields ==
  \A s : Running(s) /\ s.run # "idle" =>
    s \in ConnRec /\ s.inDelivery /\ ~s.dropping /\ s.opened /\ s.life = "live"
<1> TAKE s
<1> SUFFICES ASSUME Running(s), s.run # "idle"
             PROVE  /\ s \in ConnRec /\ s.inDelivery /\ ~s.dropping /\ s.opened
                    /\ s.life = "live"
  OBVIOUS
<1>1. s \in ConnRec /\ Lawful(s) /\ s.life = "live" /\ s.opened
  BY GoodFields DEF Running, Hears
<1>2. s.run \in {"idle", "ingest", "onopen", "onmessage", "onpost", "onclose"}
  BY <1>1 DEF ConnRec
<1> QED
  BY <1>1, <1>2 DEF Running, Lawful

LEMMA TodoFields ==
  \A t \in ConnRec, w \in Seq(FrameKinds) :
    LET r == [t EXCEPT !.todo = w] IN
    /\ r.life = t.life /\ r.run = t.run /\ r.opened = t.opened
    /\ r.dropping = t.dropping /\ r.inDelivery = t.inDelivery
    /\ r.dropDeferred = t.dropDeferred /\ r.dropPending = t.dropPending
    /\ r.faulted = t.faulted /\ r.failed = t.failed
    /\ r.closeRecv = t.closeRecv /\ r.todo = w
  BY DEF ConnRec

LEMMA ParseFrameMoves ==
  \A s, f : Running(s) /\ s.run = "ingest" /\ s.todo # <<>> /\ f \in FrameKinds =>
    LET t == ParseFrame(s, f)
        r == [t EXCEPT !.todo = IF Deaf(t) THEN <<>> ELSE Tail(t.todo)]
    IN Hears(r) /\ (Moves(s, r) \/ HearsMessage(s, r))
<1> TAKE s, f
<1> DEFINE t == ParseFrame(s, f)
           w == IF Deaf(t) THEN <<>> ELSE Tail(t.todo)
           r == [t EXCEPT !.todo = w]
<1> SUFFICES ASSUME Running(s), s.run = "ingest", s.todo # <<>>, f \in FrameKinds
             PROVE  Hears(r) /\ (Moves(s, r) \/ HearsMessage(s, r))
  BY Zenon
<1>1. /\ s \in ConnRec /\ s.inDelivery /\ ~s.dropping /\ s.opened
      /\ s.life = "live"
  BY RunningFields
<1>2. ~s.faulted /\ ~Deaf(s) /\ ~s.dropPending
  BY <1>1 DEF Running, Hears
<1>3. t \in ConnRec /\ t.todo = s.todo
  BY <1>1, ParseFrameTyped, ParseFrameTodo
<1>4. w \in Seq(FrameKinds)
  <2>1. s.todo \in Seq(FrameKinds)
    BY <1>1 DEF ConnRec
  <2>2. Tail(s.todo) \in Seq(FrameKinds)
    BY <2>1
  <2>3. <<>> \in Seq(FrameKinds)
    OBVIOUS
  <2> QED
    BY <1>3, <2>2, <2>3
<1>5. Deaf(t) => w = <<>>
  OBVIOUS
<1> HIDE DEF w
<1>6. /\ r.life = t.life /\ r.run = t.run /\ r.opened = t.opened
      /\ r.dropping = t.dropping /\ r.inDelivery = t.inDelivery
      /\ r.dropDeferred = t.dropDeferred /\ r.dropPending = t.dropPending
      /\ r.faulted = t.faulted /\ r.failed = t.failed
      /\ r.closeRecv = t.closeRecv /\ r.todo = w
  BY <1>3, <1>4, TodoFields, Zenon
<1> HIDE DEF r
<1>7. Deaf(r) <=> Deaf(t)
  BY <1>6 DEF Deaf
<1>8. CASE f = "msg" /\ ~s.dropDeferred
  <2>1. t = [s EXCEPT !.run = "onmessage"]
    BY <1>8, Zenon DEF ParseFrame
  <2>2. /\ t.life = "live" /\ t.run = "onmessage" /\ t.opened
        /\ ~t.dropping /\ t.inDelivery /\ ~t.dropDeferred /\ ~t.dropPending
        /\ ~t.faulted /\ t.failed = s.failed /\ t.closeRecv = s.closeRecv
    BY <1>1, <1>2, <1>8, <2>1 DEF ConnRec
  <2> HIDE DEF t
  <2>3. ~Deaf(t)
    BY <1>2, <2>2 DEF Deaf
  <2>4. ~Condemned(r) /\ Hears(r)
    BY <1>6, <1>7, <2>2, <2>3 DEF Condemned, Hears
  <2>5. ~Condemned(s)
    BY <1>1, <1>2, <1>8 DEF Condemned
  <2> QED
    BY <1>1, <1>6, <2>2, <2>4, <2>5 DEF HearsMessage
<1>9. CASE f = "msg" /\ s.dropDeferred
  <2>1. t = s
    BY <1>9, Zenon DEF ParseFrame
  <2> HIDE DEF t
  <2>2. Hears(r) /\ Condemned(r)
    BY <1>1, <1>2, <1>6, <1>7, <1>9, <2>1 DEF Hears, Condemned
  <2> QED
    BY <1>1, <1>6, <2>1, <2>2 DEF Moves, GoesOn
<1>10. ASSUME Plain(s, t) PROVE Hears(r) /\ Moves(s, r)
  <2>1. /\ t.life = "live" /\ t.run = s.run /\ t.opened /\ ~t.dropping
        /\ t.inDelivery /\ ~t.faulted /\ ~t.dropPending
        /\ t.dropDeferred = s.dropDeferred
        /\ t.failed = s.failed /\ t.closeRecv = s.closeRecv
    BY <1>1, <1>2, <1>10 DEF Plain, Flags, Alike
  <2> HIDE DEF t
  <2>2. ~Deaf(t)
    BY <1>2, <2>1 DEF Deaf
  <2>3. Hears(r)
    BY <1>6, <1>7, <2>1, <2>2 DEF Hears
  <2>4. Condemned(s) => Condemned(r)
    BY <1>1, <1>2, <1>6, <2>1 DEF Condemned
  <2> QED
    BY <1>1, <1>6, <2>1, <2>3, <2>4 DEF Moves, GoesOn
<1>11. CASE f = "ping"
  <2>1. t = SendFrame(s, It("pong"))
    BY <1>11 DEF ParseFrame
  <2>2. Plain(s, t)
    BY <1>1, <2>1, ItemTyped, SendFramePlain
  <2> QED
    BY <1>10, <2>2
<1>12. ASSUME t.life = "live", t.run = s.run, t.opened, ~t.dropping, t.inDelivery,
              Deaf(t)
       PROVE  Hears(r) /\ Moves(s, r)
  <2> HIDE DEF t
  <2>1. Hears(r)
    BY <1>5, <1>6, <1>7, <1>12 DEF Hears
  <2>2. Condemned(r)
    BY <1>7, <1>12 DEF Condemned
  <2> QED
    BY <1>1, <1>6, <1>12, <2>1, <2>2 DEF Moves, GoesOn
<1>13. CASE f = "close"
  <2> DEFINE c == [s EXCEPT !.closeRecv = TRUE]
  <2>1. t = SendClose(c)
    BY <1>13 DEF ParseFrame
  <2>2. /\ c \in ConnRec /\ c.life = s.life /\ c.run = s.run
        /\ c.opened = s.opened /\ c.dropping = s.dropping
        /\ c.inDelivery = s.inDelivery /\ c.closeRecv
    BY <1>1 DEF ConnRec
  <2> HIDE DEF c
  <2>3. Plain(c, t)
    BY <2>1, <2>2, SendClosePlain
  <2> QED
    BY <1>1, <1>12, <2>2, <2>3 DEF Plain, Flags, Alike, Deaf
<1>14. CASE f = "bad"
  <2> DEFINE c == [s EXCEPT !.failed = TRUE]
  <2>1. t = SendClose(c)
    BY <1>14 DEF ParseFrame, Fail
  <2>2. /\ c \in ConnRec /\ c.life = s.life /\ c.run = s.run
        /\ c.opened = s.opened /\ c.dropping = s.dropping
        /\ c.inDelivery = s.inDelivery /\ c.failed
    BY <1>1 DEF ConnRec
  <2> HIDE DEF c
  <2>3. Plain(c, t)
    BY <2>1, <2>2, SendClosePlain
  <2> QED
    BY <1>1, <1>12, <2>2, <2>3 DEF Plain, Flags, Alike, Deaf
<1> QED
  BY <1>8, <1>9, <1>11, <1>13, <1>14 DEF FrameKinds

(* A delivery unwinds.                                                     *)
Unwound(s) == [s EXCEPT !.inDelivery = FALSE, !.run = "idle"]

LEMMA UnwoundUnwinds ==
  \A s : Running(s) /\ s.run # "idle" =>
    LET u == Unwound(s) IN
    /\ Unwinds(s, u) /\ u \in ConnRec
    /\ u.dropDeferred = s.dropDeferred /\ u.faulted = s.faulted
    /\ u.failed = s.failed /\ u.closeRecv = s.closeRecv
    /\ u.dropPending = s.dropPending /\ u.todo = s.todo
<1> TAKE s
<1> DEFINE u == Unwound(s)
<1> SUFFICES ASSUME Running(s), s.run # "idle"
             PROVE  /\ Unwinds(s, u) /\ u \in ConnRec
                    /\ u.dropDeferred = s.dropDeferred /\ u.faulted = s.faulted
                    /\ u.failed = s.failed /\ u.closeRecv = s.closeRecv
                    /\ u.dropPending = s.dropPending /\ u.todo = s.todo
  BY Zenon
<1>1. /\ s \in ConnRec /\ s.inDelivery /\ ~s.dropping /\ s.opened
      /\ s.life = "live" /\ s \in Good
  BY RunningFields DEF Running
<1>2. u \in Good /\ ~u.dropping
  BY <1>1, UnwoundGood, Zenon DEF Unwound
<1>3. /\ u.life = "live" /\ ~u.inDelivery /\ u.run = "idle"
      /\ u.opened = s.opened /\ u.dropping = s.dropping
      /\ u.dropDeferred = s.dropDeferred /\ u.faulted = s.faulted
      /\ u.failed = s.failed /\ u.closeRecv = s.closeRecv
      /\ u.dropPending = s.dropPending /\ u.todo = s.todo
  BY <1>1 DEF Unwound, ConnRec
<1> HIDE DEF u
<1>4. Free(u) /\ u \in ConnRec
  BY <1>2, <1>3 DEF Free, Good
<1>5. (Deaf(u) <=> Deaf(s)) /\ (Condemned(s) => Condemned(u))
  BY <1>3 DEF Deaf, Condemned
<1>6. s.dropPending => s.faulted \/ Deaf(s)
  BY <1>1 DEF Running, Hears
<1> QED
  BY <1>1, <1>3, <1>4, <1>5, <1>6 DEF Unwinds

LEMMA SettleDeliveryOutcome ==
  \A u, e : Free(u) /\ e \in Results => Outcome(u, SettleDelivery(u, e))
  BY SettleDeliveryFree, PlainTrans DEF Outcome

LEMMA SettledMoves ==
  \A s, e : Running(s) /\ s.run # "idle" /\ e \in Results =>
    Hears(Settled(s, e)) /\ Moves(s, Settled(s, e))
<1> TAKE s, e
<1> SUFFICES ASSUME Running(s), s.run # "idle", e \in Results
             PROVE  Hears(Settled(s, e)) /\ Moves(s, Settled(s, e))
  OBVIOUS
<1>1. Settled(s, e) = SettleDelivery(Unwound(s), e)
  BY DEF Settled, Unwound
<1>2. Unwinds(s, Unwound(s))
  BY UnwoundUnwinds
<1>3. Outcome(Unwound(s), SettleDelivery(Unwound(s), e))
  BY <1>2, SettleDeliveryOutcome DEF Unwinds
<1> QED
  BY <1>1, <1>2, <1>3, OutcomeMoves

LEMMA IngestDoneMoves ==
  \A s, e : Running(s) /\ s.run = "ingest" /\ e \in Results =>
    Hears(IngestDone(s, e)) /\ Moves(s, IngestDone(s, e))
<1> TAKE s, e
<1> SUFFICES ASSUME Running(s), s.run = "ingest", e \in Results
             PROVE  Hears(IngestDone(s, e)) /\ Moves(s, IngestDone(s, e))
  OBVIOUS
<1> DEFINE u == Unwound(s)
           v == FlushConn(u, e)
           b == BeginDrain(v)
<1>1. IngestDone(s, e) =
        IF u.dropDeferred \/ u.faulted THEN SettleDelivery(u, e)
        ELSE IF u.failed THEN DrainThenDrop(u, e)
        ELSE IF v.dropping \/ ~CloseDone(v) THEN v
        ELSE IF v.out = <<>> THEN DropConn(v)
        ELSE b
  BY DEF IngestDone, Unwound
<1>2. Unwinds(s, u) /\ Free(u) /\ u \in ConnRec
  BY UnwoundUnwinds DEF Unwinds
<1> HIDE DEF u
<1>3. CASE u.dropDeferred \/ u.faulted
  BY <1>1, <1>2, <1>3, SettleDeliveryOutcome, OutcomeMoves
<1>4. CASE ~(u.dropDeferred \/ u.faulted) /\ u.failed
  <2>1. Outcome(u, DrainThenDrop(u, e))
    BY <1>2, <1>4, DrainThenDropFree DEF Outcome, Deaf
  <2> QED
    BY <1>1, <1>2, <1>4, <2>1, OutcomeMoves
<1>5. CASE ~(u.dropDeferred \/ u.faulted) /\ ~u.failed
  <2>1. v \in ConnRec /\ ((Plain(u, v) /\ Free(v)) \/ Ends(u, v))
    BY <1>2, FlushConnFree, FlushConnTyped
  <2>2. IngestDone(s, e) \in {v, DropConn(v), b}
        /\ (v.dropping => IngestDone(s, e) = v)
        /\ (IngestDone(s, e) = b => IngestDone(s, e) = v \/ CloseDone(v))
    BY <1>1, <1>5
  <2> HIDE DEF v
  <2>3. CASE Ends(u, v)
    <3>1. Outcome(u, v) /\ v.dropping
      BY <2>3 DEF Outcome, Ends
    <3> QED
      BY <1>2, <2>2, <3>1, OutcomeMoves
  <2>4. CASE Plain(u, v) /\ Free(v)
    <3>1. Outcome(u, v)
      BY <1>5, <2>4 DEF Outcome
    <3>2. Outcome(u, DropConn(v))
      BY <2>4, DropConnEnds, PlainTrans DEF Outcome, Plain
    <3>3. ASSUME CloseDone(v) PROVE Outcome(u, b)
      <4>1. Drained(u, b)
        BY <2>1, <2>4, BeginDrainDrains, PlainTrans
      <4>2. Deaf(u)
        BY <2>4, <3>3 DEF CloseDone, Deaf, Plain, Flags
      <4> QED
        BY <1>5, <4>1, <4>2 DEF Outcome
    <3> QED
      BY <1>2, <2>2, <3>1, <3>2, <3>3, OutcomeMoves
  <2> QED
    BY <2>1, <2>3, <2>4
<1> QED
  BY <1>3, <1>4, <1>5

LEMMA SendReadyMoves ==
  \A s, e : Free(s) /\ Hears(s) /\ e \in Results =>
    Hears(SendReady(s, e)) /\ Moves(s, SendReady(s, e))
<1> TAKE s, e
<1> SUFFICES ASSUME Free(s), Hears(s), e \in Results
             PROVE  Hears(SendReady(s, e)) /\ Moves(s, SendReady(s, e))
  OBVIOUS
<1> DEFINE u == [s EXCEPT !.owed = FALSE]
           t == FlushConn(u, e)
<1>1. \/ SendReady(s, e) = t
      \/ SendReady(s, e) = DropConn(t) /\ ~t.dropping
  BY Zenon DEF SendReady
<1>2. u \in ConnRec /\ Plain(s, u)
  <2>1. \A n \in ConnRec : /\ [n EXCEPT !.owed = FALSE] \in ConnRec
                           /\ Plain(n, [n EXCEPT !.owed = FALSE])
    <3> TAKE n \in ConnRec
    <3>1. [n EXCEPT !.owed = FALSE] \in ConnRec
      BY DEF ConnRec
    <3>2. Alike(n, [n EXCEPT !.owed = FALSE])
      BY ZenonT(30) DEF ConnRec, Alike
    <3>3. Flags(n, [n EXCEPT !.owed = FALSE])
      BY DEF ConnRec, Flags
    <3> QED
      BY <3>1, <3>2, <3>3 DEF Plain
  <2> QED
    BY <2>1, FreeFields, Zenon
<1> HIDE DEF u
<1>3. Free(u) /\ Unwinds(s, u) /\ ~u.dropDeferred
  BY <1>2, FreeFields, PlainFree
<1>4. (Plain(u, t) /\ Free(t)) \/ Ends(u, t)
  BY <1>3, FlushConnFree
<1> HIDE DEF t
<1>5. CASE Ends(u, t)
  <2>1. Outcome(u, t) /\ t.dropping
    BY <1>5 DEF Outcome, Ends
  <2> QED
    BY <1>1, <1>3, <2>1, UnwindsSelf, OutcomeMoves
<1>6. CASE Plain(u, t) /\ Free(t)
  <2>1. Outcome(u, t)
    BY <1>3, <1>6 DEF Outcome
  <2>2. Outcome(u, DropConn(t))
    BY <1>6, DropConnEnds, PlainTrans DEF Outcome, Plain
  <2> QED
    BY <1>1, <1>3, <2>1, <2>2, UnwindsSelf, OutcomeMoves
<1> QED
  BY <1>4, <1>5, <1>6

(* A handler raised: the session is faulted, and closes if it was open.    *)
LEMMA HandlerRaisedMarks ==
  \A s \in ConnRec : ~s.dropping =>
    LET h == HandlerRaised(s) IN
    /\ h \in ConnRec /\ Alike(s, h) /\ h.faulted
    /\ h.dropDeferred = s.dropDeferred /\ h.dropPending = s.dropPending
    /\ h.failed = s.failed /\ h.closeRecv = s.closeRecv /\ h.todo = s.todo
<1> TAKE s \in ConnRec
<1> DEFINE t == [s EXCEPT !.faulted = TRUE]
           c == SendClose(t)
           d == [c EXCEPT !.state = "closing"]
           h == HandlerRaised(s)
<1> SUFFICES ASSUME ~s.dropping
             PROVE  /\ h \in ConnRec /\ Alike(s, h) /\ h.faulted
                    /\ h.dropDeferred = s.dropDeferred
                    /\ h.dropPending = s.dropPending /\ h.failed = s.failed
                    /\ h.closeRecv = s.closeRecv /\ h.todo = s.todo
  BY Zenon
<1>1. h \in ConnRec /\ Alike(s, h)
  BY HandlerRaisedTyped, HandlerRaisedAlike
<1>2. h \in {t, d}
  BY Zenon DEF HandlerRaised
<1>3. /\ t \in ConnRec /\ t.faulted
      /\ t.dropDeferred = s.dropDeferred /\ t.dropPending = s.dropPending
      /\ t.failed = s.failed /\ t.closeRecv = s.closeRecv /\ t.todo = s.todo
  BY DEF ConnRec
<1> HIDE DEF t
<1>4. c \in ConnRec /\ Flags(t, c)
  BY <1>3, SendCloseTyped, SendClosePlain DEF Plain
<1> HIDE DEF c
<1>5. Flags(c, d)
  BY <1>4 DEF Flags, ConnRec
<1> HIDE DEF d, h
<1> QED
  BY <1>1, <1>2, <1>3, <1>4, <1>5 DEF Flags

LEMMA RaisedMoves ==
  \A s, e : Running(s) /\ s.run # "idle" /\ e \in Results =>
    LET r == [HandlerRaised(s) EXCEPT !.todo = <<>>]
    IN Hears(Settled(r, e)) /\ Moves(s, Settled(r, e))
<1> TAKE s, e
<1> DEFINE h == HandlerRaised(s)
           r == [h EXCEPT !.todo = <<>>]
           u == Unwound(r)
<1> SUFFICES ASSUME Running(s), s.run # "idle", e \in Results
             PROVE  Hears(Settled(r, e)) /\ Moves(s, Settled(r, e))
  BY Zenon
<1>1. /\ s \in ConnRec /\ s.inDelivery /\ ~s.dropping /\ s.opened
      /\ s.life = "live" /\ s \in Good
  BY RunningFields DEF Running
<1>2. /\ h \in ConnRec /\ Alike(s, h) /\ h.faulted
      /\ h.dropDeferred = s.dropDeferred /\ h.dropPending = s.dropPending
      /\ h.failed = s.failed /\ h.closeRecv = s.closeRecv
  BY <1>1, HandlerRaisedMarks
<1>3. h \in Good /\ h.inDelivery
  BY <1>1, <1>2, AlikeGood DEF Alike
<1> HIDE DEF h
<1>4. r \in Good /\ r \in ConnRec
  BY <1>3, TodoGood, GoodFields, Zenon
<1>5. <<>> \in Seq(FrameKinds)
  OBVIOUS
<1>6. /\ r.inDelivery /\ r.opened /\ r.life = "live" /\ ~r.dropping /\ r.faulted
  <2>1. /\ r.life = h.life /\ r.opened = h.opened /\ r.dropping = h.dropping
        /\ r.inDelivery = h.inDelivery /\ r.faulted = h.faulted
    BY <1>2, <1>5, TodoFields, Zenon
  <2> HIDE DEF r
  <2> QED
    BY <1>1, <1>2, <1>3, <2>1 DEF Alike
<1> HIDE DEF r
<1>7. u \in Good /\ ~u.dropping
  BY <1>4, <1>6, UnwoundGood, Zenon DEF Unwound
<1>8. /\ u.opened /\ u.life = "live" /\ ~u.inDelivery /\ u.faulted
  BY <1>4, <1>6 DEF Unwound, ConnRec
<1> HIDE DEF u
<1>9. Free(u) /\ Unwinds(s, u)
  BY <1>1, <1>7, <1>8 DEF Free, Unwinds, Condemned
<1>10. Settled(r, e) = SettleDelivery(u, e)
  BY DEF Settled, Unwound, u
<1> QED
  BY <1>9, <1>10, SettleDeliveryOutcome, OutcomeMoves

(* OnOpen returned.                                                        *)
LEMMA AfterOpenMoves ==
  \A s, e : Running(s) /\ s.run = "onopen" /\ e \in Results =>
    Hears(AfterOpen(s, e)) /\ Moves(s, AfterOpen(s, e))
<1> TAKE s, e
<1> SUFFICES ASSUME Running(s), s.run = "onopen", e \in Results
             PROVE  Hears(AfterOpen(s, e)) /\ Moves(s, AfterOpen(s, e))
  OBVIOUS
<1> DEFINE t == Settled(s, e)
           u == Unwound(s)
<1>1. s \in ConnRec /\ s.opened
  BY RunningFields
<1>2. t \in ConnRec /\ Hears(t) /\ Moves(s, t)
  BY <1>1, SettledTyped, SettledMoves
<1>3. CASE ~(t.state = "open" /\ ~s.dropDeferred /\ ~s.faulted /\ s.todo # <<>>)
  <2>1. AfterOpen(s, e) = [t EXCEPT !.todo = <<>>]
    BY <1>3, Zenon DEF AfterOpen
  <2> QED
    BY <1>1, <1>2, <2>1, TodoMoves, Zenon
<1>4. CASE t.state = "open" /\ ~s.dropDeferred /\ ~s.faulted /\ s.todo # <<>>
  <2>1. AfterOpen(s, e) = StartIngest(t, s.todo)
    BY <1>4, Zenon DEF AfterOpen
  <2>2. t = SettleDelivery(u, e)
    BY DEF Settled, Unwound
  <2>3. /\ Unwinds(s, u) /\ u \in ConnRec
        /\ ~u.dropDeferred /\ ~u.faulted
    BY <1>4, UnwoundUnwinds
  <2> HIDE DEF u
  <2>4. t = u
    BY <2>2, <2>3 DEF SettleDelivery
  <2> HIDE DEF t
  <2>5. /\ u.life = "live" /\ u.opened /\ ~u.dropping
        /\ (u.dropPending => Deaf(u)) /\ (Condemned(s) => Condemned(u))
    BY <1>1, <2>3 DEF Unwinds, Free
  <2>6. s.todo \in Seq(FrameKinds)
    BY <1>1 DEF ConnRec
  <2>7. LET r == StartIngest(u, s.todo)
        IN Hears(r) /\ r.life = "live" /\ r.opened /\ r.run = "ingest"
           /\ (Condemned(u) => Condemned(r))
    BY <2>3, <2>5, <2>6, StartIngestMoves
  <2> QED
    BY <1>1, <2>1, <2>4, <2>5, <2>7 DEF Moves, GoesOn
<1> QED
  BY <1>3, <1>4

(* The sweeper's check is judged.                                          *)
LEMMA ClockCheckedMoves ==
  \A s, e : Free(s) /\ Hears(s) /\ e \in Results =>
    Hears(ClockChecked(s, e)) /\ Moves(s, ClockChecked(s, e))
<1> TAKE s, e
<1> SUFFICES ASSUME Free(s), Hears(s), e \in Results
             PROVE  Hears(ClockChecked(s, e)) /\ Moves(s, ClockChecked(s, e))
  OBVIOUS
<1> DEFINE d == [s EXCEPT !.inDelivery = TRUE]
           r == CheckClock(d, e)
           t == [r EXCEPT !.inDelivery = FALSE]
<1>1. /\ s \in ConnRec /\ s.run = "idle" /\ s.life = "live" /\ ~s.dropping
      /\ ~s.inDelivery /\ Running(s)
  BY FreeFields, UnwindsSelf
<1>2. ClockChecked(s, e) = SettleDelivery(t, e)
  BY DEF ClockChecked
<1>3. /\ d \in ConnRec /\ d.inDelivery /\ Flags(s, d)
      /\ Alike(s, [d EXCEPT !.inDelivery = FALSE])
  <2>1. \A n \in ConnRec : ~n.inDelivery =>
          /\ [n EXCEPT !.inDelivery = TRUE] \in ConnRec
          /\ [n EXCEPT !.inDelivery = TRUE].inDelivery
          /\ Flags(n, [n EXCEPT !.inDelivery = TRUE])
          /\ Alike(n, [[n EXCEPT !.inDelivery = TRUE]
                         EXCEPT !.inDelivery = FALSE])
    <3> TAKE n \in ConnRec
    <3>1. Flags(n, [n EXCEPT !.inDelivery = TRUE])
      BY DEF Flags, ConnRec
    <3> QED
      BY <3>1, ZenonT(30) DEF ConnRec, Alike
  <2> QED
    BY <1>1, <2>1, Zenon
<1> HIDE DEF d
<1>4. r \in ConnRec /\ Deferred(d, r)
  BY <1>3, CheckClockTyped, CheckClockDefers
<1> HIDE DEF r
<1>5. /\ t \in ConnRec
      /\ Alike([d EXCEPT !.inDelivery = FALSE], t)
      /\ Flags(r, t)
  <2>1. \A n, m \in ConnRec : Alike(n, m) =>
          /\ [m EXCEPT !.inDelivery = FALSE] \in ConnRec
          /\ Alike([n EXCEPT !.inDelivery = FALSE],
                   [m EXCEPT !.inDelivery = FALSE])
    <3> TAKE n, m \in ConnRec
    <3> QED
      BY ZenonT(30) DEF ConnRec, Alike
  <2>2. Flags(r, t)
    BY <1>4 DEF Flags, ConnRec
  <2>3. Alike(d, r)
    BY <1>4 DEF Deferred
  <2> QED
    BY <1>3, <1>4, <2>1, <2>2, <2>3, Zenon
<1> HIDE DEF t
<1>6. Alike(s, t) /\ Free(t)
  BY <1>1, <1>3, <1>5, AlikeTrans, FreeAlike, Zenon
<1>7. /\ t.opened = s.opened /\ t.dropPending = s.dropPending
      /\ t.faulted = s.faulted /\ t.failed = s.failed
      /\ t.closeRecv = s.closeRecv /\ (s.dropDeferred => t.dropDeferred)
      /\ t.dropping = s.dropping
  BY <1>3, <1>4, <1>5, <1>6 DEF Flags, Deferred, Alike
<1>8. Unwinds(s, t)
  BY <1>1, <1>6, <1>7 DEF Unwinds, Hears, Condemned, Deaf
<1> QED
  BY <1>1, <1>2, <1>6, <1>8, SettleDeliveryOutcome, OutcomeMoves

-----------------------------------------------------------------------------
(* From one record to the contract.                                        *)

(* The contract's variables, as HostContract substitutes them.             *)
PhaseOf == [c \in Conns |-> Phase(conn[c])]
HandlerOf == [c \in Conns |->
                IF conn[c].run = "ingest" THEN "idle" ELSE conn[c].run]
CondemnedOf == [c \in Conns |-> Condemned(conn[c])]

Hd(s) == IF s.run = "ingest" THEN "idle" ELSE s.run

LEMMA CondemnedBoolean == \A s : Condemned(s) \in BOOLEAN
  BY DEF Condemned

LEMMA Reads_Of ==
  /\ \A c \in Conns : /\ PhaseOf[c] = Phase(conn[c])
                      /\ HandlerOf[c] = Hd(conn[c])
                      /\ CondemnedOf[c] = Condemned(conn[c])
  /\ CondemnedOf \in [Conns -> BOOLEAN]
  BY CondemnedBoolean DEF PhaseOf, HandlerOf, CondemnedOf, Hd

LEMMA Mirror ==
  ASSUME TypeOK, NEW c \in Conns, NEW t, conn' = [conn EXCEPT ![c] = t]
  PROVE  /\ PhaseOf' = [PhaseOf EXCEPT ![c] = Phase(t)]
         /\ HandlerOf' = [HandlerOf EXCEPT ![c] = Hd(t)]
         /\ CondemnedOf' = [CondemnedOf EXCEPT ![c] = Condemned(t)]
<1>1. conn'[c] = t /\ \A d \in Conns : d # c => conn'[d] = conn[d]
  BY DEF TypeOK
<1>2. PhaseOf' = [PhaseOf EXCEPT ![c] = Phase(t)]
  <2>1. PhaseOf' = [d \in Conns |-> Phase(conn'[d])]
    BY Zenon DEF PhaseOf
  <2>2. PhaseOf = [d \in Conns |-> Phase(conn[d])]
    BY Zenon DEF PhaseOf
  <2>3. \A d \in Conns : Phase(conn'[d]) = IF d = c THEN Phase(t)
                                            ELSE Phase(conn[d])
    <3> TAKE d \in Conns
    <3>1. CASE d = c
      BY <1>1, <3>1
    <3>2. CASE d # c
      <4>1. conn'[d] = conn[d]
        BY <1>1, <3>2
      <4> QED
        BY <3>2, <4>1
    <3> QED
      BY <3>1, <3>2
  <2> QED
    BY <2>1, <2>2, <2>3
<1>3. HandlerOf' = [HandlerOf EXCEPT ![c] = Hd(t)]
  <2>1. HandlerOf' = [d \in Conns |-> Hd(conn'[d])]
    BY Zenon DEF HandlerOf, Hd
  <2>2. HandlerOf = [d \in Conns |-> Hd(conn[d])]
    BY Zenon DEF HandlerOf, Hd
  <2>3. \A d \in Conns : Hd(conn'[d]) = IF d = c THEN Hd(t) ELSE Hd(conn[d])
    <3> TAKE d \in Conns
    <3>1. CASE d = c
      BY <1>1, <3>1
    <3>2. CASE d # c
      <4>1. conn'[d] = conn[d]
        BY <1>1, <3>2
      <4> QED
        BY <3>2, <4>1
    <3> QED
      BY <3>1, <3>2
  <2> QED
    BY <2>1, <2>2, <2>3
<1>4. CondemnedOf' = [CondemnedOf EXCEPT ![c] = Condemned(t)]
  <2>1. CondemnedOf' = [d \in Conns |-> Condemned(conn'[d])]
    BY Zenon DEF CondemnedOf
  <2>2. CondemnedOf = [d \in Conns |-> Condemned(conn[d])]
    BY Zenon DEF CondemnedOf
  <2>3. \A d \in Conns : Condemned(conn'[d]) = IF d = c THEN Condemned(t)
                                                ELSE Condemned(conn[d])
    <3> TAKE d \in Conns
    <3>1. CASE d = c
      BY <1>1, <3>1
    <3>2. CASE d # c
      <4>1. conn'[d] = conn[d]
        BY <1>1, <3>2
      <4> QED
        BY <3>2, <4>1
    <3> QED
      BY <3>1, <3>2
  <2> QED
    BY <2>1, <2>2, <2>3
<1> QED
  BY <1>2, <1>3, <1>4

LEMMA ContractActions ==
  ASSUME NEW c \in Conns
  PROVE  /\ Lifecycle!Connect(c) <=>
              /\ PhaseOf[c] = "none"
              /\ PhaseOf' = [PhaseOf EXCEPT ![c] = "pending"]
              /\ HandlerOf' = HandlerOf /\ CondemnedOf' = CondemnedOf
         /\ Lifecycle!Vanish(c) <=>
              /\ PhaseOf[c] = "pending"
              /\ PhaseOf' = [PhaseOf EXCEPT ![c] = "gone"]
              /\ CondemnedOf' = [CondemnedOf EXCEPT ![c] = TRUE]
              /\ HandlerOf' = HandlerOf
         /\ Lifecycle!Open(c) <=>
              /\ PhaseOf[c] = "pending" /\ ~CondemnedOf[c]
              /\ PhaseOf' = [PhaseOf EXCEPT ![c] = "open"]
              /\ HandlerOf' = [HandlerOf EXCEPT ![c] = "onopen"]
              /\ CondemnedOf' = CondemnedOf
         /\ Lifecycle!Message(c) <=>
              /\ PhaseOf[c] = "open" /\ HandlerOf[c] = "idle" /\ ~CondemnedOf[c]
              /\ HandlerOf' = [HandlerOf EXCEPT ![c] = "onmessage"]
              /\ PhaseOf' = PhaseOf /\ CondemnedOf' = CondemnedOf
         /\ Lifecycle!RunPost(c) <=>
              /\ PhaseOf[c] = "open" /\ HandlerOf[c] = "idle"
              /\ HandlerOf' = [HandlerOf EXCEPT ![c] = "onpost"]
              /\ PhaseOf' = PhaseOf /\ CondemnedOf' = CondemnedOf
         /\ Lifecycle!Return(c) <=>
              /\ PhaseOf[c] = "open" /\ HandlerOf[c] # "idle"
              /\ HandlerOf' = [HandlerOf EXCEPT ![c] = "idle"]
              /\ CondemnedOf' \in {CondemnedOf,
                                   [CondemnedOf EXCEPT ![c] = TRUE]}
              /\ PhaseOf' = PhaseOf
         /\ Lifecycle!Condemn(c) <=>
              /\ PhaseOf[c] \in {"pending", "open"} /\ ~CondemnedOf[c]
              /\ CondemnedOf' = [CondemnedOf EXCEPT ![c] = TRUE]
              /\ PhaseOf' = PhaseOf /\ HandlerOf' = HandlerOf
         /\ Lifecycle!Notify(c) <=>
              /\ PhaseOf[c] = "open"
              /\ PhaseOf' = [PhaseOf EXCEPT ![c] = "ending"]
              /\ HandlerOf' = [HandlerOf EXCEPT ![c] = "onclose"]
              /\ CondemnedOf' = [CondemnedOf EXCEPT ![c] = TRUE]
         /\ Lifecycle!Release(c) <=>
              /\ PhaseOf[c] = "ending"
              /\ PhaseOf' = [PhaseOf EXCEPT ![c] = "gone"]
              /\ HandlerOf' = [HandlerOf EXCEPT ![c] = "idle"]
              /\ CondemnedOf' = CondemnedOf
<1> USE DEF PhaseOf, HandlerOf, CondemnedOf
<1>1. Lifecycle!Connect(c) <=>
        /\ PhaseOf[c] = "none"
        /\ PhaseOf' = [PhaseOf EXCEPT ![c] = "pending"]
        /\ HandlerOf' = HandlerOf /\ CondemnedOf' = CondemnedOf
  BY Zenon DEF Lifecycle!Connect
<1>2. Lifecycle!Vanish(c) <=>
        /\ PhaseOf[c] = "pending"
        /\ PhaseOf' = [PhaseOf EXCEPT ![c] = "gone"]
        /\ CondemnedOf' = [CondemnedOf EXCEPT ![c] = TRUE]
        /\ HandlerOf' = HandlerOf
  BY Zenon DEF Lifecycle!Vanish
<1>3. Lifecycle!Open(c) <=>
        /\ PhaseOf[c] = "pending" /\ ~CondemnedOf[c]
        /\ PhaseOf' = [PhaseOf EXCEPT ![c] = "open"]
        /\ HandlerOf' = [HandlerOf EXCEPT ![c] = "onopen"]
        /\ CondemnedOf' = CondemnedOf
  BY Zenon DEF Lifecycle!Open
<1>4. Lifecycle!Message(c) <=>
        /\ PhaseOf[c] = "open" /\ HandlerOf[c] = "idle" /\ ~CondemnedOf[c]
        /\ HandlerOf' = [HandlerOf EXCEPT ![c] = "onmessage"]
        /\ PhaseOf' = PhaseOf /\ CondemnedOf' = CondemnedOf
  BY Zenon DEF Lifecycle!Message
<1>5. Lifecycle!RunPost(c) <=>
        /\ PhaseOf[c] = "open" /\ HandlerOf[c] = "idle"
        /\ HandlerOf' = [HandlerOf EXCEPT ![c] = "onpost"]
        /\ PhaseOf' = PhaseOf /\ CondemnedOf' = CondemnedOf
  BY Zenon DEF Lifecycle!RunPost
<1>6. Lifecycle!Return(c) <=>
        /\ PhaseOf[c] = "open" /\ HandlerOf[c] # "idle"
        /\ HandlerOf' = [HandlerOf EXCEPT ![c] = "idle"]
        /\ CondemnedOf' \in {CondemnedOf, [CondemnedOf EXCEPT ![c] = TRUE]}
        /\ PhaseOf' = PhaseOf
  BY Zenon DEF Lifecycle!Return
<1>7. Lifecycle!Condemn(c) <=>
        /\ PhaseOf[c] \in {"pending", "open"} /\ ~CondemnedOf[c]
        /\ CondemnedOf' = [CondemnedOf EXCEPT ![c] = TRUE]
        /\ PhaseOf' = PhaseOf /\ HandlerOf' = HandlerOf
  BY Zenon DEF Lifecycle!Condemn
<1>8. Lifecycle!Notify(c) <=>
        /\ PhaseOf[c] = "open"
        /\ PhaseOf' = [PhaseOf EXCEPT ![c] = "ending"]
        /\ HandlerOf' = [HandlerOf EXCEPT ![c] = "onclose"]
        /\ CondemnedOf' = [CondemnedOf EXCEPT ![c] = TRUE]
  BY Zenon DEF Lifecycle!Notify
<1>9. Lifecycle!Release(c) <=>
        /\ PhaseOf[c] = "ending"
        /\ PhaseOf' = [PhaseOf EXCEPT ![c] = "gone"]
        /\ HandlerOf' = [HandlerOf EXCEPT ![c] = "idle"]
        /\ CondemnedOf' = CondemnedOf
  BY Zenon DEF Lifecycle!Release
<1> HIDE DEF PhaseOf, HandlerOf, CondemnedOf
<1> QED
  BY <1>1, <1>2, <1>3, <1>4, <1>5, <1>6, <1>7, <1>8, <1>9, Zenon

-----------------------------------------------------------------------------
(* One session moves.                                                      *)

(* Every session is left hearing what it should, none that opened closes   *)
(* again, and the host sees a step of its contract or nothing.             *)
Told ==
  /\ \A d \in Conns : Hears(conn'[d]) /\ (conn[d].opened => conn'[d].opened)
  /\ [Lifecycle!Next]_(Lifecycle!vars)

LEMMA PhaseFields ==
  \A s :
    /\ s.life = "none" => Phase(s) = "none"
    /\ s.life = "freed" => Phase(s) = "gone"
    /\ s.life = "live" /\ s.run = "onclose" => Phase(s) = "ending"
    /\ s.life = "live" /\ s.run # "onclose" =>
         Phase(s) = IF s.opened THEN "open" ELSE "pending"
  BY DEF Phase

LEMMA HandlerFields ==
  \A s : /\ s.run = "ingest" => Hd(s) = "idle"
         /\ s.run # "ingest" => Hd(s) = s.run
  BY DEF Hd

(* A function is not changed by writing back what it held.                 *)
LEMMA WrittenBack ==
  /\ \A c \in Conns : [PhaseOf EXCEPT ![c] = PhaseOf[c]] = PhaseOf
  /\ \A c \in Conns : [HandlerOf EXCEPT ![c] = HandlerOf[c]] = HandlerOf
  /\ \A c \in Conns : [CondemnedOf EXCEPT ![c] = CondemnedOf[c]] = CondemnedOf
<1>1. /\ PhaseOf = [d \in Conns |-> PhaseOf[d]]
      /\ HandlerOf = [d \in Conns |-> HandlerOf[d]]
      /\ CondemnedOf = [d \in Conns |-> CondemnedOf[d]]
  BY Zenon DEF PhaseOf, HandlerOf, CondemnedOf
<1> QED
  BY <1>1

LEMMA Unseen ==
  ASSUME PhaseOf' = PhaseOf, HandlerOf' = HandlerOf, CondemnedOf' = CondemnedOf
  PROVE  Lifecycle!vars' = Lifecycle!vars
  BY Zenon DEF Lifecycle!vars, PhaseOf, HandlerOf, CondemnedOf

LEMMA OneStep ==
  ASSUME NEW c \in Conns,
         \/ Lifecycle!Connect(c) \/ Lifecycle!Vanish(c) \/ Lifecycle!Open(c)
         \/ Lifecycle!Message(c) \/ Lifecycle!RunPost(c) \/ Lifecycle!Return(c)
         \/ Lifecycle!Condemn(c) \/ Lifecycle!Notify(c) \/ Lifecycle!Release(c)
  PROVE  Lifecycle!Next
  BY Zenon DEF Lifecycle!Next

(* Only c's record is written.                                             *)
LEMMA OthersHear ==
  ASSUME RInv, NEW c \in Conns, NEW t, conn' = [conn EXCEPT ![c] = t],
         Hears(t), conn[c].opened => t.opened
  PROVE  \A d \in Conns : Hears(conn'[d]) /\ (conn[d].opened => conn'[d].opened)
<1> TAKE d \in Conns
<1>1. CASE d = c
  <2>1. conn'[d] = t
    BY <1>1 DEF RInv, IInv, TypeOK
  <2> QED
    BY <1>1, <2>1
<1>2. CASE d # c
  <2>1. conn'[d] = conn[d]
    BY <1>2 DEF RInv, IInv, TypeOK
  <2> QED
    BY <2>1 DEF RInv
<1> QED
  BY <1>1, <1>2

LEMMA GoesOnTold ==
  ASSUME RInv, NEW c \in Conns, NEW t, conn' = [conn EXCEPT ![c] = t],
         Running(conn[c]), GoesOn(conn[c], t), Hears(t)
  PROVE  Told
<1> DEFINE s == conn[c]
<1>1. \A d \in Conns : Hears(conn'[d]) /\ (conn[d].opened => conn'[d].opened)
  BY OthersHear DEF GoesOn
<1>2. /\ PhaseOf' = [PhaseOf EXCEPT ![c] = Phase(t)]
      /\ HandlerOf' = [HandlerOf EXCEPT ![c] = Hd(t)]
      /\ CondemnedOf' = [CondemnedOf EXCEPT ![c] = Condemned(t)]
  BY Mirror DEF RInv, IInv
<1>3. /\ PhaseOf[c] = Phase(s) /\ HandlerOf[c] = Hd(s)
      /\ CondemnedOf[c] = Condemned(s)
  BY Reads_Of, Zenon
<1>4. /\ s.life = "live" /\ s.run # "onclose" /\ (s.run # "idle" => s.opened)
      /\ t.life = "live" /\ t.run # "onclose" /\ t.opened = s.opened
      /\ t.run = s.run \/ t.run \in {"idle", "ingest"}
      /\ Condemned(s) => Condemned(t)
  BY DEF Running, Hears, GoesOn
<1> HIDE DEF s
<1>5. Phase(t) = Phase(s) /\ Phase(s) = IF s.opened THEN "open" ELSE "pending"
  BY <1>4, PhaseFields
<1>6. Hd(t) = Hd(s) \/ (Hd(t) = "idle" /\ Hd(s) # "idle" /\ s.opened)
  BY <1>4, HandlerFields
<1>7. Condemned(t) = Condemned(s) \/ (Condemned(t) = TRUE /\ ~Condemned(s))
  BY <1>4, CondemnedBoolean, Zenon
<1>8. PhaseOf' = PhaseOf
  BY <1>2, <1>3, <1>5, WrittenBack
<1>9. \/ CondemnedOf' = CondemnedOf
      \/ ~CondemnedOf[c] /\ CondemnedOf' = [CondemnedOf EXCEPT ![c] = TRUE]
  BY <1>2, <1>3, <1>7, WrittenBack, Zenon
<1>10. CASE Hd(t) = Hd(s)
  <2>1. HandlerOf' = HandlerOf
    BY <1>2, <1>3, <1>10, WrittenBack, Zenon
  <2>2. PhaseOf[c] \in {"pending", "open"}
    BY <1>3, <1>5
  <2>3. Lifecycle!Condemn(c) \/ Lifecycle!vars' = Lifecycle!vars
    BY <1>8, <1>9, <2>1, <2>2, ContractActions, Unseen, Zenon
  <2> QED
    BY <1>1, <2>3, OneStep, Zenon DEF Told
<1>11. CASE Hd(t) = "idle" /\ Hd(s) # "idle" /\ s.opened
  <2>1. PhaseOf[c] = "open" /\ HandlerOf[c] # "idle"
    BY <1>3, <1>5, <1>11
  <2>2. HandlerOf' = [HandlerOf EXCEPT ![c] = "idle"]
    BY <1>2, <1>11
  <2>3. CondemnedOf' \in {CondemnedOf, [CondemnedOf EXCEPT ![c] = TRUE]}
    BY <1>9
  <2>4. Lifecycle!Return(c)
    BY <1>8, <2>1, <2>2, <2>3, ContractActions, Zenon
  <2> QED
    BY <1>1, <2>4, OneStep, Zenon DEF Told
<1> QED
  BY <1>6, <1>10, <1>11

LEMMA EndsTold ==
  ASSUME RInv, NEW c \in Conns, NEW t, conn' = [conn EXCEPT ![c] = t],
         Running(conn[c]), Ends(conn[c], t)
  PROVE  Told
<1> DEFINE s == conn[c]
<1>1. \A d \in Conns : Hears(conn'[d]) /\ (conn[d].opened => conn'[d].opened)
  BY OthersHear, EndsHears DEF Ends
<1>2. /\ PhaseOf' = [PhaseOf EXCEPT ![c] = Phase(t)]
      /\ HandlerOf' = [HandlerOf EXCEPT ![c] = Hd(t)]
      /\ CondemnedOf' = [CondemnedOf EXCEPT ![c] = Condemned(t)]
  BY Mirror DEF RInv, IInv
<1>3. PhaseOf[c] = Phase(s) /\ HandlerOf[c] = Hd(s)
  BY Reads_Of, Zenon
<1>4. /\ s.life = "live" /\ s.run # "onclose" /\ (s.run # "idle" => s.opened)
      /\ t.dropping
      /\ s.opened => t.life = "live" /\ t.run = "onclose"
      /\ ~s.opened => t.life = "freed" /\ t.run = "idle"
  BY DEF Running, Hears, Ends
<1>5. Condemned(t) = TRUE
  BY <1>4, CondemnedBoolean DEF Condemned
<1> HIDE DEF s
<1>6. CASE s.opened
  <2>1. Phase(s) = "open" /\ Phase(t) = "ending" /\ Hd(t) = "onclose"
    BY <1>4, <1>6, PhaseFields, HandlerFields
  <2>2. Lifecycle!Notify(c)
    BY <1>2, <1>3, <1>5, <2>1, ContractActions, Zenon
  <2> QED
    BY <1>1, <2>2, OneStep, Zenon DEF Told
<1>7. CASE ~s.opened
  <2>1. Phase(s) = "pending" /\ Phase(t) = "gone" /\ Hd(t) = Hd(s)
    BY <1>4, <1>7, PhaseFields, HandlerFields
  <2>2. HandlerOf' = HandlerOf
    BY <1>2, <1>3, <2>1, WrittenBack, Zenon
  <2>3. Lifecycle!Vanish(c)
    BY <1>2, <1>3, <1>5, <2>1, <2>2, ContractActions, Zenon
  <2> QED
    BY <1>1, <2>3, OneStep, Zenon DEF Told
<1> QED
  BY <1>6, <1>7

LEMMA OpensTold ==
  ASSUME RInv, NEW c \in Conns, NEW t, conn' = [conn EXCEPT ![c] = t],
         Running(conn[c]), Opens(conn[c], t), Hears(t)
  PROVE  Told
<1> DEFINE s == conn[c]
<1>1. \A d \in Conns : Hears(conn'[d]) /\ (conn[d].opened => conn'[d].opened)
  BY OthersHear DEF Opens
<1>2. /\ PhaseOf' = [PhaseOf EXCEPT ![c] = Phase(t)]
      /\ HandlerOf' = [HandlerOf EXCEPT ![c] = Hd(t)]
      /\ CondemnedOf' = [CondemnedOf EXCEPT ![c] = Condemned(t)]
  BY Mirror DEF RInv, IInv
<1>3. /\ PhaseOf[c] = Phase(s) /\ CondemnedOf[c] = Condemned(s)
  BY Reads_Of, Zenon
<1>4. /\ s.life = "live" /\ s.run # "onclose" /\ ~s.opened /\ ~Condemned(s)
      /\ t.life = "live" /\ t.opened /\ t.run = "onopen" /\ ~Condemned(t)
  BY DEF Running, Opens
<1> HIDE DEF s
<1>5. Phase(s) = "pending" /\ Phase(t) = "open" /\ Hd(t) = "onopen"
  BY <1>4, PhaseFields, HandlerFields
<1>6. Condemned(t) = Condemned(s)
  BY <1>4, CondemnedBoolean, Zenon
<1>7. CondemnedOf' = CondemnedOf
  BY <1>2, <1>3, <1>6, WrittenBack, Zenon
<1>8. Lifecycle!Open(c)
  BY <1>2, <1>3, <1>4, <1>5, <1>7, ContractActions, Zenon
<1> QED
  BY <1>1, <1>8, OneStep, Zenon DEF Told

LEMMA HearsMessageTold ==
  ASSUME RInv, NEW c \in Conns, NEW t, conn' = [conn EXCEPT ![c] = t],
         Running(conn[c]), HearsMessage(conn[c], t), Hears(t)
  PROVE  Told
<1> DEFINE s == conn[c]
<1>1. \A d \in Conns : Hears(conn'[d]) /\ (conn[d].opened => conn'[d].opened)
  BY OthersHear DEF HearsMessage
<1>2. /\ PhaseOf' = [PhaseOf EXCEPT ![c] = Phase(t)]
      /\ HandlerOf' = [HandlerOf EXCEPT ![c] = Hd(t)]
      /\ CondemnedOf' = [CondemnedOf EXCEPT ![c] = Condemned(t)]
  BY Mirror DEF RInv, IInv
<1>3. /\ PhaseOf[c] = Phase(s) /\ HandlerOf[c] = Hd(s)
      /\ CondemnedOf[c] = Condemned(s)
  BY Reads_Of, Zenon
<1>4. /\ s.life = "live" /\ s.run = "ingest" /\ s.opened /\ ~Condemned(s)
      /\ t.life = "live" /\ t.opened /\ t.run = "onmessage" /\ ~Condemned(t)
  BY DEF Running, HearsMessage
<1> HIDE DEF s
<1>5. /\ Phase(s) = "open" /\ Phase(t) = "open"
      /\ Hd(s) = "idle" /\ Hd(t) = "onmessage"
  BY <1>4, PhaseFields, HandlerFields
<1>6. Condemned(t) = Condemned(s)
  BY <1>4, CondemnedBoolean, Zenon
<1>7. CondemnedOf' = CondemnedOf /\ PhaseOf' = PhaseOf
  BY <1>2, <1>3, <1>5, <1>6, WrittenBack, Zenon
<1>8. Lifecycle!Message(c)
  BY <1>2, <1>3, <1>4, <1>5, <1>7, ContractActions, Zenon
<1> QED
  BY <1>1, <1>8, OneStep, Zenon DEF Told

LEMMA MovesTold ==
  ASSUME RInv, NEW c \in Conns, NEW t, Commit(c, t),
         Running(conn[c]), Hears(t), Moves(conn[c], t)
  PROVE  Told
  BY GoesOnTold, EndsTold, Zenon DEF Commit, Moves

-----------------------------------------------------------------------------
(* The actions.                                                            *)

LEMMA ReadyFree ==
  ASSUME RInv, NEW c \in Conns, conn[c].userData, conn[c].run = "idle"
  PROVE  Free(conn[c]) /\ Hears(conn[c]) /\ Running(conn[c])
<1>1. /\ conn[c] \in Good /\ conn[c].life = "live" /\ ~conn[c].dropping
      /\ Hears(conn[c]) /\ Lawful(conn[c])
  BY ReadyLive, GoodFields DEF RInv
<1> QED
  BY <1>1 DEF Free, Running, Lawful

LEMMA DeliveryRunning ==
  ASSUME RInv, NEW c \in Conns,
         conn[c].run \in {"ingest", "onopen", "onmessage", "onpost"}
  PROVE  /\ Running(conn[c]) /\ conn[c].run # "idle"
         /\ conn[c] \in ConnRec /\ conn[c].inDelivery
  BY RunningLive DEF RInv, Running

LEMMA HandshakeDataTold ==
  ASSUME RInv, NEW c \in Conns, HandshakeData(c) PROVE Told
<1>1. /\ conn[c].userData /\ conn[c].run = "idle"
      /\ conn[c].state = "handshake" /\ ~conn[c].dropPending
  BY DEF HandshakeData, Ready
<1>2. Free(conn[c]) /\ Hears(conn[c]) /\ Running(conn[c])
  BY <1>1, ReadyFree
<1>3. PICK e \in SendResults(conn[c]) :
        \/ Commit(c, Refuse(conn[c], e))
        \/ Commit(c, Answer(conn[c], e))
        \/ \E left \in Reads \union {<<>>} :
             Commit(c, Upgrade(conn[c], e, left))
  BY Zenon DEF HandshakeData
<1>4. e \in Results
  BY SendResultsKnown
<1>5. CASE Commit(c, Refuse(conn[c], e))
  BY <1>2, <1>4, <1>5, RefuseMoves, MovesTold, Zenon
<1>6. CASE Commit(c, Answer(conn[c], e))
  BY <1>1, <1>2, <1>4, <1>6, AnswerMoves, MovesTold, Zenon
<1>7. CASE \E left \in Reads \union {<<>>} :
             Commit(c, Upgrade(conn[c], e, left))
  <2>1. PICK left \in Reads \union {<<>>} :
               Commit(c, Upgrade(conn[c], e, left))
    BY <1>7
  <2>2. <<>> \in Seq(FrameKinds)
    OBVIOUS
  <2>3. left \in Seq(FrameKinds)
    BY <2>2, ReadsTyped
  <2> DEFINE t == Upgrade(conn[c], e, left)
  <2>4. Hears(t) /\ (Moves(conn[c], t) \/ Opens(conn[c], t))
    BY <1>1, <1>2, <1>4, <2>3, UpgradeMoves
  <2>5. conn' = [conn EXCEPT ![c] = t]
    BY <2>1, Zenon DEF Commit
  <2>6. Commit(c, t)
    BY <2>1
  <2> HIDE DEF t
  <2> QED
    BY <1>2, <2>4, <2>5, <2>6, MovesTold, OpensTold
<1> QED
  BY <1>3, <1>5, <1>6, <1>7

LEMMA HandleDataTold ==
  ASSUME RInv, NEW c \in Conns, HandleData(c) PROVE Told
<1> DEFINE s == conn[c]
           a == NoteActivity(s)
<1>1. /\ s.userData /\ s.run = "idle" /\ s.state # "handshake" /\ ~s.faulted
  BY DEF HandleData, Ready
<1>2. Free(s) /\ Hears(s) /\ Running(s)
  BY <1>1, ReadyFree
<1>3. PICK frames \in Reads :
        Commit(c, [StartIngest(a, frames) EXCEPT !.reads = @ + 1])
  BY Zenon DEF HandleData
<1>4. frames \in Seq(FrameKinds)
  BY ReadsTyped
<1> DEFINE i == StartIngest(a, frames)
           r == [i EXCEPT !.reads = i.reads + 1]
<1>5. Commit(c, r)
  BY <1>3, Zenon
<1> HIDE DEF s
<1>6. /\ s \in ConnRec /\ s.life = "live" /\ s.opened /\ ~s.dropping
      /\ s.run = "idle"
  BY <1>1, <1>2, FreeFields
<1>7. s.dropPending => Deaf(s)
  BY <1>1, <1>2, <1>6 DEF Hears
<1>8. a \in ConnRec /\ Plain(s, a)
  BY <1>6, NoteActivityTyped, NoteActivityPlain
<1> HIDE DEF a
<1>9. /\ a.life = "live" /\ a.opened /\ ~a.dropping /\ ~a.faulted
      /\ (a.dropPending => Deaf(a)) /\ (Condemned(s) => Condemned(a))
  BY <1>1, <1>6, <1>7, <1>8 DEF Plain, Flags, Alike, Deaf, Condemned
<1>10. /\ i \in ConnRec /\ Hears(i) /\ i.life = "live" /\ i.opened
       /\ i.run = "ingest" /\ (Condemned(a) => Condemned(i))
  BY <1>4, <1>8, <1>9, StartIngestMoves, StartIngestTyped
<1> HIDE DEF i
<1>11. /\ r.life = i.life /\ r.run = i.run /\ r.opened = i.opened
       /\ r.dropping = i.dropping /\ r.inDelivery = i.inDelivery
       /\ r.dropDeferred = i.dropDeferred /\ r.dropPending = i.dropPending
       /\ r.faulted = i.faulted /\ r.failed = i.failed
       /\ r.closeRecv = i.closeRecv /\ r.todo = i.todo
  BY <1>10 DEF ConnRec
<1> HIDE DEF r
<1>12. Hears(r) /\ (Condemned(i) <=> Condemned(r))
  BY <1>10, <1>11 DEF Hears, Condemned, Deaf
<1>13. Moves(s, r)
  BY <1>6, <1>9, <1>10, <1>11, <1>12 DEF Moves, GoesOn
<1> USE DEF s
<1> QED
  BY <1>2, <1>5, <1>12, <1>13, MovesTold, Zenon

LEMMA IngestFrameTold ==
  ASSUME RInv, NEW c \in Conns, IngestFrame(c) PROVE Told
<1> DEFINE s == conn[c]
           f == Head(s.todo)
           t == ParseFrame(s, f)
           r == [t EXCEPT !.todo = IF Deaf(t) THEN <<>> ELSE Tail(t.todo)]
<1>1. s.run = "ingest" /\ s.todo # <<>> /\ Commit(c, r)
  BY Zenon DEF IngestFrame
<1>2. Running(s) /\ s \in ConnRec
  BY <1>1, DeliveryRunning
<1>3. f \in FrameKinds
  <2>1. s.todo \in Seq(FrameKinds)
    BY <1>2 DEF ConnRec
  <2> QED
    BY <1>1, <2>1
<1>4. Hears(r) /\ (Moves(s, r) \/ HearsMessage(s, r))
  <2> HIDE DEF s, f
  <2> QED
    BY <1>1, <1>2, <1>3, ParseFrameMoves, Zenon
<1>5. conn' = [conn EXCEPT ![c] = r]
  BY <1>1, Zenon DEF Commit
<1> HIDE DEF r
<1> QED
  BY <1>1, <1>2, <1>4, <1>5, MovesTold, HearsMessageTold, Zenon

LEMMA IngestEndTold ==
  ASSUME RInv, NEW c \in Conns, IngestEnd(c) PROVE Told
<1>1. conn[c].run = "ingest"
  BY DEF IngestEnd
<1>2. Running(conn[c])
  BY <1>1, DeliveryRunning
<1>3. PICK e \in SendResults(conn[c]) : Commit(c, IngestDone(conn[c], e))
  BY Zenon DEF IngestEnd
<1>4. e \in Results
  BY SendResultsKnown
<1> QED
  BY <1>1, <1>2, <1>3, <1>4, IngestDoneMoves, MovesTold, Zenon

LEMMA HandleSendReadyTold ==
  ASSUME RInv, NEW c \in Conns, HandleSendReady(c) PROVE Told
<1>1. conn[c].userData /\ conn[c].run = "idle"
  BY DEF HandleSendReady, Ready
<1>2. Free(conn[c]) /\ Hears(conn[c]) /\ Running(conn[c])
  BY <1>1, ReadyFree
<1>3. PICK e \in SendResults(conn[c]) : Commit(c, SendReady(conn[c], e))
  BY Zenon DEF HandleSendReady
<1>4. e \in Results
  BY SendResultsKnown
<1> QED
  BY <1>2, <1>3, <1>4, SendReadyMoves, MovesTold, Zenon

LEMMA HandleClosedTold ==
  ASSUME RInv, NEW c \in Conns, HandleClosed(c) PROVE Told
<1> DEFINE s == conn[c]
           t == [s EXCEPT !.userData = FALSE, !.dropping = TRUE, !.tport = "dead"]
<1>1. s.userData /\ s.run = "idle" /\ Commit(c, ReleaseConn(t))
  BY DEF HandleClosed, Ready
<1>2. Free(s) /\ Running(s)
  BY <1>1, ReadyFree
<1> HIDE DEF s
<1>3. s \in ConnRec /\ s.life = "live" /\ (s.opened <=> s.state # "handshake")
  BY <1>2, FreeFields
<1>4. /\ t \in ConnRec /\ t.life = s.life /\ t.opened = s.opened
      /\ t.state = s.state /\ t.dropping
  BY <1>3 DEF ConnRec
<1> HIDE DEF t
<1>5. Ends(t, ReleaseConn(t))
  BY <1>3, <1>4, ReleaseConnEnds
<1>6. Ends(s, ReleaseConn(t))
  BY <1>4, <1>5 DEF Ends
<1>7. Hears(ReleaseConn(t))
  BY <1>6, EndsHears
<1> USE DEF s
<1> QED
  BY <1>1, <1>2, <1>6, <1>7, MovesTold, Zenon DEF Moves

(* A call by a handler, counted.                                           *)
LEMMA CallPlain ==
  \A s \in ConnRec : [s EXCEPT !.calls = s.calls + 1] \in ConnRec
                     /\ Plain(s, [s EXCEPT !.calls = s.calls + 1])
<1> TAKE s \in ConnRec
<1>1. Flags(s, [s EXCEPT !.calls = s.calls + 1])
  BY DEF Flags, ConnRec
<1>2. \A n \in ConnRec : Alike(n, [n EXCEPT !.calls = n.calls + 1])
  <2> TAKE n \in ConnRec
  <2> QED
    BY ZenonT(30) DEF Alike, ConnRec
<1> QED
  BY <1>1, <1>2, CallTyped, Zenon DEF Plain

LEMMA SendDataTold ==
  ASSUME RInv, NEW c \in Conns, SendData(c) PROVE Told
<1> DEFINE s == [conn[c] EXCEPT !.calls = conn[c].calls + 1]
<1>1. conn[c].run \in {"ingest", "onopen", "onmessage", "onpost"}
  BY DEF SendData, Calling, InHandler
<1>2. Running(conn[c]) /\ conn[c] \in ConnRec /\ conn[c].inDelivery
  BY <1>1, DeliveryRunning
<1>3. s \in ConnRec /\ Plain(conn[c], s)
  BY <1>2, CallPlain, Zenon
<1>4. PICK e \in SendResults(s) :
        Commit(c, QueuedSend(s, e)) \/ Commit(c, DirectSend(s, e))
  BY Zenon DEF SendData
<1> HIDE DEF s
<1>5. e \in Results /\ s.inDelivery
  BY <1>2, <1>3, SendResultsKnown DEF Plain, Alike
<1>6. Deferred(s, QueuedSend(s, e)) /\ Deferred(s, DirectSend(s, e))
  BY <1>3, <1>5, QueuedSendDefers, DirectSendDefers
<1>7. /\ Deferred(conn[c], QueuedSend(s, e))
      /\ Deferred(conn[c], DirectSend(s, e))
  BY <1>3, <1>6, PlainTrans, Zenon
<1> QED
  BY <1>2, <1>4, <1>7, DeferredMoves, MovesTold, Zenon

LEMMA CloseTold ==
  ASSUME RInv, NEW c \in Conns, Close(c) PROVE Told
<1> DEFINE s == [conn[c] EXCEPT !.calls = conn[c].calls + 1]
<1>1. conn[c].run \in {"ingest", "onopen", "onmessage", "onpost"}
  BY DEF Close, Calling, InHandler
<1>2. Running(conn[c]) /\ conn[c] \in ConnRec /\ conn[c].inDelivery
  BY <1>1, DeliveryRunning
<1>3. s \in ConnRec /\ Plain(conn[c], s)
  BY <1>2, CallPlain, Zenon
<1>4. s.state = "open"
  BY Zenon DEF Close
<1>5. PICK e \in SendResults(s) : Commit(c, CloseCall(s, e))
  BY Zenon DEF Close
<1> HIDE DEF s
<1>6. e \in Results /\ s.inDelivery
  BY <1>2, <1>3, SendResultsKnown DEF Plain, Alike
<1>7. Deferred(s, CloseCall(s, e))
  BY <1>3, <1>4, <1>6, CloseCallDefers
<1>8. Deferred(conn[c], CloseCall(s, e))
  BY <1>3, <1>7, PlainTrans, Zenon
<1> QED
  BY <1>2, <1>5, <1>8, DeferredMoves, MovesTold, Zenon

LEMMA HandlerReturnsTold ==
  ASSUME RInv, NEW c \in Conns, HandlerReturns(c) PROVE Told
<1> DEFINE s == conn[c]
           m == [s EXCEPT !.run = "ingest"]
<1>1. s.run \in {"onopen", "onmessage", "onpost"}
  BY DEF HandlerReturns, InHandler
<1>2. Running(s) /\ s.run # "idle" /\ s \in ConnRec
  BY <1>1, DeliveryRunning
<1>3. PICK e \in SendResults(s) :
        Commit(c, CASE s.run = "onmessage" -> m
                    [] s.run = "onopen" -> AfterOpen(s, e)
                    [] s.run = "onpost" -> Settled(s, e))
  BY Zenon DEF HandlerReturns
<1>4. e \in Results
  BY SendResultsKnown
<1>5. CASE s.run = "onmessage"
  <2>1. Commit(c, m)
    BY <1>3, <1>5
  <2>2. Hears(m) /\ Moves(s, m)
    <3> HIDE DEF s
    <3>1. /\ m.life = s.life /\ m.run = "ingest" /\ m.opened = s.opened
          /\ m.dropping = s.dropping /\ m.inDelivery = s.inDelivery
          /\ m.dropDeferred = s.dropDeferred /\ m.dropPending = s.dropPending
          /\ m.faulted = s.faulted /\ m.failed = s.failed
          /\ m.closeRecv = s.closeRecv /\ m.todo = s.todo
      BY <1>2 DEF ConnRec
    <3> HIDE DEF m
    <3>2. Condemned(m) <=> Condemned(s)
      BY <3>1 DEF Condemned, Deaf
    <3>3. Hears(m)
      BY <1>2, <1>5, <3>1, <3>2 DEF Running, Hears, Deaf
    <3>4. GoesOn(s, m)
      BY <1>2, <3>1, <3>2 DEF Running, GoesOn
    <3> QED
      BY <3>3, <3>4 DEF Moves
  <2> QED
    BY <1>2, <2>1, <2>2, MovesTold, Zenon
<1>6. CASE s.run = "onopen"
  <2>1. Commit(c, AfterOpen(s, e))
    BY <1>3, <1>6
  <2> QED
    BY <1>2, <1>4, <1>6, <2>1, AfterOpenMoves, MovesTold, Zenon
<1>7. CASE s.run = "onpost"
  <2>1. Commit(c, Settled(s, e))
    BY <1>3, <1>7
  <2> QED
    BY <1>2, <1>4, <2>1, SettledMoves, MovesTold, Zenon
<1> QED
  BY <1>1, <1>5, <1>6, <1>7

LEMMA HandlerRaisesTold ==
  ASSUME RInv, NEW c \in Conns, HandlerRaises(c) PROVE Told
<1> DEFINE s == [HandlerRaised(conn[c]) EXCEPT !.todo = <<>>]
<1>1. conn[c].run \in {"ingest", "onopen", "onmessage", "onpost"}
  BY DEF HandlerRaises, InHandler
<1>2. Running(conn[c]) /\ conn[c].run # "idle"
  BY <1>1, DeliveryRunning
<1>3. PICK e \in SendResults(s) : Commit(c, Settled(s, e))
  BY Zenon DEF HandlerRaises
<1>4. e \in Results
  BY SendResultsKnown
<1>5. Hears(Settled(s, e)) /\ Moves(conn[c], Settled(s, e))
  BY <1>2, <1>4, RaisedMoves, Zenon
<1> QED
  BY <1>2, <1>3, <1>5, MovesTold, Zenon

LEMMA AcceptTold ==
  ASSUME RInv, NEW c \in Conns, Accept(c) PROVE Told
<1> DEFINE s == conn[c]
           n == [NoConn EXCEPT !.life = "live", !.tport = "open",
                               !.userData = TRUE]
           a == ArmDeadline(n, HandshakeTimeout)
           r == [s EXCEPT !.tport = "closed"]
<1>1. s.life = "none" /\ conn \in [Conns -> ConnRec] /\ s \in ConnRec
  BY DEF Accept, RInv, IInv, TypeOK
<1>2. s.run = "idle" /\ ~s.opened /\ ~s.dropping /\ ~Condemned(s)
  BY <1>1 DEF RInv, IInv, SessionsLawful, Untouched, Hears
<1>3. CASE Full
  <2>1. conn' = [conn EXCEPT ![c] = r]
    BY <1>3, Zenon DEF Accept
  <2> HIDE DEF s
  <2>2. /\ r.life = s.life /\ r.run = s.run /\ r.opened = s.opened
        /\ r.dropping = s.dropping /\ r.dropDeferred = s.dropDeferred
        /\ r.dropPending = s.dropPending /\ r.faulted = s.faulted
        /\ r.failed = s.failed /\ r.closeRecv = s.closeRecv
    BY <1>1 DEF ConnRec
  <2> HIDE DEF r
  <2>3. ~Condemned(r)
    BY <1>2, <2>2 DEF Condemned, Deaf
  <2>4. Hears(r)
    BY <1>1, <2>2, <2>3 DEF Hears
  <2>5. Phase(r) = Phase(s) /\ Hd(r) = Hd(s) /\ Condemned(r) = Condemned(s)
    <3>1. Phase(r) = Phase(s)
      BY <1>1, <2>2, PhaseFields
    <3>2. Hd(r) = Hd(s)
      BY <1>2, <2>2, HandlerFields
    <3>3. Condemned(r) = Condemned(s)
      BY <1>2, <2>3, CondemnedBoolean, Zenon
    <3> QED
      BY <3>1, <3>2, <3>3
  <2>6. PhaseOf' = PhaseOf /\ HandlerOf' = HandlerOf /\ CondemnedOf' = CondemnedOf
    <3>1. /\ PhaseOf' = [PhaseOf EXCEPT ![c] = Phase(r)]
          /\ HandlerOf' = [HandlerOf EXCEPT ![c] = Hd(r)]
          /\ CondemnedOf' = [CondemnedOf EXCEPT ![c] = Condemned(r)]
      BY <2>1, Mirror DEF RInv, IInv
    <3>2. /\ PhaseOf[c] = Phase(s) /\ HandlerOf[c] = Hd(s)
          /\ CondemnedOf[c] = Condemned(s)
      BY Reads_Of, Zenon DEF s
    <3> QED
      BY <2>5, <3>1, <3>2, WrittenBack, Zenon
  <2>7. Lifecycle!vars' = Lifecycle!vars
    BY <2>6, Unseen
  <2>8. \A d \in Conns : Hears(conn'[d]) /\ (conn[d].opened => conn'[d].opened)
    BY <1>2, <2>1, <2>4, OthersHear DEF s
  <2> QED
    BY <2>7, <2>8, Zenon DEF Told
<1>4. CASE ~Full
  <2>1. conn' = [conn EXCEPT ![c] = a]
    BY <1>4, Zenon DEF Accept
  <2>2. /\ n \in ConnRec /\ n.life = "live" /\ n.run = "idle" /\ ~n.opened
        /\ ~n.dropping /\ ~n.inDelivery /\ ~n.dropDeferred /\ ~n.dropPending
        /\ ~n.faulted /\ ~n.failed /\ ~n.closeRecv
    <3> DEFINE z == NoConn
    <3>1. /\ z \in ConnRec /\ z.run = "idle" /\ ~z.opened
          /\ ~z.dropping /\ ~z.inDelivery /\ ~z.dropDeferred /\ ~z.dropPending
          /\ ~z.faulted /\ ~z.failed /\ ~z.closeRecv
      BY NoConnTyped DEF NoConn
    <3>2. n = [z EXCEPT !.life = "live", !.tport = "open", !.userData = TRUE]
      OBVIOUS
    <3> HIDE DEF z, n
    <3> QED
      BY <3>1, <3>2 DEF ConnRec
  <2> HIDE DEF n
  <2>3. Plain(n, a)
    <3>1. HandshakeTimeout \in Nat
      BY DEF ServerAssumption
    <3> QED
      BY <2>2, <3>1, ArmDeadlinePlain
  <2> HIDE DEF a
  <2>4. /\ a.life = "live" /\ a.run = "idle" /\ ~a.opened
        /\ ~a.dropping /\ ~a.inDelivery /\ ~a.dropDeferred /\ ~a.dropPending
        /\ ~a.faulted /\ ~a.failed /\ ~a.closeRecv
    BY <2>2, <2>3 DEF Plain, Flags, Alike
  <2>5. Hears(a) /\ ~Condemned(a)
    BY <2>4 DEF Hears, Condemned, Deaf
  <2>6. /\ PhaseOf' = [PhaseOf EXCEPT ![c] = Phase(a)]
        /\ HandlerOf' = [HandlerOf EXCEPT ![c] = Hd(a)]
        /\ CondemnedOf' = [CondemnedOf EXCEPT ![c] = Condemned(a)]
    BY <2>1, Mirror DEF RInv, IInv
  <2>7. /\ PhaseOf[c] = Phase(s) /\ HandlerOf[c] = Hd(s)
        /\ CondemnedOf[c] = Condemned(s)
    BY Reads_Of, Zenon
  <2>8. \A d \in Conns : Hears(conn'[d]) /\ (conn[d].opened => conn'[d].opened)
    BY <1>2, <2>1, <2>5, OthersHear
  <2> HIDE DEF s
  <2>9. Phase(s) = "none" /\ Phase(a) = "pending" /\ Hd(s) = Hd(a)
    BY <1>1, <1>2, <2>4, PhaseFields, HandlerFields
  <2>10. Condemned(a) = Condemned(s)
    BY <1>2, <2>5, CondemnedBoolean, Zenon
  <2>11. HandlerOf' = HandlerOf /\ CondemnedOf' = CondemnedOf
    BY <2>6, <2>7, <2>9, <2>10, WrittenBack, Zenon
  <2>12. Lifecycle!Connect(c)
    BY <2>6, <2>7, <2>9, <2>11, ContractActions, Zenon
  <2> QED
    BY <2>8, <2>12, OneStep, Zenon DEF Told
<1> QED
  BY <1>3, <1>4

LEMMA CloseReturnsTold ==
  ASSUME RInv, NEW c \in Conns, CloseReturns(c) PROVE Told
<1> DEFINE s == conn[c]
           t == Freed(s)
<1>1. s.run = "onclose" /\ conn' = [conn EXCEPT ![c] = t]
  BY DEF CloseReturns, Commit
<1>2. s \in ConnRec /\ s.life = "live" /\ s.dropping
  BY <1>1, RunningLive, GoodFields DEF RInv, Lawful
<1>3. PhaseOf[c] = Phase(s) /\ CondemnedOf[c] = Condemned(s)
  BY Reads_Of, Zenon
<1>4. /\ t.life = "freed" /\ t.run = "idle" /\ t.dropping /\ t.opened = s.opened
  <2> HIDE DEF s
  <2> QED
    BY <1>2, FreedFields
<1> HIDE DEF t
<1>5. Hears(t)
  BY <1>4 DEF Hears
<1>6. \A d \in Conns : Hears(conn'[d]) /\ (conn[d].opened => conn'[d].opened)
  BY <1>1, <1>4, <1>5, OthersHear
<1>7. /\ PhaseOf' = [PhaseOf EXCEPT ![c] = Phase(t)]
      /\ HandlerOf' = [HandlerOf EXCEPT ![c] = Hd(t)]
      /\ CondemnedOf' = [CondemnedOf EXCEPT ![c] = Condemned(t)]
  BY <1>1, Mirror DEF RInv, IInv
<1> HIDE DEF s
<1>8. Phase(s) = "ending" /\ Phase(t) = "gone" /\ Hd(t) = "idle"
  BY <1>1, <1>2, <1>4, PhaseFields, HandlerFields
<1>9. Condemned(t) = Condemned(s)
  BY <1>2, <1>4, CondemnedBoolean DEF Condemned
<1>10. CondemnedOf' = CondemnedOf
  BY <1>3, <1>7, <1>9, WrittenBack, Zenon
<1>11. Lifecycle!Release(c)
  BY <1>3, <1>7, <1>8, <1>10, ContractActions, Zenon
<1> QED
  BY <1>6, <1>11, OneStep, Zenon DEF Told

(* Steps that write only clocks, bookkeeping and queues.                   *)
LEMMA PlainTold ==
  ASSUME RInv, \A d \in Conns : Plain(conn[d], conn'[d]) PROVE Told
<1>1. \A s, t : Plain(s, t) =>
        /\ t.life = s.life /\ t.run = s.run /\ t.opened = s.opened
        /\ t.dropping = s.dropping /\ t.inDelivery = s.inDelivery
        /\ t.dropDeferred = s.dropDeferred /\ t.dropPending = s.dropPending
        /\ t.faulted = s.faulted /\ t.failed = s.failed
        /\ t.closeRecv = s.closeRecv /\ t.todo = s.todo
  BY DEF Plain, Flags, Alike
<1>2. \A s, t : Plain(s, t) =>
        /\ Hears(s) => Hears(t)
        /\ Phase(t) = Phase(s) /\ Hd(t) = Hd(s)
        /\ Condemned(t) <=> Condemned(s)
  <2> SUFFICES ASSUME NEW s, NEW t, Plain(s, t)
               PROVE  /\ Hears(s) => Hears(t)
                      /\ Phase(t) = Phase(s) /\ Hd(t) = Hd(s)
                      /\ Condemned(t) <=> Condemned(s)
    OBVIOUS
  <2>1. Condemned(t) <=> Condemned(s)
    BY <1>1 DEF Condemned, Deaf
  <2>2. Hears(s) => Hears(t)
    BY <1>1, <2>1 DEF Hears, Deaf
  <2>3. Phase(t) = Phase(s)
    <3>1. t.life = s.life /\ t.run = s.run /\ (t.opened = s.opened)
      BY <1>1
    <3> QED
      BY <3>1 DEF Phase
  <2>4. Hd(t) = Hd(s)
    BY <1>1, Zenon DEF Hd
  <2> QED
    BY <2>1, <2>2, <2>3, <2>4
<1>3. \A d \in Conns : Hears(conn'[d]) /\ (conn[d].opened => conn'[d].opened)
  BY <1>1, <1>2 DEF RInv
<1>4. \A d \in Conns : /\ Phase(conn'[d]) = Phase(conn[d])
                       /\ Hd(conn'[d]) = Hd(conn[d])
                       /\ Condemned(conn'[d]) = Condemned(conn[d])
  BY <1>2, CondemnedBoolean, Zenon
<1>5. PhaseOf' = PhaseOf
  <2>1. PhaseOf' = [d \in Conns |-> Phase(conn'[d])]
        /\ PhaseOf = [d \in Conns |-> Phase(conn[d])]
    BY Zenon DEF PhaseOf
  <2> QED
    BY <1>4, <2>1
<1>6. HandlerOf' = HandlerOf
  <2>1. HandlerOf' = [d \in Conns |-> Hd(conn'[d])]
        /\ HandlerOf = [d \in Conns |-> Hd(conn[d])]
    BY Zenon DEF HandlerOf, Hd
  <2> QED
    BY <1>4, <2>1
<1>7. CondemnedOf' = CondemnedOf
  <2>1. CondemnedOf' = [d \in Conns |-> Condemned(conn'[d])]
        /\ CondemnedOf = [d \in Conns |-> Condemned(conn[d])]
    BY Zenon DEF CondemnedOf
  <2> QED
    BY <1>4, <2>1
<1> QED
  BY <1>3, <1>5, <1>6, <1>7, Unseen DEF Told

LEMMA QuietTold == ASSUME RInv, UNCHANGED conn PROVE Told
<1>1. \A d \in Conns : Plain(conn[d], conn'[d])
  BY PlainTrans
<1> QED
  BY <1>1, PlainTold

LEMMA PostChecksTold == ASSUME RInv, NEW cs, PostChecks(cs) PROVE Told
<1>1. \A s \in ConnRec : Plain(s, [s EXCEPT !.sweepPosted = TRUE]) /\ Plain(s, s)
  <2> TAKE s \in ConnRec
  <2>1. \A n \in ConnRec : Alike(n, [n EXCEPT !.sweepPosted = TRUE])
    <3> TAKE n \in ConnRec
    <3> QED
      BY ZenonT(30) DEF Alike, ConnRec
  <2>2. Flags(s, [s EXCEPT !.sweepPosted = TRUE])
    BY DEF Flags, ConnRec
  <2> QED
    BY <2>1, <2>2, PlainTrans, Zenon DEF Plain
<1>2. \A c \in Conns : conn[c] \in ConnRec
  BY DEF RInv, IInv, TypeOK
<1>3. \A c \in Conns : Plain(conn[c], conn'[c])
  BY <1>1, <1>2, Zenon DEF PostChecks
<1> QED
  BY <1>3, PlainTold

LEMMA TickTold == ASSUME RInv, Tick PROVE Told
<1>1. \A s \in ConnRec :
        Plain(s, [s EXCEPT !.deadline = TickDown(s.deadline),
                           !.pingDue = TickDown(s.pingDue),
                           !.sweepAt = TickDown(s.sweepAt),
                           !.asked = TickUp(s.asked)])
  <2> TAKE s \in ConnRec
  <2> DEFINE t == [s EXCEPT !.deadline = TickDown(s.deadline),
                            !.pingDue = TickDown(s.pingDue),
                            !.sweepAt = TickDown(s.sweepAt),
                            !.asked = TickUp(s.asked)]
  <2>1. Alike(s, t)
    BY ZenonT(30) DEF Alike, ConnRec
  <2>2. Flags(s, t)
    BY ZenonT(30) DEF Flags, ConnRec
  <2> QED
    BY <2>1, <2>2, Zenon DEF Plain
<1>2. \A c \in Conns : conn[c] \in ConnRec
  BY DEF RInv, IInv, TypeOK
<1>3. \A c \in Conns : Plain(conn[c], conn'[c])
  BY <1>1, <1>2, Zenon DEF Tick
<1> QED
  BY <1>3, PlainTold

LEMMA DeliverPostTold ==
  ASSUME RInv, NEW c \in Conns, DeliverPost(c) PROVE Told
<1> DEFINE s == conn[c]
<1>1. s.run = "idle" /\ inbox[c] # <<>> /\ inbox[c] \in Seq({"check", "proc"})
  BY DEF DeliverPost, RInv, IInv, TypeOK
<1>2. CASE ~s.userData
  <2>1. UNCHANGED conn
    BY <1>2 DEF DeliverPost
  <2> QED
    BY <2>1, QuietTold
<1>3. CASE s.userData
  <2>1. Free(s) /\ Hears(s) /\ Running(s)
    BY <1>1, <1>3, ReadyFree
  <2>2. CASE Head(inbox[c]) = "check"
    <3>1. PICK e \in SendResults(s) : Commit(c, ClockChecked(s, e))
      BY <1>3, <2>2, Zenon DEF DeliverPost
    <3>2. e \in Results
      BY SendResultsKnown
    <3> QED
      BY <2>1, <3>1, <3>2, ClockCheckedMoves, MovesTold, Zenon
  <2>3. CASE Head(inbox[c]) # "check"
    <3> DEFINE m == [s EXCEPT !.inDelivery = TRUE, !.run = "onpost"]
    <3>1. conn' = [conn EXCEPT ![c] = m]
      BY <1>3, <2>3, Zenon DEF DeliverPost, Commit
    <3>2. s.opened
      <4> DEFINE q == inbox[c]
      <4>1. ProcsOpened
        BY DEF RInv
      <4>2. (\E i \in 1 .. Len(q) : q[i] = "proc") => s.opened
        BY <4>1 DEF ProcsOpened
      <4>3. 1 \in 1 .. Len(q) /\ q[1] = "proc"
        <5> HIDE DEF q
        <5>1. q # <<>> /\ q \in Seq({"check", "proc"}) /\ Head(q) # "check"
          BY <1>1, <2>3 DEF q
        <5> QED
          BY <5>1
      <4> QED
        BY <4>2, <4>3
    <3>3. /\ PhaseOf[c] = Phase(s) /\ HandlerOf[c] = Hd(s)
          /\ CondemnedOf[c] = Condemned(s)
      BY Reads_Of, Zenon
    <3>4. /\ PhaseOf' = [PhaseOf EXCEPT ![c] = Phase(m)]
          /\ HandlerOf' = [HandlerOf EXCEPT ![c] = Hd(m)]
          /\ CondemnedOf' = [CondemnedOf EXCEPT ![c] = Condemned(m)]
      <4> HIDE DEF m
      <4> QED
        BY <3>1, Mirror DEF RInv, IInv
    <3>5. /\ m.life = "live" /\ m.run = "onpost" /\ m.opened = s.opened
          /\ m.dropping = s.dropping /\ m.inDelivery
          /\ m.dropDeferred = s.dropDeferred /\ m.dropPending = s.dropPending
          /\ m.faulted = s.faulted /\ m.failed = s.failed
          /\ m.closeRecv = s.closeRecv /\ m.todo = s.todo
          /\ s.life = "live" /\ ~s.dropping
      <4> HIDE DEF s
      <4> QED
        BY <2>1, FreeFields DEF ConnRec
    <3> HIDE DEF m
    <3>6. Hears(m)
      BY <2>1, <3>2, <3>5 DEF Hears, Deaf
    <3>7. \A d \in Conns : Hears(conn'[d]) /\ (conn[d].opened => conn'[d].opened)
      BY <3>1, <3>5, <3>6, OthersHear
    <3> HIDE DEF s
    <3>8. /\ Phase(s) = "open" /\ Phase(m) = "open"
          /\ Hd(s) = "idle" /\ Hd(m) = "onpost"
      BY <1>1, <3>2, <3>5, PhaseFields, HandlerFields
    <3>9. Condemned(m) = Condemned(s)
      <4>1. Condemned(m) <=> Condemned(s)
        BY <3>5 DEF Condemned, Deaf
      <4> QED
        BY <4>1, CondemnedBoolean, Zenon
    <3>10. CondemnedOf' = CondemnedOf /\ PhaseOf' = PhaseOf
      BY <3>3, <3>4, <3>8, <3>9, WrittenBack, Zenon
    <3>11. Lifecycle!RunPost(c)
      BY <3>3, <3>4, <3>8, <3>10, ContractActions, Zenon
    <3> QED
      BY <3>7, <3>11, OneStep, Zenon DEF Told
  <2> QED
    BY <2>2, <2>3
<1> QED
  BY <1>2, <1>3

(* The next session of those Destroy detached is released.                 *)
LEMMA ReleaseNextTold == ASSUME RInv, ReleaseNext PROVE Told
<1> DEFINE h == Head(leaving)
           r == ReleaseConn(conn[h])
<1>1. leaving \in Seq(Conns) /\ leaving # <<>> /\ conn \in [Conns -> ConnRec]
      /\ conn' = [conn EXCEPT ![h] = r]
  BY DEF RInv, IInv, TypeOK, ReleaseNext
<1>2. h \in Conns /\ h = leaving[1] /\ 1 \in 1 .. Len(leaving)
  BY <1>1
<1>3. /\ conn[h] \in ConnRec /\ conn[h].life = "live" /\ conn[h].dropping
      /\ conn[h].run = "idle" /\ Lawful(conn[h]) /\ Hears(conn[h])
  BY <1>1, <1>2 DEF RInv, IInv, LeavingExact, SessionsLawful
<1> HIDE DEF h
<1>4. Running(conn[h])
  BY <1>3 DEF Running, Good
<1>5. Ends(conn[h], r)
  BY <1>3, ReleaseConnEnds DEF Lawful
<1> QED
  BY <1>1, <1>2, <1>4, <1>5, EndsTold, Zenon

(* Destroy condemns every session that is not being torn down already.     *)
LEMMA DestroyTold == ASSUME RInv, Destroy PROVE Told
<1>1. /\ \A c \in Conns : conn[c] \in ConnRec /\ conn[c].run = "idle"
      /\ registry \in Seq(Conns)
  BY DEF RInv, IInv, TypeOK, Destroy
<1>2. \A c \in Conns : conn'[c] = IF Registered(c) THEN Detach(conn[c])
                                  ELSE conn[c]
  BY DEF Destroy
<1>3. \A c \in Conns : Registered(c) <=> conn[c].life = "live" /\ ~conn[c].dropping
  <2> TAKE c \in Conns
  <2>1. Registered(c) => slot[c] # 0
    BY <1>1 DEF Registered
  <2> QED
    BY <2>1 DEF RInv, IInv, RegistryExact
<1>4. \A s \in ConnRec :
        /\ Detach(s).life = s.life /\ Detach(s).run = s.run
        /\ Detach(s).opened = s.opened /\ Detach(s).dropping
  <2> TAKE s \in ConnRec
  <2> QED
    BY DEF Detach, ConnRec
<1>5. ASSUME NEW c \in Conns
      PROVE  /\ Hears(conn'[c]) /\ (conn[c].opened => conn'[c].opened)
             /\ Phase(conn'[c]) = Phase(conn[c]) /\ Hd(conn'[c]) = Hd(conn[c])
             /\ Condemned(conn'[c])
                  <=> Phase(conn[c]) \in {"pending", "open"} \/ Condemned(conn[c])
  <2> DEFINE s == conn[c]
             t == conn'[c]
  <2>1. s \in ConnRec /\ s.run = "idle" /\ Hears(s)
        /\ s.life \in {"none", "live", "freed"}
    <3>1. s \in ConnRec /\ s.run = "idle" /\ Hears(s)
      BY <1>1 DEF RInv
    <3> HIDE DEF s
    <3> QED
      BY <3>1 DEF ConnRec
  <2>2. CASE Registered(c)
    <3>1. t = Detach(s) /\ s.life = "live"
      BY <1>2, <1>3, <2>2
    <3> HIDE DEF s, t
    <3>2. /\ t.life = "live" /\ t.run = "idle" /\ t.opened = s.opened /\ t.dropping
      BY <1>4, <2>1, <3>1
    <3>3. Hears(t) /\ Condemned(t)
      BY <3>2 DEF Hears, Condemned
    <3>4. Phase(t) = Phase(s) /\ Phase(s) \in {"pending", "open"} /\ Hd(t) = Hd(s)
      BY <2>1, <3>1, <3>2, PhaseFields, HandlerFields
    <3> QED
      BY <3>2, <3>3, <3>4 DEF s, t
  <2>3. CASE ~Registered(c)
    <3>1. t = s
      BY <1>2, <2>3
    <3>2. s.life = "live" => s.dropping
      BY <1>3, <2>3
    <3> HIDE DEF s, t
    <3>3. Phase(s) \in {"pending", "open"} => Condemned(s)
      BY <2>1, <3>2, PhaseFields DEF Condemned
    <3> QED
      BY <2>1, <3>1, <3>3 DEF s, t
  <2> QED
    BY <2>2, <2>3
<1>6. PhaseOf' = PhaseOf
  <2>1. PhaseOf' = [d \in Conns |-> Phase(conn'[d])]
        /\ PhaseOf = [d \in Conns |-> Phase(conn[d])]
    BY Zenon DEF PhaseOf
  <2> QED
    BY <1>5, <2>1
<1>7. HandlerOf' = HandlerOf
  <2>1. HandlerOf' = [d \in Conns |-> Hd(conn'[d])]
        /\ HandlerOf = [d \in Conns |-> Hd(conn[d])]
    BY Zenon DEF HandlerOf, Hd
  <2> QED
    BY <1>5, <2>1
<1>8. CondemnedOf' = [d \in Conns |-> PhaseOf[d] \in {"pending", "open"}
                                        \/ CondemnedOf[d]]
  <2>1. CondemnedOf' = [d \in Conns |-> Condemned(conn'[d])]
    BY Zenon DEF CondemnedOf
  <2>2. \A d \in Conns :
          Condemned(conn'[d]) = (PhaseOf[d] \in {"pending", "open"}
                                   \/ CondemnedOf[d])
    <3> TAKE d \in Conns
    <3>1. PhaseOf[d] = Phase(conn[d]) /\ CondemnedOf[d] = Condemned(conn[d])
      BY Reads_Of, Zenon
    <3>2. Condemned(conn'[d]) <=> (PhaseOf[d] \in {"pending", "open"}
                                     \/ CondemnedOf[d])
      BY <1>5, <3>1
    <3> QED
      BY <3>2, CondemnedBoolean, Zenon
  <2> QED
    BY <2>1, <2>2
<1>9. Lifecycle!Shutdown
  BY <1>6, <1>7, <1>8, Zenon DEF Lifecycle!Shutdown, PhaseOf, HandlerOf, CondemnedOf
<1> QED
  BY <1>5, <1>9, Zenon DEF Told, Lifecycle!Next

-----------------------------------------------------------------------------
(* Posts go to opened sessions.                                            *)

Carries(q) == \E i \in 1 .. Len(q) : q[i] = "proc"

LEMMA CarriesFields ==
  \A q \in Seq({"check", "proc"}) :
    /\ q # <<>> => (Carries(Tail(q)) => Carries(q))
    /\ Carries(Append(q, "check")) => Carries(q)
    /\ ~Carries(<<>>)
<1> TAKE q \in Seq({"check", "proc"})
<1>1. ASSUME q # <<>>, Carries(Tail(q)) PROVE Carries(q)
  <2>1. PICK i \in 1 .. Len(Tail(q)) : Tail(q)[i] = "proc"
    BY <1>1 DEF Carries
  <2>2. i + 1 \in 1 .. Len(q) /\ q[i + 1] = "proc"
    BY <1>1, <2>1
  <2> QED
    BY <2>2 DEF Carries
<1>2. ASSUME Carries(Append(q, "check")) PROVE Carries(q)
  <2>1. PICK i \in 1 .. Len(Append(q, "check")) : Append(q, "check")[i] = "proc"
    BY <1>2 DEF Carries
  <2>2. i \in 1 .. Len(q) /\ q[i] = "proc"
    BY <2>1
  <2> QED
    BY <2>2 DEF Carries
<1>3. ~Carries(<<>>)
  BY DEF Carries
<1> QED
  BY <1>1, <1>2, <1>3

LEMMA ProcsKept ==
  ASSUME RInv,
         \A d \in Conns : conn[d].opened => conn'[d].opened,
         \A d \in Conns : Carries(inbox'[d]) => Carries(inbox[d]) \/ conn[d].opened,
         \A t \in Threads : poster'[t] # Nobody =>
           \/ poster'[t] = poster[t]
           \/ poster'[t] \in Conns /\ conn[poster'[t]].opened
  PROVE  ProcsOpened'
<1>1. \A d \in Conns : Carries(inbox[d]) => conn[d].opened
  BY DEF RInv, ProcsOpened, Carries
<1>2. \A t \in Threads : poster[t] # Nobody =>
        poster[t] \in Conns /\ conn[poster[t]].opened
  BY DEF RInv, IInv, TypeOK, ProcsOpened
<1>3. \A d \in Conns : Carries(inbox'[d]) => conn'[d].opened
  BY <1>1
<1>4. \A t \in Threads : poster'[t] # Nobody => conn'[poster'[t]].opened
  BY <1>2
<1> QED
  BY <1>3, <1>4 DEF ProcsOpened, Carries

LEMMA ProcsStep == ASSUME RInv, Told, [Next]_vars PROVE ProcsOpened'
<1>1. \A d \in Conns : conn[d].opened => conn'[d].opened
  BY DEF Told
<1>2. inbox \in [Conns -> Seq({"check", "proc"})]
      /\ poster \in [Threads -> Conns \union {Nobody}]
  BY DEF RInv, IInv, TypeOK
<1>3. ASSUME UNCHANGED <<inbox, poster>> PROVE ProcsOpened'
  BY <1>1, <1>3, ProcsKept
<1>4. ASSUME NEW c \in Conns,
             \/ Accept(c) \/ HandshakeData(c) \/ HandleData(c)
             \/ IngestFrame(c) \/ IngestEnd(c) \/ HandleSendReady(c)
             \/ HandleClosed(c) \/ SendData(c) \/ Close(c)
             \/ HandlerReturns(c) \/ HandlerRaises(c) \/ CloseReturns(c)
      PROVE  ProcsOpened'
  <2>1. UNCHANGED <<inbox, poster>>
    BY <1>4, Zenon DEF Accept, HandshakeData, HandleData, IngestFrame, IngestEnd,
       HandleSendReady, HandleClosed, SendData, Close, HandlerReturns,
       HandlerRaises, CloseReturns
  <2> QED
    BY <1>3, <2>1
<1>5. ASSUME NEW c \in Conns, DeliverPost(c) PROVE ProcsOpened'
  <2>1. /\ inbox[c] # <<>> /\ inbox' = [inbox EXCEPT ![c] = Tail(inbox[c])]
        /\ UNCHANGED poster
    BY <1>5 DEF DeliverPost
  <2>2. \A d \in Conns : Carries(inbox'[d]) => Carries(inbox[d])
    <3> TAKE d \in Conns
    <3>1. CASE d = c
      BY <1>2, <2>1, <3>1, CarriesFields
    <3>2. CASE d # c
      <4>1. inbox'[d] = inbox[d]
        BY <1>2, <2>1, <3>2
      <4> QED
        BY <4>1
    <3> QED
      BY <3>1, <3>2
  <2> QED
    BY <1>1, <2>1, <2>2, ProcsKept
<1>6. ASSUME NEW cs, PostChecks(cs) PROVE ProcsOpened'
  <2>1. /\ \A d \in Conns : inbox'[d] = IF d \in cs THEN Append(inbox[d], "check")
                                        ELSE inbox[d]
        /\ UNCHANGED poster
    BY <1>6 DEF PostChecks
  <2>2. \A d \in Conns : Carries(inbox'[d]) => Carries(inbox[d])
    <3> TAKE d \in Conns
    <3>1. CASE d \in cs
      BY <1>2, <2>1, <3>1, CarriesFields
    <3>2. CASE d \notin cs
      <4>1. inbox'[d] = inbox[d]
        BY <2>1, <3>2
      <4> QED
        BY <4>1
    <3> QED
      BY <3>1, <3>2
  <2> QED
    BY <1>1, <2>1, <2>2, ProcsKept
<1>7. ASSUME NEW t \in Threads, NEW c \in Conns, PostLookup(t, c)
      PROVE  ProcsOpened'
  <2>1. /\ conn[c].opened /\ poster' = [poster EXCEPT ![t] = c]
        /\ UNCHANGED inbox
    BY <1>7 DEF PostLookup
  <2>2. \A u \in Threads : poster'[u] # Nobody =>
          \/ poster'[u] = poster[u]
          \/ poster'[u] \in Conns /\ conn[poster'[u]].opened
    BY <1>2, <2>1
  <2> QED
    BY <1>1, <2>1, <2>2, ProcsKept
<1>8. ASSUME NEW t \in Threads, PostSubmit(t) PROVE ProcsOpened'
  <2> DEFINE c == poster[t]
  <2>1. /\ c # Nobody /\ poster' = [poster EXCEPT ![t] = Nobody]
        /\ inbox' = [inbox EXCEPT ![c] = IF up THEN Append(inbox[c], "proc")
                                         ELSE inbox[c]]
    BY <1>8 DEF PostSubmit, SubmitPost
  <2>2. c \in Conns /\ conn[c].opened
    BY <1>2, <2>1 DEF RInv, ProcsOpened
  <2> HIDE DEF c
  <2>3. \A d \in Conns : Carries(inbox'[d]) => Carries(inbox[d]) \/ conn[d].opened
    <3> TAKE d \in Conns
    <3>1. CASE d = c
      BY <2>2, <3>1
    <3>2. CASE d # c
      <4>1. inbox'[d] = inbox[d]
        BY <1>2, <2>1, <3>2
      <4> QED
        BY <4>1
    <3> QED
      BY <3>1, <3>2
  <2>4. \A u \in Threads : poster'[u] # Nobody => poster'[u] = poster[u]
    BY <1>2, <2>1
  <2> QED
    BY <1>1, <2>3, <2>4, ProcsKept
<1>9. CASE Destroy
  <2>1. \A d \in Conns : inbox'[d] = <<>>
    BY <1>9 DEF Destroy
  <2>2. UNCHANGED poster
    BY <1>9 DEF Destroy
  <2>3. \A d \in Conns : ~Carries(inbox'[d])
    BY <2>1, CarriesFields DEF Carries
  <2> QED
    BY <1>1, <2>2, <2>3, ProcsKept
<1>10. CASE Tick \/ ReleaseNext \/ UNCHANGED vars
  <2>1. UNCHANGED <<inbox, poster>>
    BY <1>10, Zenon DEF Tick, ReleaseNext, vars
  <2> QED
    BY <1>3, <2>1
<1>11. ASSUME NEW c \in Conns, SweepStale(c) PROVE ProcsOpened'
  BY <1>6, <1>11, Zenon DEF SweepStale
<1>12. CASE SweepClocks
  BY <1>6, <1>12, Zenon DEF SweepClocks
<1> QED
  BY <1>4, <1>5, <1>7, <1>8, <1>9, <1>10, <1>11, <1>12, Zenon DEF Next

-----------------------------------------------------------------------------
(* The refinement.                                                         *)

LEMMA StepTold == ASSUME RInv, [Next]_vars PROVE Told
<1>1. ASSUME NEW c \in Conns,
             \/ Accept(c) \/ HandshakeData(c) \/ HandleData(c)
             \/ IngestFrame(c) \/ IngestEnd(c) \/ HandleSendReady(c)
             \/ HandleClosed(c)
      PROVE  Told
  BY <1>1, AcceptTold, HandshakeDataTold, HandleDataTold, IngestFrameTold,
     IngestEndTold, HandleSendReadyTold, HandleClosedTold, Zenon
<1>2. ASSUME NEW c \in Conns,
             \/ SendData(c) \/ Close(c) \/ HandlerReturns(c)
             \/ HandlerRaises(c) \/ CloseReturns(c)
      PROVE  Told
  BY <1>2, SendDataTold, CloseTold, HandlerReturnsTold, HandlerRaisesTold,
     CloseReturnsTold, Zenon
<1>3. ASSUME NEW c \in Conns, DeliverPost(c) \/ SweepStale(c) PROVE Told
  BY <1>3, DeliverPostTold, PostChecksTold, Zenon DEF SweepStale
<1>4. ASSUME NEW t \in Threads, NEW c \in Conns, PostLookup(t, c) PROVE Told
  BY <1>4, QuietTold DEF PostLookup
<1>5. ASSUME NEW t \in Threads, PostSubmit(t) PROVE Told
  BY <1>5, QuietTold DEF PostSubmit
<1>6. CASE SweepClocks
  BY <1>6, PostChecksTold, Zenon DEF SweepClocks
<1>7. CASE Tick
  BY <1>7, TickTold
<1>8. CASE Destroy
  BY <1>8, DestroyTold
<1>9. CASE ReleaseNext
  BY <1>9, ReleaseNextTold
<1>10. CASE UNCHANGED vars
  BY <1>10, QuietTold DEF vars
<1> QED
  BY <1>1, <1>2, <1>3, <1>4, <1>5, <1>6, <1>7, <1>8, <1>9, <1>10, Zenon DEF Next

LEMMA InitHears ==
  ASSUME Init PROVE (\A c \in Conns : Hears(conn[c])) /\ ProcsOpened
                    /\ Lifecycle!Init
<1> DEFINE n == NoConn
<1>1. /\ n.life = "none" /\ n.run = "idle"
      /\ ~n.dropping /\ ~n.dropDeferred /\ ~n.dropPending
      /\ ~n.faulted /\ ~n.failed /\ ~n.closeRecv
  BY DEF NoConn
<1>2. conn = [c \in Conns |-> n]
  BY DEF Init
<1> HIDE DEF n
<1>3. ~Condemned(n)
  BY <1>1 DEF Condemned, Deaf
<1>4. Hears(n)
  BY <1>1, <1>3 DEF Hears
<1>5. \A c \in Conns : Hears(conn[c])
  BY <1>2, <1>4
<1>6. ProcsOpened
  <2>1. /\ \A c \in Conns : inbox[c] = <<>>
        /\ \A t \in Threads : poster[t] = Nobody
    BY DEF Init
  <2>2. \A c \in Conns : ~(\E i \in 1 .. Len(inbox[c]) : inbox[c][i] = "proc")
    BY <2>1
  <2> QED
    BY <2>1, <2>2 DEF ProcsOpened
<1>7. \A c \in Conns : /\ Phase(conn[c]) = "none" /\ Hd(conn[c]) = "idle"
                       /\ Condemned(conn[c]) = FALSE
  <2>1. Phase(n) = "none" /\ Hd(n) = "idle"
    BY <1>1, PhaseFields, HandlerFields
  <2>2. Condemned(n) = FALSE
    BY <1>3, CondemnedBoolean, Zenon
  <2> QED
    BY <1>2, <2>1, <2>2
<1>8. PhaseOf = [c \in Conns |-> "none"]
  BY <1>7 DEF PhaseOf
<1>9. HandlerOf = [c \in Conns |-> "idle"]
  <2>1. HandlerOf = [c \in Conns |-> Hd(conn[c])]
    BY Zenon DEF HandlerOf, Hd
  <2> QED
    BY <1>7, <2>1
<1>10. CondemnedOf = [c \in Conns |-> FALSE]
  BY <1>7 DEF CondemnedOf
<1>11. Lifecycle!Init
  BY <1>8, <1>9, <1>10, Zenon
     DEF Lifecycle!Init, PhaseOf, HandlerOf, CondemnedOf
<1> QED
  BY <1>5, <1>6, <1>11

LEMMA RInvStep == ASSUME RInv, IInv', [Next]_vars PROVE RInv'
<1>1. Told
  BY StepTold
<1>2. \A c \in Conns : Hears(conn'[c])
  BY <1>1 DEF Told
<1>3. ProcsOpened'
  BY <1>1, ProcsStep
<1> QED
  BY <1>2, <1>3 DEF RInv

(* TWSServer keeps what the comments on its events promise the host, for   *)
(* any connections, peers, timeouts and limits: handlers of a connection   *)
(* never overlap, OnOpen comes first and once, OnClientClose last and once *)
(* for whoever saw OnOpen, and a connection that failed, was closed or is  *)
(* being dropped hears no further message.                                 *)
THEOREM ServerKeepsContract == Spec => HostContract
<1>1. Spec => []IInv
  BY InductiveInvariant
<1>2. Init /\ IInv => RInv
  BY InitHears DEF RInv
<1>3. RInv /\ IInv' /\ [Next]_vars => RInv'
  BY RInvStep
<1>4. Init => Lifecycle!Init
  BY InitHears
<1>5. RInv /\ [Next]_vars => [Lifecycle!Next]_(Lifecycle!vars)
  BY StepTold DEF Told
<1> QED
  BY <1>1, <1>2, <1>3, <1>4, <1>5, PTL DEF Spec, HostContract, Lifecycle!Spec
=============================================================================
