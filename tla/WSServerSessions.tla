-------------------------- MODULE WSServerSessions --------------------------
(***************************************************************************)
(* What a session says, holds back, waits for and schedules, for any       *)
(* connections, timeouts, limits and bounds: the theorems of this module   *)
(* are WireDiscipline, OutputBounded, NothingStranded, NoClockForgotten,   *)
(* WaitNotExtended, AskedBeforeIdleClose and DrainedBeforeDrop.            *)
(*                                                                         *)
(* All seven speak of one connection's record, so the proof is about       *)
(* records: Sound is inductive for a record, Sure says what one callback   *)
(* may make of one, and each callback of the unit has one lemma.  Only the *)
(* checks on their way (Counted) need the rest of the state.               *)
(***************************************************************************)
EXTENDS WSServerProofs, FiniteSetTheorems

USE ServerAssumption

(* Everything a session has said: what the socket took, then what waits.   *)
All(s) == s.wire \o s.out

Disciplined(q) ==
  \A i \in 1 .. Len(q) :
    /\ q[i].kind \in {"101", "answer"} <=> i = 1
    /\ q[i].kind \in {"answer", "close"} => i = Len(q)
    /\ q[i].kind = "data" => q[i].n = Cardinality(DataAmong(q, i))

(* The last word of q has not been said.                                   *)
Unfinished(q) ==
  \A i \in 1 .. Len(q) : q[i].kind \notin {"answer", "close"}

(* FSweepAt as Reschedule computes it.                                     *)
NextCheck(s) ==
  IF s.deadline = 0 \/ (s.pingDue # 0 /\ s.pingDue < s.deadline)
    THEN s.pingDue ELSE s.deadline

Scheduled(s) == s.sweepAt = NextCheck(s)

(* While an open session has both clocks, either its ping is still to come *)
(* and comes first, or it was queued and what is left of the deadline      *)
(* makes the time to answer it complete.                                   *)
Asking(s) ==
  /\ s.deadline # 0
  /\ IF s.pingDue # 0 THEN s.pingDue <= s.deadline
     ELSE /\ s.asked >= 1
          /\ \/ s.deadline + s.asked > AnswerBy
             \/ s.asked > IdleTimeout - PingInterval

PingsFirst == 0 < PingInterval /\ PingInterval < IdleTimeout

Spoken(s) ==
  /\ Disciplined(All(s))
  /\ s.state = "handshake" => s.dropPending \/ All(s) = <<>>
  /\ s.state # "handshake" =>
       /\ Len(All(s)) >= 1
       /\ s.sent = Cardinality(DataAmong(All(s), Len(All(s))))
       /\ s.closeSent \/ Unfinished(All(s))

(* How the flags of the session and of its machine go together.            *)
Flagged(s) ==
  /\ s.state = "handshake" =>
       ~s.failed /\ ~s.faulted /\ ~s.closeSent /\ s.sent = 0
  /\ s.state # "handshake" \/ s.dropPending => s.proto
  /\ s.failed => s.closeSent
  /\ s.faulted => s.state # "open"
  /\ s.state = "closing" => s.closeSent
  /\ s.dropPending => s.pingDue = 0 /\ (s.state = "open" => s.closeSent)

Asked(s) == s.state = "open" /\ ~s.closeSent /\ PingsFirst => Asking(s)

(* At every moment of a session that is not being torn down.               *)
Tidy(s) == Spoken(s) /\ Flagged(s) /\ Scheduled(s) /\ Asked(s)

(* No more is held back than the cap allows, and it has a wake coming.     *)
Settles(s) == ~OverCap(s) /\ (s.out # <<>> => s.owed)

(* Between two callbacks.  Only the frame loop leaves output for later.    *)
Rested(s) ==
  /\ s.run \in {"idle", "onopen", "onpost"} =>
       /\ s.dropDeferred \/ Settles(s)
       /\ s.failed => s.dropPending
  /\ s.run = "idle" => ~s.dropDeferred /\ (s.faulted => s.dropPending)

Sound(s) ==
  /\ Disciplined(All(s))
  /\ s.life = "none" => ~s.sweepPosted /\ s.out = <<>>
  /\ s.run = "idle" => ~OverCap(s)
  /\ s.life = "live" /\ ~s.dropping => Tidy(s) /\ Rested(s)

-----------------------------------------------------------------------------
(* What the procedures leave alone, by kind.                               *)

Seated(s, t) ==
  /\ t.life = s.life /\ t.run = s.run /\ t.inDelivery = s.inDelivery
  /\ t.dropping = s.dropping /\ t.sweepPosted = s.sweepPosted
  /\ t.proto = s.proto /\ t.closeRecv = s.closeRecv

Minded(s, t) ==
  /\ t.state = s.state /\ t.closeSent = s.closeSent /\ t.failed = s.failed
  /\ t.faulted = s.faulted /\ t.dropPending = s.dropPending
  /\ t.dropDeferred = s.dropDeferred

Clocked(s, t) ==
  /\ t.deadline = s.deadline /\ t.pingDue = s.pingDue
  /\ t.sweepAt = s.sweepAt /\ t.asked = s.asked

Quiet(s, t) ==
  t.wire = s.wire /\ t.out = s.out /\ t.owed = s.owed /\ t.sent = s.sent

-----------------------------------------------------------------------------
(* Sequences of items.                                                     *)

LEMMA AllTyped == \A s \in ConnRec :
  /\ All(s) \in Seq(Item) /\ s.wire \in Seq(Item) /\ s.out \in Seq(Item)
  /\ Len(All(s)) = Len(s.wire) + Len(s.out)
<1> TAKE s \in ConnRec
<1>1. s.wire \in Seq(Item) /\ s.out \in Seq(Item)
  BY DEF ConnRec
<1> QED
  BY <1>1 DEF All

LEMMA DataFinite == \A q, n : n \in Nat =>
  /\ IsFiniteSet(DataAmong(q, n)) /\ Cardinality(DataAmong(q, n)) \in Nat
<1> TAKE q, n
<1> SUFFICES ASSUME n \in Nat
             PROVE  /\ IsFiniteSet(DataAmong(q, n))
                    /\ Cardinality(DataAmong(q, n)) \in Nat
  OBVIOUS
<1>1. IsFiniteSet(1 .. n)
  BY FS_Interval
<1>2. DataAmong(q, n) \in SUBSET (1 .. n)
  BY DEF DataAmong
<1>3. IsFiniteSet(DataAmong(q, n))
  BY <1>1, <1>2, FS_Subset
<1> QED
  BY <1>3, FS_CardinalityType

(* What comes before in the sequence is counted the same.                  *)
LEMMA DataPrefix ==
  \A q, r \in Seq(Item) : \A n \in 0 .. Len(q) :
    DataAmong(q \o r, n) = DataAmong(q, n)
<1> TAKE q, r \in Seq(Item)
<1> TAKE n \in 0 .. Len(q)
<1>1. \A i \in 1 .. n : (q \o r)[i] = q[i]
  OBVIOUS
<1> QED
  BY <1>1 DEF DataAmong

(* One more item.                                                          *)
LEMMA DataAppend ==
  \A q \in Seq(Item), x \in Item :
    LET m == Cardinality(DataAmong(q, Len(q)))
        r == Append(q, x)
    IN /\ \A i \in 1 .. Len(q) : DataAmong(r, i) = DataAmong(q, i)
       /\ Cardinality(DataAmong(r, Len(r)))
            = IF x.kind = "data" THEN m + 1 ELSE m
<1> TAKE q \in Seq(Item), x \in Item
<1> DEFINE D == DataAmong(q, Len(q))
           r == Append(q, x)
           E == DataAmong(r, Len(r))
<1>1. /\ Len(r) = Len(q) + 1 /\ Len(q) \in Nat /\ r[Len(q) + 1] = x
      /\ \A i \in 1 .. Len(q) : r[i] = q[i]
  OBVIOUS
<1> HIDE DEF r
<1>2. ASSUME NEW i \in 1 .. Len(q)
      PROVE  DataAmong(r, i) = DataAmong(q, i)
  <2>1. \A j \in 1 .. i : j \in 1 .. Len(q)
    BY <1>1
  <2> QED
    BY <1>1, <2>1 DEF DataAmong
<1>3. E = IF x.kind = "data" THEN D \union {Len(q) + 1} ELSE D
  BY <1>1 DEF DataAmong
<1>4. IsFiniteSet(D) /\ Len(q) + 1 \notin D
  <2>1. IsFiniteSet(D)
    BY <1>1, DataFinite
  <2>2. Len(q) + 1 \notin D
    BY <1>1 DEF DataAmong
  <2> QED
    BY <2>1, <2>2
<1> HIDE DEF D, E
<1>5. Cardinality(D \union {Len(q) + 1}) = Cardinality(D) + 1
  BY <1>4, FS_AddElement
<1>6. Cardinality(E) = IF x.kind = "data" THEN Cardinality(D) + 1
                       ELSE Cardinality(D)
  BY <1>3, <1>5
<1> QED
  BY <1>2, <1>6 DEF D, E, r

(* A word may follow what is not finished, if it neither opens nor repeats *)
(* a number.                                                               *)
LEMMA DisciplinedAppend ==
  \A q \in Seq(Item), x \in Item :
    /\ Disciplined(q) /\ Unfinished(q) /\ Len(q) >= 1
    /\ x.kind \notin {"101", "answer"}
    /\ x.kind = "data" => x.n = Cardinality(DataAmong(q, Len(q))) + 1
    => /\ Disciplined(Append(q, x))
       /\ x.kind # "close" => Unfinished(Append(q, x))
<1> TAKE q \in Seq(Item), x \in Item
<1> DEFINE r == Append(q, x)
           m == Cardinality(DataAmong(q, Len(q)))
<1> SUFFICES ASSUME Disciplined(q), Unfinished(q), Len(q) >= 1,
                    x.kind \notin {"101", "answer"},
                    x.kind = "data" => x.n = m + 1
             PROVE  Disciplined(r) /\ (x.kind # "close" => Unfinished(r))
  OBVIOUS
<1>1. /\ Len(r) = Len(q) + 1 /\ Len(q) \in Nat /\ r[Len(q) + 1] = x
      /\ \A i \in 1 .. Len(q) : r[i] = q[i]
  OBVIOUS
<1>2. /\ \A i \in 1 .. Len(q) : DataAmong(r, i) = DataAmong(q, i)
      /\ x.kind = "data" => Cardinality(DataAmong(r, Len(r))) = m + 1
  BY DataAppend
<1> HIDE DEF r, m
<1>3. \A i \in 1 .. Len(r) : i \in 1 .. Len(q) \/ i = Len(q) + 1
  BY <1>1
<1>4. ASSUME NEW i \in 1 .. Len(q)
      PROVE  /\ r[i].kind \in {"101", "answer"} <=> i = 1
             /\ r[i].kind \notin {"answer", "close"}
             /\ r[i].kind = "data" => r[i].n = Cardinality(DataAmong(r, i))
  BY <1>1, <1>2 DEF Disciplined, Unfinished
<1>5. /\ r[Len(q) + 1].kind \in {"101", "answer"} <=> Len(q) + 1 = 1
      /\ r[Len(q) + 1].kind = "data" =>
           r[Len(q) + 1].n = Cardinality(DataAmong(r, Len(q) + 1))
  BY <1>1, <1>2
<1>6. Disciplined(r)
  BY <1>1, <1>3, <1>4, <1>5 DEF Disciplined
<1>7. x.kind # "close" => Unfinished(r)
  BY <1>1, <1>3, <1>4 DEF Unfinished
<1> QED
  BY <1>6, <1>7

LEMMA DisciplinedPrefix ==
  \A w, o \in Seq(Item) : Disciplined(w \o o) => Disciplined(w)
<1> TAKE w, o \in Seq(Item)
<1> SUFFICES ASSUME Disciplined(w \o o) PROVE Disciplined(w)
  OBVIOUS
<1>1. /\ Len(w \o o) = Len(w) + Len(o) /\ Len(w) \in Nat /\ Len(o) \in Nat
      /\ \A i \in 1 .. Len(w) : (w \o o)[i] = w[i]
  OBVIOUS
<1>2. \A i \in 1 .. Len(w) : DataAmong(w \o o, i) = DataAmong(w, i)
  BY DataPrefix
<1> DEFINE q == w \o o
<1> HIDE DEF q
<1>3. ASSUME NEW i \in 1 .. Len(w)
      PROVE  /\ w[i].kind \in {"101", "answer"} <=> i = 1
             /\ w[i].kind \in {"answer", "close"} => i = Len(w)
             /\ w[i].kind = "data" => w[i].n = Cardinality(DataAmong(w, i))
  BY <1>1, <1>2 DEF Disciplined
<1> QED
  BY <1>3 DEF Disciplined

LEMMA DisciplinedOne ==
  \A x \in Item : /\ Disciplined(<<>>)
                  /\ x.kind \in {"101", "answer"} => Disciplined(<<x>>)
                  /\ x.kind = "101" => /\ Unfinished(<<x>>)
                                       /\ Cardinality(DataAmong(<<x>>, 1)) = 0
<1> TAKE x \in Item
<1>1. Disciplined(<<>>)
  BY DEF Disciplined
<1>2. x.kind \in {"101", "answer"} => Disciplined(<<x>>)
  BY DEF Disciplined
<1>3. ASSUME x.kind = "101"
      PROVE  Unfinished(<<x>>) /\ Cardinality(DataAmong(<<x>>, 1)) = 0
  <2>1. Unfinished(<<x>>)
    BY <1>3 DEF Unfinished
  <2>2. DataAmong(<<x>>, 1) = {}
    BY <1>3 DEF DataAmong
  <2> QED
    BY <2>1, <2>2, FS_EmptySet
<1> QED
  BY <1>1, <1>2, <1>3

-----------------------------------------------------------------------------
(* Clocks.                                                                 *)

LEMMA RescheduleDoes ==
  \A s \in ConnRec : LET t == Reschedule(s) IN
    /\ t \in ConnRec /\ Seated(s, t) /\ Minded(s, t) /\ Quiet(s, t)
    /\ t.deadline = s.deadline /\ t.pingDue = s.pingDue /\ t.asked = s.asked
    /\ t.sweepAt = NextCheck(s) /\ Scheduled(t)
<1> TAKE s \in ConnRec
<1> DEFINE t == Reschedule(s)
<1>1. t \in ConnRec
  BY RescheduleTyped
<1>2. Seated(s, t) /\ Minded(s, t) /\ Quiet(s, t)
  BY DEF Reschedule, ConnRec, Seated, Minded, Quiet
<1>3. /\ t.deadline = s.deadline /\ t.pingDue = s.pingDue /\ t.asked = s.asked
      /\ t.sweepAt = NextCheck(s)
  BY DEF Reschedule, ConnRec, NextCheck
<1> HIDE DEF t
<1>4. Scheduled(t)
  BY <1>3 DEF Scheduled, NextCheck
<1> QED
  BY <1>1, <1>2, <1>3, <1>4 DEF t

LEMMA ArmDeadlineDoes ==
  \A s \in ConnRec, ms \in Nat : LET t == ArmDeadline(s, ms) IN
    /\ t \in ConnRec /\ Seated(s, t) /\ Minded(s, t) /\ Quiet(s, t)
    /\ t.deadline = Armed(ms) /\ t.pingDue = s.pingDue /\ t.asked = s.asked
    /\ Scheduled(t)
<1> TAKE s \in ConnRec, ms \in Nat
<1> DEFINE z == [s EXCEPT !.deadline = Armed(ms)]
           t == Reschedule(z)
<1>1. ArmDeadline(s, ms) = t
  BY DEF ArmDeadline
<1>2. Armed(ms) \in Nat
  BY ArmedTyped
<1>3. z \in ConnRec
  BY <1>2 DEF ConnRec
<1>4. /\ Seated(s, z) /\ Minded(s, z) /\ Quiet(s, z) /\ z.deadline = Armed(ms)
      /\ z.pingDue = s.pingDue /\ z.asked = s.asked
  BY <1>2 DEF ConnRec, Seated, Minded, Quiet
<1> HIDE DEF z
<1>5. /\ t \in ConnRec /\ Seated(z, t) /\ Minded(z, t) /\ Quiet(z, t)
      /\ t.deadline = z.deadline /\ t.pingDue = z.pingDue /\ t.asked = z.asked
      /\ Scheduled(t)
  BY <1>3, RescheduleDoes
<1> HIDE DEF t
<1> QED
  BY <1>1, <1>4, <1>5 DEF Seated, Minded, Quiet

LEMMA BeginDrainDoes ==
  \A s \in ConnRec : LET t == BeginDrain(s) IN
    /\ t \in ConnRec /\ Seated(s, t) /\ Quiet(s, t)
    /\ t.state = s.state /\ t.closeSent = s.closeSent /\ t.failed = s.failed
    /\ t.faulted = s.faulted /\ t.dropDeferred = s.dropDeferred
    /\ t.dropPending /\ (s.dropPending => t = s)
    /\ ~s.dropPending => t.pingDue = 0 /\ Scheduled(t)
<1> TAKE s \in ConnRec
<1>1. CASE s.dropPending
  BY <1>1 DEF BeginDrain, Seated, Quiet
<1>2. CASE ~s.dropPending
  <2> DEFINE z == [s EXCEPT !.dropPending = TRUE, !.pingDue = 0]
             t == ArmDeadline(z, CloseTimeout)
  <2>1. BeginDrain(s) = t
    BY <1>2 DEF BeginDrain
  <2>2. /\ z \in ConnRec /\ Seated(s, z) /\ Quiet(s, z)
        /\ z.state = s.state /\ z.closeSent = s.closeSent /\ z.failed = s.failed
        /\ z.faulted = s.faulted /\ z.dropDeferred = s.dropDeferred
        /\ z.dropPending /\ z.pingDue = 0
    BY DEF ConnRec, Seated, Quiet
  <2> HIDE DEF z
  <2>3. CloseTimeout \in Nat
    BY DEF ServerAssumption
  <2>4. /\ t \in ConnRec /\ Seated(z, t) /\ Minded(z, t) /\ Quiet(z, t)
        /\ t.pingDue = z.pingDue /\ Scheduled(t)
    BY <2>2, <2>3, ArmDeadlineDoes
  <2> HIDE DEF t
  <2> QED
    BY <1>2, <2>1, <2>2, <2>4 DEF Seated, Minded, Quiet
<1> QED
  BY <1>1, <1>2

LEMMA NoteActivityDoes ==
  \A s \in ConnRec : LET t == NoteActivity(s) IN
    /\ t \in ConnRec /\ Seated(s, t) /\ Minded(s, t) /\ Quiet(s, t)
    /\ Waiting(s) => t = s
    /\ ~Waiting(s) =>
         /\ t.deadline = Armed(IdleTimeout) /\ t.pingDue = Armed(PingInterval)
         /\ t.asked = 0 /\ Scheduled(t)
<1> TAKE s \in ConnRec
<1>1. CASE Waiting(s)
  BY <1>1 DEF NoteActivity, Seated, Minded, Quiet
<1>2. CASE ~Waiting(s)
  <2> DEFINE z == [s EXCEPT !.deadline = Armed(IdleTimeout),
                            !.pingDue = Armed(PingInterval), !.asked = 0]
             t == Reschedule(z)
  <2>1. NoteActivity(s) = t
    BY <1>2 DEF NoteActivity
  <2>2. Armed(IdleTimeout) \in Nat /\ Armed(PingInterval) \in Nat
    BY ArmedTyped DEF ServerAssumption
  <2>3. /\ z \in ConnRec /\ Seated(s, z) /\ Minded(s, z) /\ Quiet(s, z)
        /\ z.deadline = Armed(IdleTimeout) /\ z.pingDue = Armed(PingInterval)
        /\ z.asked = 0
    BY <2>2 DEF ConnRec, Seated, Minded, Quiet
  <2> HIDE DEF z
  <2>4. /\ t \in ConnRec /\ Seated(z, t) /\ Minded(z, t) /\ Quiet(z, t)
        /\ t.deadline = z.deadline /\ t.pingDue = z.pingDue /\ t.asked = z.asked
        /\ Scheduled(t)
    BY <2>3, RescheduleDoes
  <2> HIDE DEF t
  <2> QED
    BY <1>2, <2>1, <2>3, <2>4 DEF Seated, Minded, Quiet
<1> QED
  BY <1>1, <1>2

-----------------------------------------------------------------------------
(* Output.                                                                 *)

LEMMA AppendAll ==
  \A w, o \in Seq(Item), x \in Item :
    /\ w \o Append(o, x) = Append(w \o o, x)
    /\ w \o <<>> = w
  OBVIOUS

LEMMA SplitAll ==
  \A w, o \in Seq(Item) : \A n \in 0 .. Len(o) :
    (w \o SubSeq(o, 1, n)) \o SubSeq(o, n + 1, Len(o)) = w \o o
<1> TAKE w, o \in Seq(Item)
<1> TAKE n \in 0 .. Len(o)
<1> DEFINE a == SubSeq(o, 1, n)
           b == SubSeq(o, n + 1, Len(o))
<1>1. a \in Seq(Item) /\ b \in Seq(Item)
  OBVIOUS
<1>2. SubSeq(o, 1, Len(o)) = o
  BY SubSeqFull
<1>3. a \o b = SubSeq(o, 1, Len(o))
  <2>1. /\ 1 \in 1 .. Len(o) + 1 /\ n \in 1 - 1 .. Len(o)
        /\ Len(o) \in n .. Len(o)
    OBVIOUS
  <2> QED
    BY <2>1, ConcatAdjacentSubSeq, Zenon
<1> HIDE DEF a, b
<1>4. (w \o a) \o b = w \o (a \o b)
  BY <1>1, ConcatAssociative
<1> QED
  BY <1>2, <1>3, <1>4 DEF a, b

LEMMA OutConsumeDoes ==
  \A s \in ConnRec : \A n \in 0 .. Len(s.out) : LET t == OutConsume(s, n) IN
    /\ t \in ConnRec /\ Seated(s, t) /\ Minded(s, t) /\ Clocked(s, t)
    /\ t.sent = s.sent /\ All(t) = All(s) /\ (t.owed <=> t.out # <<>>)
<1> TAKE s \in ConnRec
<1> TAKE n \in 0 .. Len(s.out)
<1> DEFINE w == s.wire \o SubSeq(s.out, 1, n)
           o == SubSeq(s.out, n + 1, Len(s.out))
           b == n < Len(s.out)
           t == [s EXCEPT !.wire = w, !.out = o, !.owed = b]
<1>1. s.wire \in Seq(Item) /\ s.out \in Seq(Item)
  BY AllTyped
<1>2. w \in Seq(Item) /\ o \in Seq(Item) /\ b \in BOOLEAN
  BY <1>1
<1>3. b <=> o # <<>>
  <2>1. Len(o) = Len(s.out) - n /\ n \in Nat /\ Len(s.out) \in Nat
    BY <1>1
  <2>2. o = <<>> <=> Len(o) = 0
    BY <1>2, EmptySeq
  <2> HIDE DEF o
  <2> QED
    BY <2>1, <2>2
<1>4. w \o o = s.wire \o s.out
  BY <1>1, SplitAll
<1>5. OutConsume(s, n) = t
  BY DEF OutConsume
<1> HIDE DEF w, o, b
<1>6. t \in ConnRec
  BY <1>2 DEF ConnRec
<1>7. /\ Seated(s, t) /\ Minded(s, t) /\ Clocked(s, t) /\ t.sent = s.sent
      /\ t.wire = w /\ t.out = o /\ t.owed = b
  BY <1>2 DEF ConnRec, Seated, Minded, Clocked
<1> HIDE DEF t
<1>8. All(t) = All(s)
  BY <1>4, <1>7 DEF All
<1> QED
  BY <1>3, <1>5, <1>6, <1>7, <1>8

(* What a flush has to work with when it is done or gives up.              *)
Flushed(s, t) ==
  /\ t \in ConnRec /\ Seated(s, t) /\ Minded(s, t) /\ Clocked(s, t)
  /\ t.sent = s.sent /\ All(t) = All(s)

(* A flush that goes through leaves the session within its cap and what is *)
(* left with a wake; one that does not ends in DropConn, because the peer  *)
(* is gone or the output is over the cap.                                  *)
LEMMA FlushConnDoes ==
  \A s \in ConnRec, e \in Results : \E t : Flushed(s, t) /\
    \/ /\ FlushConn(s, e) = t /\ ~OverCap(t)
       /\ IF s.out = <<>> THEN t = s ELSE t.out # <<>> => t.owed
    \/ FlushConn(s, e) = DropConn(t) /\ (t.tport = "dead" \/ OverCap(t))
<1> TAKE s \in ConnRec, e \in Results
<1>0. s.out \in Seq(Item)
  BY AllTyped
<1>1. CASE s.out = <<>>
  <2>1. FlushConn(s, e) = s
    BY <1>1 DEF FlushConn
  <2>2. Flushed(s, s)
    BY DEF Flushed, Seated, Minded, Clocked
  <2>3. ~OverCap(s)
    BY <1>1 DEF OverCap, ServerAssumption
  <2> QED
    BY <1>1, <2>1, <2>2, <2>3
<1>2. CASE s.out # <<>> /\ e = "dead"
  <2> DEFINE t == [s EXCEPT !.tport = "dead"]
  <2>1. FlushConn(s, e) = DropConn(t)
    BY <1>2 DEF FlushConn
  <2>2. t \in ConnRec
    BY DEF ConnRec
  <2>3. /\ Seated(s, t) /\ Minded(s, t) /\ Clocked(s, t) /\ t.sent = s.sent
        /\ t.wire = s.wire /\ t.out = s.out /\ t.tport = "dead"
    BY DEF ConnRec, Seated, Minded, Clocked
  <2> HIDE DEF t
  <2>4. Flushed(s, t)
    BY <2>2, <2>3 DEF Flushed, All
  <2> QED
    BY <2>1, <2>3, <2>4
<1>3. CASE s.out # <<>> /\ e # "dead"
  <2> DEFINE t == OutConsume(s, Taken(s, e))
  <2>1. FlushConn(s, e) = IF OverCap(t) THEN DropConn(t) ELSE t
    BY <1>3 DEF FlushConn
  <2>2. Taken(s, e) \in 0 .. Len(s.out)
    BY <1>3, TakenTyped
  <2>3. Flushed(s, t) /\ (t.out # <<>> => t.owed)
    BY <2>2, OutConsumeDoes DEF Flushed
  <2> HIDE DEF t
  <2> QED
    BY <1>3, <2>1, <2>3
<1> QED
  BY <1>1, <1>2, <1>3

(* A record that will be dropped when the delivery on its stack unwinds.   *)
LEMMA DropConnNotes ==
  \A s \in ConnRec : s.inDelivery => LET t == DropConn(s) IN
    /\ t \in ConnRec /\ Seated(s, t) /\ Clocked(s, t) /\ Quiet(s, t)
    /\ t.state = s.state /\ t.closeSent = s.closeSent /\ t.failed = s.failed
    /\ t.faulted = s.faulted /\ t.dropPending = s.dropPending
    /\ t.tport = s.tport /\ t.dropDeferred
<1> TAKE s \in ConnRec
<1> SUFFICES ASSUME s.inDelivery
             PROVE  LET t == DropConn(s) IN
                    /\ t \in ConnRec /\ Seated(s, t) /\ Clocked(s, t)
                    /\ Quiet(s, t)
                    /\ t.state = s.state /\ t.closeSent = s.closeSent
                    /\ t.failed = s.failed /\ t.faulted = s.faulted
                    /\ t.dropPending = s.dropPending
                    /\ t.tport = s.tport /\ t.dropDeferred
  OBVIOUS
<1> DEFINE z == [s EXCEPT !.dropDeferred = TRUE]
<1>1. DropConn(s) = z
  BY DEF DropConn
<1>2. z \in ConnRec
  BY DEF ConnRec
<1>3. /\ Seated(s, z) /\ Clocked(s, z) /\ Quiet(s, z)
      /\ z.state = s.state /\ z.closeSent = s.closeSent
      /\ z.failed = s.failed /\ z.faulted = s.faulted
      /\ z.dropPending = s.dropPending /\ z.tport = s.tport
      /\ z.dropDeferred
  BY DEF ConnRec, Seated, Clocked, Quiet
<1> HIDE DEF z
<1> QED
  BY <1>1, <1>2, <1>3, Zenon

(* The session t that the drop of s leaves: OnClientClose is running, or   *)
(* the object is gone.                                                     *)
Dropped(s, t) ==
  /\ t \in ConnRec /\ t.dropping /\ t.wire = s.wire
  /\ s.tport = "dead" => t.tport = "dead"
  /\ \/ /\ t.life = s.life /\ t.run = "onclose" /\ t.out = s.out
        /\ t.state = s.state /\ t.dropPending = s.dropPending
        /\ t.deadline = s.deadline
     \/ /\ t.life = "freed" /\ t.run = "idle" /\ t.out = <<>>
        /\ t.deadline = 0 /\ t.state = "handshake" /\ s.state = "handshake"

LEMMA FreedDoes ==
  \A s \in ConnRec : LET t == Freed(s) IN
    /\ t \in ConnRec /\ t.dropping /\ t.wire = s.wire /\ t.life = "freed"
    /\ t.run = "idle" /\ t.out = <<>> /\ t.deadline = 0
    /\ t.state = "handshake" /\ (s.tport = "dead" => t.tport = "dead")
<1> TAKE s \in ConnRec
<1> DEFINE n == NoConn
<1>1. /\ n \in ConnRec /\ n.run = "idle" /\ n.out = <<>> /\ n.deadline = 0
      /\ n.state = "handshake"
  BY NoConnTyped DEF NoConn
<1>2. Freed(s) =
        [n EXCEPT !.life = "freed", !.dropping = TRUE,
                  !.tport = IF s.tport = "dead" THEN "dead" ELSE "closed",
                  !.opened = s.opened, !.closes = s.closes, !.wire = s.wire]
  BY DEF Freed
<1> HIDE DEF n
<1>3. Freed(s) \in ConnRec
  BY FreedTyped
<1> QED
  BY <1>1, <1>2, <1>3 DEF ConnRec

LEMMA ReleaseConnDrops ==
  \A s \in ConnRec : s.dropping => Dropped(s, ReleaseConn(s))
<1> TAKE s \in ConnRec
<1> SUFFICES ASSUME s.dropping PROVE Dropped(s, ReleaseConn(s))
  OBVIOUS
<1>1. CASE s.state # "handshake"
  <2>1. ReleaseConn(s) \in ConnRec
    BY ReleaseConnTyped
  <2>2. ReleaseConn(s) =
          [s EXCEPT !.run = "onclose", !.todo = <<>>, !.closes = s.closes + 1]
    BY <1>1 DEF ReleaseConn
  <2> QED
    BY <1>1, <2>1, <2>2 DEF ConnRec, Dropped
<1>2. CASE s.state = "handshake"
  BY <1>2, FreedDoes DEF ReleaseConn, Dropped
<1> QED
  BY <1>1, <1>2

LEMMA DropConnDrops ==
  \A s \in ConnRec :
    ~s.inDelivery /\ ~s.dropping => Dropped(s, DropConn(s))
<1> TAKE s \in ConnRec
<1> SUFFICES ASSUME ~s.inDelivery, ~s.dropping PROVE Dropped(s, DropConn(s))
  OBVIOUS
<1> DEFINE z == [s EXCEPT !.dropping = TRUE, !.userData = FALSE]
<1>1. DropConn(s) = ReleaseConn(z)
  BY DEF DropConn
<1>2. /\ z \in ConnRec /\ z.dropping /\ z.wire = s.wire /\ z.out = s.out
      /\ z.tport = s.tport /\ z.life = s.life /\ z.state = s.state
      /\ z.dropPending = s.dropPending /\ z.deadline = s.deadline
  BY DEF ConnRec
<1> HIDE DEF z
<1>3. Dropped(z, ReleaseConn(z))
  BY <1>2, ReleaseConnDrops
<1> QED
  BY <1>1, <1>2, <1>3 DEF Dropped

-----------------------------------------------------------------------------
(* The protocol object.                                                    *)

LEMMA QueueDoes ==
  \A s \in ConnRec, x \in Item : LET t == Queue(s, x) IN
    /\ t \in ConnRec /\ Seated(s, t) /\ Minded(s, t) /\ Clocked(s, t)
    /\ t.sent = s.sent /\ All(t) = Append(All(s), x)
    /\ t.wire = s.wire /\ t.out = Append(s.out, x)
<1> TAKE s \in ConnRec, x \in Item
<1> DEFINE o == Append(s.out, x)
           t == [s EXCEPT !.out = o]
<1>1. s.wire \in Seq(Item) /\ s.out \in Seq(Item)
  BY AllTyped
<1>2. o \in Seq(Item) /\ s.wire \o o = Append(s.wire \o s.out, x)
  <2>1. o \in Seq(Item)
    BY <1>1
  <2>2. s.wire \o o = Append(s.wire \o s.out, x)
    BY <1>1, AppendAll, Zenon
  <2> QED
    BY <2>1, <2>2
<1>3. Queue(s, x) = t
  BY DEF Queue
<1>4. t.out = Append(s.out, x)
  BY DEF ConnRec
<1> HIDE DEF o
<1>5. t \in ConnRec
  BY <1>2 DEF ConnRec
<1>6. /\ Seated(s, t) /\ Minded(s, t) /\ Clocked(s, t) /\ t.sent = s.sent
      /\ t.wire = s.wire /\ t.out = o
  BY <1>2 DEF ConnRec, Seated, Minded, Clocked
<1> HIDE DEF t
<1>7. All(t) = Append(All(s), x)
  BY <1>2, <1>6 DEF All
<1> QED
  BY <1>3, <1>4, <1>5, <1>6, <1>7

LEMMA ItFields ==
  \A kind \in {"101", "answer", "data", "ping", "pong", "close"} :
    It(kind) \in Item /\ It(kind).kind = kind
  BY DEF It, Item

(* What SendClose says: our close frame, unless it was said before.        *)
Closed(s) == IF s.closeSent THEN All(s) ELSE Append(All(s), It("close"))

LEMMA SendCloseDoes ==
  \A s \in ConnRec : LET t == SendClose(s) IN
    /\ t \in ConnRec /\ Seated(s, t) /\ Clocked(s, t) /\ t.sent = s.sent
    /\ t.state = s.state /\ t.failed = s.failed /\ t.faulted = s.faulted
    /\ t.dropPending = s.dropPending /\ t.dropDeferred = s.dropDeferred
    /\ t.closeSent /\ All(t) = Closed(s)
<1> TAKE s \in ConnRec
<1>1. CASE s.closeSent
  BY <1>1 DEF SendClose, Seated, Clocked, Closed
<1>2. CASE ~s.closeSent
  <2> DEFINE z == [s EXCEPT !.closeSent = TRUE]
             t == Queue(z, It("close"))
  <2>1. SendClose(s) = t
    BY <1>2 DEF SendClose
  <2>2. /\ z \in ConnRec /\ Seated(s, z) /\ Clocked(s, z) /\ Quiet(s, z)
        /\ z.state = s.state /\ z.failed = s.failed /\ z.faulted = s.faulted
        /\ z.dropPending = s.dropPending /\ z.dropDeferred = s.dropDeferred
        /\ z.closeSent
    BY DEF ConnRec, Seated, Clocked, Quiet
  <2> HIDE DEF z
  <2>3. It("close") \in Item
    BY ItFields
  <2>4. /\ t \in ConnRec /\ Seated(z, t) /\ Minded(z, t) /\ Clocked(z, t)
        /\ t.sent = z.sent /\ All(t) = Append(All(z), It("close"))
    BY <2>2, <2>3, QueueDoes
  <2>5. All(z) = All(s)
    BY <2>2 DEF All, Quiet
  <2> HIDE DEF t
  <2>6. All(t) = Closed(s)
    BY <1>2, <2>4, <2>5 DEF Closed
  <2> QED
    BY <2>1, <2>2, <2>4, <2>6 DEF Seated, Clocked, Quiet, Minded
<1> QED
  BY <1>1, <1>2

-----------------------------------------------------------------------------
(* What keeps a session tidy.                                              *)

(* What Tidy reads of a record.                                            *)
Matched(s, t) ==
  /\ t.state = s.state /\ t.closeSent = s.closeSent /\ t.failed = s.failed
  /\ t.faulted = s.faulted /\ t.dropPending = s.dropPending
  /\ t.proto = s.proto /\ t.sent = s.sent /\ All(t) = All(s)
  /\ Clocked(s, t)

LEMMA TidyMatched == \A s, t : Tidy(s) /\ Matched(s, t) => Tidy(t)
<1> TAKE s, t
<1> SUFFICES ASSUME Tidy(s), Matched(s, t) PROVE Tidy(t)
  OBVIOUS
<1>1. Spoken(t)
  BY DEF Tidy, Spoken, Matched
<1>2. Flagged(t)
  BY DEF Tidy, Flagged, Matched, Clocked
<1>3. Scheduled(t) /\ Asked(t)
  BY DEF Tidy, Scheduled, NextCheck, Asked, Asking, Matched, Clocked
<1> QED
  BY <1>1, <1>2, <1>3 DEF Tidy

LEMMA TidyFlushed == \A s, t : Tidy(s) /\ Flushed(s, t) => Tidy(t)
<1> TAKE s, t
<1>1. Flushed(s, t) => Matched(s, t)
  BY DEF Flushed, Seated, Minded, Matched
<1> QED
  BY <1>1, TidyMatched

(* One more word of an open or closing session.                            *)
LEMMA SpokenMore ==
  \A s, t \in ConnRec, x \in Item :
    /\ Spoken(s) /\ s.state # "handshake" /\ ~s.closeSent
    /\ All(t) = Append(All(s), x) /\ t.state # "handshake"
    /\ x.kind \in {"data", "ping", "pong", "close"}
    /\ IF x.kind = "data" THEN x.n = s.sent + 1 /\ t.sent = s.sent + 1
                          ELSE t.sent = s.sent
    /\ x.kind = "close" => t.closeSent
    => Spoken(t)
<1> TAKE s, t \in ConnRec, x \in Item
<1> SUFFICES ASSUME Spoken(s), s.state # "handshake", ~s.closeSent,
                    All(t) = Append(All(s), x), t.state # "handshake",
                    x.kind \in {"data", "ping", "pong", "close"},
                    IF x.kind = "data" THEN x.n = s.sent + 1 /\ t.sent = s.sent + 1
                                       ELSE t.sent = s.sent,
                    x.kind = "close" => t.closeSent
             PROVE  Spoken(t)
  OBVIOUS
<1> DEFINE q == All(s)
           r == Append(q, x)
<1>1. q \in Seq(Item)
  BY AllTyped
<1>2. /\ Disciplined(q) /\ Unfinished(q) /\ Len(q) >= 1
      /\ s.sent = Cardinality(DataAmong(q, Len(q)))
  BY DEF Spoken
<1>3. All(t) = r
  OBVIOUS
<1> HIDE DEF q
<1>4. Len(r) = Len(q) + 1 /\ Len(q) \in Nat
  BY <1>1
<1>5. Disciplined(r) /\ (x.kind # "close" => Unfinished(r))
  BY <1>1, <1>2, DisciplinedAppend
<1>6. Cardinality(DataAmong(r, Len(r)))
        = IF x.kind = "data" THEN s.sent + 1 ELSE s.sent
  BY <1>1, <1>2, DataAppend
<1> HIDE DEF r
<1>7. t.sent = Cardinality(DataAmong(r, Len(r)))
  BY <1>6
<1> QED
  BY <1>2, <1>3, <1>4, <1>5, <1>7 DEF Spoken

LEMMA SendFrameDoes ==
  \A s \in ConnRec, kind \in {"ping", "pong"} :
    LET t == SendFrame(s, It(kind)) IN
    /\ t \in ConnRec /\ Seated(s, t) /\ Minded(s, t) /\ Clocked(s, t)
    /\ t.sent = s.sent
    /\ Spoken(s) /\ s.state # "handshake" => Spoken(t)
<1> TAKE s \in ConnRec, kind \in {"ping", "pong"}
<1> DEFINE t == SendFrame(s, It(kind))
<1>0. It(kind) \in Item /\ It(kind).kind = kind
  BY ItFields
<1>1. CASE s.closeSent
  BY <1>1 DEF SendFrame, Seated, Minded, Clocked
<1>2. CASE ~s.closeSent
  <2>1. t = Queue(s, It(kind))
    BY <1>2 DEF SendFrame
  <2>2. /\ t \in ConnRec /\ Seated(s, t) /\ Minded(s, t) /\ Clocked(s, t)
        /\ t.sent = s.sent /\ All(t) = Append(All(s), It(kind))
    BY <2>1, <1>0, QueueDoes
  <2> HIDE DEF t
  <2>3. ASSUME Spoken(s), s.state # "handshake" PROVE Spoken(t)
    BY <1>0, <1>2, <2>2, <2>3, SpokenMore DEF Minded
  <2> QED
    BY <2>2, <2>3 DEF t
<1> QED
  BY <1>1, <1>2

LEMMA TidyFramed ==
  \A s \in ConnRec, kind \in {"ping", "pong"} :
    Tidy(s) /\ s.state # "handshake" => Tidy(SendFrame(s, It(kind)))
<1> TAKE s \in ConnRec, kind \in {"ping", "pong"}
<1> SUFFICES ASSUME Tidy(s), s.state # "handshake"
             PROVE  Tidy(SendFrame(s, It(kind)))
  OBVIOUS
<1> DEFINE t == SendFrame(s, It(kind))
<1>1. /\ Seated(s, t) /\ Minded(s, t) /\ Clocked(s, t) /\ t.sent = s.sent
      /\ Spoken(t)
  BY SendFrameDoes DEF Tidy
<1> HIDE DEF t
<1>2. Flagged(t)
  BY <1>1 DEF Tidy, Flagged, Seated, Minded, Clocked
<1>3. Scheduled(t) /\ Asked(t)
  BY <1>1 DEF Tidy, Scheduled, NextCheck, Asked, Asking, Minded, Clocked
<1> QED
  BY <1>1, <1>2, <1>3 DEF Tidy, t

(* Our close frame leaves a session tidy, whatever the caller notes with   *)
(* it: the failure, the fault, the state, a deadline.                      *)
LEMMA SpokenClosed ==
  \A s, t \in ConnRec :
    /\ Spoken(s) /\ s.state # "handshake" /\ All(t) = Closed(s)
    /\ t.state # "handshake" /\ t.closeSent /\ t.sent = s.sent
    => Spoken(t)
<1> TAKE s, t \in ConnRec
<1> SUFFICES ASSUME Spoken(s), s.state # "handshake", All(t) = Closed(s),
                    t.state # "handshake", t.closeSent, t.sent = s.sent
             PROVE  Spoken(t)
  OBVIOUS
<1>1. CASE s.closeSent
  <2>1. All(t) = All(s)
    BY <1>1 DEF Closed
  <2> QED
    BY <1>1, <2>1 DEF Spoken
<1>2. CASE ~s.closeSent
  <2>1. All(t) = Append(All(s), It("close"))
    BY <1>2 DEF Closed
  <2>2. It("close") \in Item /\ It("close").kind = "close"
    BY ItFields
  <2> QED
    BY <1>2, <2>1, <2>2, SpokenMore
<1> QED
  BY <1>1, <1>2

LEMMA TidyClosed ==
  \A s, t \in ConnRec :
    /\ Spoken(s) /\ s.state # "handshake" /\ All(t) = Closed(s)
    /\ t.state # "handshake" /\ t.closeSent /\ t.sent = s.sent /\ t.proto
    /\ t.faulted => t.state # "open"
    /\ t.dropPending => t.pingDue = 0
    /\ Scheduled(t)
    => Tidy(t)
<1> TAKE s, t \in ConnRec
<1> SUFFICES ASSUME Spoken(s), s.state # "handshake", All(t) = Closed(s),
                    t.state # "handshake", t.closeSent, t.sent = s.sent,
                    t.proto, t.faulted => t.state # "open",
                    t.dropPending => t.pingDue = 0, Scheduled(t)
             PROVE  Tidy(t)
  OBVIOUS
<1>1. Spoken(t)
  BY SpokenClosed
<1> QED
  BY <1>1 DEF Tidy, Flagged, Asked

LEMMA TidyDrain ==
  \A s \in ConnRec :
    Tidy(s) /\ s.proto /\ (s.state = "open" => s.closeSent)
      => Tidy(BeginDrain(s))
<1> TAKE s \in ConnRec
<1> SUFFICES ASSUME Tidy(s), s.proto, s.state = "open" => s.closeSent
             PROVE  Tidy(BeginDrain(s))
  OBVIOUS
<1> DEFINE t == BeginDrain(s)
<1>1. /\ t \in ConnRec /\ Seated(s, t) /\ Quiet(s, t)
      /\ t.state = s.state /\ t.closeSent = s.closeSent /\ t.failed = s.failed
      /\ t.faulted = s.faulted /\ t.dropPending /\ (s.dropPending => t = s)
      /\ ~s.dropPending => t.pingDue = 0 /\ Scheduled(t)
  BY BeginDrainDoes
<1> HIDE DEF t
<1>2. CASE s.dropPending
  BY <1>1, <1>2 DEF t
<1>3. CASE ~s.dropPending
  <2>1. All(t) = All(s) /\ t.sent = s.sent /\ t.proto
    BY <1>1 DEF All, Quiet, Seated
  <2>2. Spoken(t)
    BY <1>1, <2>1 DEF Tidy, Spoken
  <2>3. Flagged(t)
    BY <1>1, <1>3, <2>1 DEF Tidy, Flagged
  <2> QED
    BY <1>1, <1>3, <2>2, <2>3 DEF Tidy, Asked, t
<1> QED
  BY <1>2, <1>3

LEMMA ActivityTidies ==
  \A s \in ConnRec :
    Spoken(s) /\ Flagged(s) /\ ~Waiting(s) => Tidy(NoteActivity(s))
<1> TAKE s \in ConnRec
<1> SUFFICES ASSUME Spoken(s), Flagged(s), ~Waiting(s)
             PROVE  Tidy(NoteActivity(s))
  OBVIOUS
<1> DEFINE t == NoteActivity(s)
<1>1. /\ t \in ConnRec /\ Seated(s, t) /\ Minded(s, t) /\ Quiet(s, t)
      /\ t.deadline = Armed(IdleTimeout) /\ t.pingDue = Armed(PingInterval)
      /\ Scheduled(t)
  BY NoteActivityDoes
<1> HIDE DEF t
<1>2. All(t) = All(s) /\ t.sent = s.sent /\ t.proto = s.proto
  BY <1>1 DEF All, Quiet, Seated
<1>3. Spoken(t)
  BY <1>1, <1>2 DEF Spoken, Minded
<1>4. Flagged(t)
  BY <1>1, <1>2 DEF Flagged, Minded, Waiting
<1>5. Asked(t)
  BY <1>1 DEF Asked, Asking, PingsFirst, Armed, ServerAssumption
<1> QED
  BY <1>1, <1>3, <1>4, <1>5 DEF Tidy, t

-----------------------------------------------------------------------------
(* How a callback ends: the session stays, or it has left.                 *)

Outside(s) ==
  s \in ConnRec /\ s.life = "live" /\ ~s.dropping /\ ~s.inDelivery

(* A wait that was on is not longer than it was.                           *)
Waits(s, t) ==
  /\ s.state # "open" \/ s.dropPending
  /\ s.state = t.state /\ s.dropPending = t.dropPending
  => t.deadline <= s.deadline

Stays(s, t) ==
  /\ t \in ConnRec /\ t.life = "live" /\ ~t.dropping
  /\ t.sweepPosted = s.sweepPosted
  /\ t.state = s.state
  /\ t.dropPending = s.dropPending => t.deadline = s.deadline
  /\ Tidy(t) /\ Rested(t)

(* The last words are out, or nothing held the session back.               *)
Leaves(s, t) ==
  \E x \in ConnRec :
    /\ Dropped(x, t) /\ x.life = "live" /\ All(x) = All(s)
    /\ x.state = s.state
    /\ x.dropPending = s.dropPending => x.deadline = s.deadline
    /\ \/ x.out = <<>> \/ x.tport = "dead" \/ s.dropDeferred
       \/ ~(s.dropPending \/ s.failed \/ s.faulted)

LEMMA DroppedSound ==
  \A s \in ConnRec : \A t :
    Disciplined(All(s)) /\ s.life = "live" /\ Dropped(s, t)
      => t \in ConnRec /\ t.dropping /\ Sound(t)
<1> TAKE s \in ConnRec
<1> TAKE t
<1> SUFFICES ASSUME Disciplined(All(s)), s.life = "live", Dropped(s, t)
             PROVE  t \in ConnRec /\ t.dropping /\ Sound(t)
  OBVIOUS
<1>1. s.wire \in Seq(Item) /\ s.out \in Seq(Item)
  BY AllTyped
<1>2. Disciplined(s.wire)
  BY <1>1, DisciplinedPrefix DEF All
<1>3. s.wire \o <<>> = s.wire
  BY <1>1
<1>4. Disciplined(All(t))
  BY <1>2, <1>3 DEF Dropped, All
<1>5. t.run = "idle" => ~OverCap(t)
  BY DEF Dropped, OverCap, ServerAssumption
<1>6. t.life # "none" /\ t.dropping /\ t \in ConnRec
  BY DEF Dropped
<1> QED
  BY <1>4, <1>5, <1>6 DEF Sound

LEMMA LeavesSound ==
  \A s \in ConnRec : \A t :
    Disciplined(All(s)) /\ Leaves(s, t) =>
      /\ t \in ConnRec /\ t.dropping /\ Sound(t) /\ Waits(s, t)
      /\ \/ Len(t.wire) = Len(All(s)) \/ t.tport = "dead" \/ s.dropDeferred
         \/ ~(s.dropPending \/ s.failed \/ s.faulted)
      /\ t.state \in {s.state, "handshake"}
<1> TAKE s \in ConnRec
<1> TAKE t
<1> SUFFICES ASSUME Disciplined(All(s)), Leaves(s, t)
             PROVE  /\ t \in ConnRec /\ t.dropping /\ Sound(t) /\ Waits(s, t)
                    /\ \/ Len(t.wire) = Len(All(s)) \/ t.tport = "dead"
                       \/ s.dropDeferred
                       \/ ~(s.dropPending \/ s.failed \/ s.faulted)
                    /\ t.state \in {s.state, "handshake"}
  OBVIOUS
<1>1. PICK x \in ConnRec :
        /\ Dropped(x, t) /\ x.life = "live" /\ All(x) = All(s)
        /\ x.state = s.state
        /\ x.dropPending = s.dropPending => x.deadline = s.deadline
        /\ \/ x.out = <<>> \/ x.tport = "dead" \/ s.dropDeferred
           \/ ~(s.dropPending \/ s.failed \/ s.faulted)
  BY DEF Leaves
<1>2. t \in ConnRec /\ t.dropping /\ Sound(t)
  BY <1>1, DroppedSound
<1>3. s.deadline \in Nat /\ x.deadline \in Nat /\ x.wire \in Seq(Item)
  BY DEF ConnRec
<1>4. Waits(s, t)
  BY <1>1, <1>3 DEF Waits, Dropped
<1>5. x.out = <<>> => Len(t.wire) = Len(All(s))
  <2>1. Len(All(x)) = Len(x.wire) + Len(x.out) /\ Len(x.wire) \in Nat
    <3>1. Len(x.wire) \in Nat
      BY <1>3
    <3> QED
      BY <1>1, <3>1, AllTyped, Zenon
  <2>2. t.wire = x.wire /\ Len(<<>>) = 0
    BY <1>1 DEF Dropped
  <2> QED
    BY <1>1, <2>1, <2>2
<1>6. x.tport = "dead" => t.tport = "dead"
  BY <1>1 DEF Dropped
<1>7. t.state \in {s.state, "handshake"}
  BY <1>1 DEF Dropped
<1> QED
  BY <1>1, <1>2, <1>4, <1>5, <1>6, <1>7

LEMMA StaysSound ==
  \A s \in ConnRec : \A t : Stays(s, t) => Sound(t) /\ Waits(s, t)
<1> TAKE s \in ConnRec
<1> TAKE t
<1> SUFFICES ASSUME Stays(s, t) PROVE Sound(t) /\ Waits(s, t)
  OBVIOUS
<1>1. s.deadline \in Nat
  BY DEF ConnRec
<1> QED
  BY <1>1 DEF Stays, Sound, Waits, Tidy, Spoken, Rested, Settles

(* Once draining, a session leaves as soon as nothing is left to send.     *)
LEMMA DrainThenDropDoes ==
  \A s, e :
    /\ Outside(s) /\ e \in Results /\ s.run = "idle" /\ s.proto
    /\ ~s.dropDeferred /\ Tidy(BeginDrain(s))
    => LET t == DrainThenDrop(s, e) IN Stays(s, t) \/ Leaves(s, t)
<1> TAKE s, e
<1> SUFFICES ASSUME Outside(s), e \in Results, s.run = "idle", s.proto,
                    ~s.dropDeferred, Tidy(BeginDrain(s))
             PROVE  LET t == DrainThenDrop(s, e) IN Stays(s, t) \/ Leaves(s, t)
  OBVIOUS
<1> DEFINE b == BeginDrain(s)
           f == FlushConn(b, e)
           t == DrainThenDrop(s, e)
<1>1. /\ b \in ConnRec /\ Seated(s, b) /\ Quiet(s, b)
      /\ b.state = s.state /\ b.closeSent = s.closeSent /\ b.failed = s.failed
      /\ b.faulted = s.faulted /\ b.dropDeferred = s.dropDeferred
      /\ b.dropPending /\ (s.dropPending => b = s)
  BY BeginDrainDoes DEF Outside
<1>2. t = IF ~f.dropping /\ f.out = <<>> THEN DropConn(f) ELSE f
  BY DEF DrainThenDrop
<1>3. Tidy(b)
  OBVIOUS
<1> HIDE DEF b, t
<1>4. PICK x : Flushed(b, x) /\
        \/ /\ f = x /\ ~OverCap(x)
           /\ IF b.out = <<>> THEN x = b ELSE x.out # <<>> => x.owed
        \/ f = DropConn(x) /\ (x.tport = "dead" \/ OverCap(x))
  BY <1>1, FlushConnDoes
<1> HIDE DEF f
<1>5. /\ x \in ConnRec /\ ~x.inDelivery /\ ~x.dropping /\ x.life = "live"
      /\ x.run = "idle" /\ x.dropPending /\ ~x.dropDeferred
      /\ x.state = s.state /\ x.sweepPosted = s.sweepPosted
      /\ All(x) = All(s)
      /\ x.dropPending = s.dropPending => x.deadline = s.deadline
  <2>1. All(b) = All(s)
    BY <1>1 DEF All, Quiet
  <2> QED
    BY <1>1, <1>4, <2>1 DEF Outside, Flushed, Seated, Minded, Clocked
<1>6. Tidy(x)
  BY <1>3, <1>4, TidyFlushed
<1>7. Dropped(x, DropConn(x))
  BY <1>5, DropConnDrops
<1>8. CASE f = x /\ x.out = <<>>
  <2>1. t = DropConn(x)
    BY <1>2, <1>5, <1>8
  <2> QED
    BY <2>1, <1>5, <1>7, <1>8 DEF Leaves, t
<1>9. CASE f = x /\ x.out # <<>> /\ (IF b.out = <<>> THEN x = b ELSE x.owed)
  <2>1. t = x
    BY <1>2, <1>9
  <2>2. Rested(x)
    BY <1>5, <1>9 DEF Rested, Settles, OverCap
  <2> QED
    BY <2>1, <2>2, <1>5, <1>6 DEF Stays, t
<1>10. CASE f = DropConn(x) /\ x.tport = "dead"
  <2>1. t = DropConn(x)
    BY <1>2, <1>7, <1>10 DEF Dropped
  <2> QED
    BY <2>1, <1>5, <1>7, <1>10 DEF Leaves, t
<1>11. ~OverCap(x)
  BY <1>5 DEF OverCap
<1> QED
  BY <1>4, <1>8, <1>9, <1>10, <1>11

(* When a delivery unwinds, a drop it put off is made and a fault drained. *)
Unwinding(s) ==
  /\ Outside(s) /\ s.run = "idle"
  /\ Disciplined(All(s))
  /\ ~s.dropDeferred => Tidy(s)
  /\ ~s.dropDeferred /\ ~s.faulted => Settles(s) /\ (s.failed => s.dropPending)

LEMMA SettleDeliveryDoes ==
  \A s, e : Unwinding(s) /\ e \in Results =>
    LET t == SettleDelivery(s, e) IN Stays(s, t) \/ Leaves(s, t)
<1> TAKE s, e
<1> SUFFICES ASSUME Unwinding(s), e \in Results
             PROVE  LET t == SettleDelivery(s, e) IN
                    Stays(s, t) \/ Leaves(s, t)
  OBVIOUS
<1>0. /\ s \in ConnRec /\ s.life = "live" /\ ~s.dropping /\ ~s.inDelivery
      /\ s.run = "idle"
  BY DEF Unwinding, Outside
<1>1. CASE s.dropDeferred
  <2> DEFINE x == [s EXCEPT !.dropDeferred = FALSE]
  <2>1. SettleDelivery(s, e) = DropConn(x)
    BY <1>1 DEF SettleDelivery
  <2>2. /\ x \in ConnRec /\ ~x.inDelivery /\ ~x.dropping /\ x.life = "live"
        /\ x.state = s.state /\ x.wire = s.wire /\ x.out = s.out
        /\ x.dropPending = s.dropPending /\ x.deadline = s.deadline
    BY <1>0 DEF ConnRec
  <2> HIDE DEF x
  <2>3. Dropped(x, DropConn(x)) /\ All(x) = All(s)
    BY <2>2, DropConnDrops DEF All
  <2> QED
    BY <1>1, <2>1, <2>2, <2>3 DEF Leaves
<1>2. CASE ~s.dropDeferred /\ s.faulted
  <2>1. SettleDelivery(s, e) = DrainThenDrop(s, e)
    BY <1>2 DEF SettleDelivery
  <2>2. s.proto /\ s.state # "open" /\ Tidy(s)
    BY <1>2 DEF Unwinding, Tidy, Flagged
  <2>3. Tidy(BeginDrain(s))
    BY <1>0, <2>2, TidyDrain
  <2> QED
    BY <1>0, <1>2, <2>1, <2>2, <2>3, DrainThenDropDoes DEF Outside
<1>3. CASE ~s.dropDeferred /\ ~s.faulted
  <2>1. SettleDelivery(s, e) = s
    BY <1>3 DEF SettleDelivery
  <2>2. Tidy(s) /\ Rested(s)
    BY <1>0, <1>3 DEF Unwinding, Rested
  <2> QED
    BY <1>0, <2>1, <2>2 DEF Stays
<1> QED
  BY <1>1, <1>2, <1>3

-----------------------------------------------------------------------------
(* The action properties, of one record.                                   *)

Asks(s, t) ==
  s.run = "idle" /\ s.state = "open" /\ ~s.closeSent /\ t.state = "closing"
    => (PingsFirst => s.asked > IdleTimeout - PingInterval)

Drains(s, t) ==
  /\ ~s.dropping /\ t.dropping
  /\ s.dropPending \/ s.failed \/ s.faulted
  /\ ~s.dropDeferred
  => \/ Len(t.wire) = Len(s.wire) + Len(s.out)
     \/ t.tport = "dead"
     \/ Lapsed(s.deadline)

(* What a callback may make of a session.                                  *)
Sure(s, t) ==
  t \in ConnRec /\ Sound(t) /\ Waits(s, t) /\ Asks(s, t) /\ Drains(s, t)

Session(s) == Running(s) /\ ~s.dropping /\ Sound(s)

LEMMA SessionFields ==
  \A s : Session(s) =>
    /\ s \in ConnRec /\ s.life = "live" /\ ~s.dropping
    /\ Disciplined(All(s)) /\ Tidy(s) /\ Rested(s)
    /\ IF s.run = "idle" THEN Outside(s)
       ELSE s.inDelivery /\ s.state # "handshake"
<1> TAKE s
<1> SUFFICES ASSUME Session(s)
             PROVE  /\ s \in ConnRec /\ s.life = "live" /\ ~s.dropping
                    /\ Disciplined(All(s)) /\ Tidy(s) /\ Rested(s)
                    /\ IF s.run = "idle" THEN Outside(s)
                       ELSE s.inDelivery /\ s.state # "handshake"
  OBVIOUS
<1>1. /\ s \in Good /\ s.life = "live" /\ ~s.dropping /\ Hears(s) /\ Sound(s)
  BY DEF Session, Running
<1>2. s \in ConnRec /\ Lawful(s)
  BY <1>1, GoodFields
<1>3. s.run \in {"idle", "ingest", "onopen", "onmessage", "onpost", "onclose"}
  BY <1>2 DEF ConnRec
<1>4. IF s.run = "idle" THEN Outside(s)
      ELSE s.inDelivery /\ s.state # "handshake"
  BY <1>1, <1>2, <1>3 DEF Lawful, Hears, Outside
<1> QED
  BY <1>1, <1>2, <1>4 DEF Sound

(* Two records that the ends of a callback read alike.                     *)
Aged(s, u) ==
  /\ u.sweepPosted = s.sweepPosted /\ u.state = s.state
  /\ u.dropPending = s.dropPending /\ u.deadline = s.deadline
  /\ u.failed = s.failed /\ u.faulted = s.faulted
  /\ u.dropDeferred = s.dropDeferred /\ All(u) = All(s)

LEMMA AgedEnds ==
  \A s, u, t : Aged(s, u) =>
    /\ Stays(u, t) => Stays(s, t)
    /\ Leaves(u, t) => Leaves(s, t)
<1> TAKE s, u, t
<1> SUFFICES ASSUME Aged(s, u)
             PROVE  /\ Stays(u, t) => Stays(s, t)
                    /\ Leaves(u, t) => Leaves(s, t)
  OBVIOUS
<1>1. Stays(u, t) => Stays(s, t)
  BY DEF Aged, Stays
<1>2. Leaves(u, t) => Leaves(s, t)
  BY DEF Aged, Leaves
<1> QED
  BY <1>1, <1>2

LEMMA StaysSure ==
  \A s, t : Session(s) /\ Stays(s, t) =>
    Sure(s, t) /\ t.sweepPosted = s.sweepPosted
<1> TAKE s, t
<1> SUFFICES ASSUME Session(s), Stays(s, t)
             PROVE  Sure(s, t) /\ t.sweepPosted = s.sweepPosted
  OBVIOUS
<1>1. s \in ConnRec
  BY SessionFields
<1>2. Sound(t) /\ Waits(s, t)
  BY <1>1, StaysSound
<1> QED
  BY <1>2 DEF Stays, Sure, Asks, Drains

LEMMA LeavesSure ==
  \A s, t : Session(s) /\ Leaves(s, t) => Sure(s, t) /\ t.dropping
<1> TAKE s, t
<1> SUFFICES ASSUME Session(s), Leaves(s, t) PROVE Sure(s, t) /\ t.dropping
  OBVIOUS
<1>1. s \in ConnRec /\ Disciplined(All(s))
  BY SessionFields
<1>2. /\ t \in ConnRec /\ t.dropping /\ Sound(t) /\ Waits(s, t)
      /\ \/ Len(t.wire) = Len(All(s)) \/ t.tport = "dead" \/ s.dropDeferred
         \/ ~(s.dropPending \/ s.failed \/ s.faulted)
      /\ t.state \in {s.state, "handshake"}
  BY <1>1, LeavesSound
<1>3. Len(All(s)) = Len(s.wire) + Len(s.out)
  BY <1>1, AllTyped
<1> QED
  BY <1>2, <1>3 DEF Sure, Asks, Drains

(* A session that goes on, seen whole.                                     *)
LEMMA CalmSure ==
  \A s : \A t \in ConnRec :
    /\ t.life = "live" /\ ~t.dropping /\ Tidy(t) /\ Rested(t)
    /\ Waits(s, t) /\ (s.state = "open" /\ s.run = "idle" => t.state = "open")
    => Sure(s, t)
<1> TAKE s
<1> TAKE t \in ConnRec
<1> SUFFICES ASSUME t.life = "live", ~t.dropping, Tidy(t), Rested(t),
                    Waits(s, t),
                    s.state = "open" /\ s.run = "idle" => t.state = "open"
             PROVE  Sure(s, t)
  OBVIOUS
<1>1. Sound(t)
  BY DEF Sound, Tidy, Spoken, Rested, Settles
<1>2. Asks(s, t) /\ Drains(s, t)
  BY DEF Asks, Drains
<1> QED
  BY <1>1, <1>2 DEF Sure

(* What every callback promises of a session.                              *)
Kept(s, t) == Sure(s, t) /\ (~t.dropping => t.sweepPosted = s.sweepPosted)

LEMMA EndsKept ==
  \A s, t : Session(s) /\ (Stays(s, t) \/ Leaves(s, t)) => Kept(s, t)
  BY StaysSure, LeavesSure DEF Kept

-----------------------------------------------------------------------------
(* Callbacks of the transport.                                             *)

LEMMA HandleClosedKept ==
  \A s : Session(s) =>
    Kept(s, ReleaseConn([s EXCEPT !.userData = FALSE, !.dropping = TRUE,
                                  !.tport = "dead"]))
<1> TAKE s
<1> DEFINE x == [s EXCEPT !.userData = FALSE, !.dropping = TRUE,
                          !.tport = "dead"]
<1> SUFFICES ASSUME Session(s) PROVE Kept(s, ReleaseConn(x))
  OBVIOUS
<1>1. s \in ConnRec /\ s.life = "live"
  BY SessionFields
<1>2. /\ x \in ConnRec /\ x.life = "live" /\ x.dropping /\ x.tport = "dead"
      /\ x.state = s.state /\ x.deadline = s.deadline
      /\ x.dropPending = s.dropPending /\ x.wire = s.wire /\ x.out = s.out
  BY <1>1 DEF ConnRec
<1> HIDE DEF x
<1>3. Dropped(x, ReleaseConn(x)) /\ All(x) = All(s)
  BY <1>2, ReleaseConnDrops DEF All
<1>4. Leaves(s, ReleaseConn(x))
  BY <1>2, <1>3 DEF Leaves
<1> QED
  BY <1>4, EndsKept

LEMMA SendReadyKept ==
  \A s, e : Session(s) /\ s.run = "idle" /\ e \in Results =>
    Kept(s, SendReady(s, e))
<1> TAKE s, e
<1> SUFFICES ASSUME Session(s), s.run = "idle", e \in Results
             PROVE  Kept(s, SendReady(s, e))
  OBVIOUS
<1> DEFINE u == [s EXCEPT !.owed = FALSE]
           f == FlushConn(u, e)
           t == SendReady(s, e)
<1>1. Outside(s) /\ s \in ConnRec /\ Tidy(s) /\ Rested(s)
  BY SessionFields
<1>2. t = IF ~f.dropping /\ f.out = <<>> /\ (f.dropPending \/ CloseDone(f))
            THEN DropConn(f) ELSE f
  BY DEF SendReady
<1>3. /\ u \in ConnRec /\ Seated(s, u) /\ Minded(s, u) /\ Clocked(s, u)
      /\ u.sent = s.sent /\ u.wire = s.wire /\ u.out = s.out
  BY <1>1 DEF ConnRec, Seated, Minded, Clocked
<1> HIDE DEF u, t
<1>4. PICK x : Flushed(u, x) /\
        \/ /\ f = x /\ ~OverCap(x)
           /\ IF u.out = <<>> THEN x = u ELSE x.out # <<>> => x.owed
        \/ f = DropConn(x) /\ (x.tport = "dead" \/ OverCap(x))
  BY <1>3, FlushConnDoes
<1> HIDE DEF f
<1>5. /\ Flushed(s, x)
      /\ x \in ConnRec /\ x.life = "live" /\ ~x.dropping /\ ~x.inDelivery
      /\ x.run = "idle" /\ x.sweepPosted = s.sweepPosted
      /\ x.state = s.state /\ x.deadline = s.deadline
      /\ x.dropPending = s.dropPending /\ x.dropDeferred = s.dropDeferred
      /\ x.failed = s.failed /\ x.faulted = s.faulted /\ All(x) = All(s)
  <2>1. All(u) = All(s)
    BY <1>3 DEF All
  <2> QED
    BY <1>1, <1>3, <1>4, <2>1
       DEF Outside, Flushed, Seated, Minded, Clocked
<1>6. Tidy(x)
  BY <1>1, <1>5, TidyFlushed
<1>7. Dropped(x, DropConn(x))
  BY <1>5, DropConnDrops
<1>8. CASE f = x /\ t = DropConn(x) /\ x.out = <<>>
  <2>1. Leaves(s, t)
    BY <1>5, <1>7, <1>8 DEF Leaves
  <2> QED
    BY <2>1, EndsKept DEF t
<1>9. CASE f = x /\ ~OverCap(x) /\ t = x
           /\ (IF u.out = <<>> THEN x = u ELSE x.out # <<>> => x.owed)
  <2>1. x.out # <<>> => x.owed
    BY <1>9
  <2>2. Rested(x)
    BY <1>1, <1>5, <1>9, <2>1 DEF Rested, Settles
  <2>3. Stays(s, t)
    BY <1>5, <1>6, <1>9, <2>2 DEF Stays
  <2> QED
    BY <2>3, EndsKept DEF t
<1>10. CASE f = DropConn(x) /\ (x.tport = "dead" \/ OverCap(x))
  <2>1. t = DropConn(x)
    BY <1>2, <1>7, <1>10 DEF Dropped
  <2>2. OverCap(x) => ~(s.dropPending \/ s.failed \/ s.faulted)
    BY <1>1, <1>5 DEF OverCap, Rested, Outside
  <2>3. Leaves(s, t)
    BY <1>5, <1>7, <1>10, <2>1, <2>2 DEF Leaves
  <2> QED
    BY <2>3, EndsKept DEF t
<1>11. f = x => (t = DropConn(x) /\ x.out = <<>>) \/ t = x
  BY <1>2
<1> QED
  BY <1>4, <1>8, <1>9, <1>10, <1>11

(* The session the ends of a callback start from, and the one it began     *)
(* with: a wait may only have been shortened or given up, a drain neither  *)
(* forgotten nor added to.                                                 *)
Becomes(s, u) ==
  /\ u \in ConnRec /\ Disciplined(All(u))
  /\ s.state # "open" \/ s.dropPending =>
       \/ /\ u.state = s.state /\ u.dropPending = s.dropPending
          /\ u.deadline <= s.deadline
       \/ u.state # s.state /\ s.state # "handshake"
  /\ Asks(s, u)
  /\ (s.dropPending \/ s.failed \/ s.faulted) /\ ~s.dropDeferred =>
       \/ Lapsed(s.deadline)
       \/ /\ u.dropPending \/ u.failed \/ u.faulted
          /\ ~u.dropDeferred /\ Len(All(u)) = Len(All(s))

LEMMA BecomesSure ==
  \A s, u, t :
    Session(s) /\ Becomes(s, u) /\ (Stays(u, t) \/ Leaves(u, t)) =>
      Sure(s, t) /\ (~t.dropping => t.sweepPosted = u.sweepPosted)
<1> TAKE s, u, t
<1> SUFFICES ASSUME Session(s), Becomes(s, u), Stays(u, t) \/ Leaves(u, t)
             PROVE  Sure(s, t) /\ (~t.dropping => t.sweepPosted = u.sweepPosted)
  OBVIOUS
<1>1. u \in ConnRec /\ Disciplined(All(u)) /\ s \in ConnRec
  BY SessionFields DEF Becomes
<1>2. /\ t \in ConnRec /\ Sound(t) /\ Waits(u, t)
      /\ t.state \in {u.state, "handshake"}
      /\ Stays(u, t) => t.state = u.state /\ ~t.dropping
                        /\ t.sweepPosted = u.sweepPosted
      /\ Leaves(u, t) =>
           /\ t.dropping
           /\ \/ Len(t.wire) = Len(All(u)) \/ t.tport = "dead" \/ u.dropDeferred
              \/ ~(u.dropPending \/ u.failed \/ u.faulted)
  BY <1>1, LeavesSound, StaysSound DEF Stays
<1>3. Waits(s, t)
  <2>1. t.deadline \in Nat /\ u.deadline \in Nat /\ s.deadline \in Nat
    BY <1>1, <1>2 DEF ConnRec
  <2> QED
    BY <1>2, <2>1 DEF Becomes, Waits
<1>4. Asks(s, t)
  BY <1>2 DEF Becomes, Asks
<1>5. Drains(s, t)
  <2>1. Len(All(s)) = Len(s.wire) + Len(s.out)
    BY <1>1, AllTyped
  <2> QED
    BY <1>2, <2>1 DEF Becomes, Drains
<1> QED
  BY <1>2, <1>3, <1>4, <1>5 DEF Sure

(* A request's answer: All is empty before it.                             *)
LEMMA Unanswered ==
  \A s : Session(s) /\ s.state = "handshake" /\ ~s.dropPending =>
    /\ All(s) = <<>> /\ s.out = <<>> /\ s.wire = <<>>
    /\ ~s.failed /\ ~s.faulted /\ ~s.closeSent /\ s.sent = 0
    /\ s.run = "idle" /\ ~s.dropDeferred
<1> TAKE s
<1> SUFFICES ASSUME Session(s), s.state = "handshake", ~s.dropPending
             PROVE  /\ All(s) = <<>> /\ s.out = <<>> /\ s.wire = <<>>
                    /\ ~s.failed /\ ~s.faulted /\ ~s.closeSent /\ s.sent = 0
                    /\ s.run = "idle" /\ ~s.dropDeferred
  OBVIOUS
<1>1. s \in ConnRec /\ Tidy(s) /\ Rested(s) /\ s.run = "idle"
  BY SessionFields
<1>2. All(s) = <<>>
  BY <1>1 DEF Tidy, Spoken
<1>3. /\ s.wire \in Seq(Item) /\ s.out \in Seq(Item)
      /\ Len(s.wire) + Len(s.out) = Len(All(s))
  BY <1>1, AllTyped
<1>4. Len(s.wire) = 0 /\ Len(s.out) = 0
  <2>1. Len(s.wire) \in Nat /\ Len(s.out) \in Nat
    BY <1>3
  <2>2. Len(All(s)) = 0
    BY <1>2
  <2>3. \A a, b \in Nat : a + b = 0 => a = 0 /\ b = 0
    OBVIOUS
  <2> QED
    BY <1>3, <2>1, <2>2, <2>3, Zenon
<1>5. s.wire = <<>> /\ s.out = <<>>
  <2>1. \A q \in Seq(Item) : Len(q) = 0 => q = <<>>
    BY EmptySeq
  <2> QED
    BY <1>3, <1>4, <2>1
<1> QED
  BY <1>1, <1>2, <1>5 DEF Tidy, Flagged, Rested

LEMMA RefuseKept ==
  \A s, e : Session(s) /\ s.state = "handshake" /\ ~s.dropPending =>
    Kept(s, Refuse(s, e))
<1> TAKE s, e
<1> SUFFICES ASSUME Session(s), s.state = "handshake", ~s.dropPending
             PROVE  Kept(s, Refuse(s, e))
  OBVIOUS
<1> DEFINE w == Append(s.wire, It("answer"))
           x == IF e = "dead" THEN [s EXCEPT !.tport = "dead"]
                ELSE IF e = "none" THEN s ELSE [s EXCEPT !.wire = w]
           t == DropConn(x)
<1>1. /\ s \in ConnRec /\ Outside(s)
      /\ All(s) = <<>> /\ s.out = <<>> /\ s.wire = <<>>
      /\ ~s.failed /\ ~s.faulted
  BY Unanswered, SessionFields
<1>2. It("answer") \in Item /\ It("answer").kind = "answer"
  BY ItFields
<1>3. w = <<It("answer")>> /\ w \in Seq(Item) /\ w \o <<>> = w
  BY <1>1, <1>2
<1>4. Refuse(s, e) = t
  BY DEF Refuse
<1>5. /\ x \in ConnRec /\ ~x.inDelivery /\ ~x.dropping /\ x.life = "live"
      /\ x.state = "handshake" /\ x.deadline = s.deadline
      /\ x.out = <<>> /\ x.wire \in {<<>>, w}
  <2>1. w \in Seq(Item)
    BY <1>3
  <2> HIDE DEF w
  <2>2. CASE e = "dead"
    BY <1>1, <2>2 DEF Outside, ConnRec
  <2>3. CASE e = "none"
    BY <1>1, <2>3 DEF Outside, ConnRec
  <2>4. CASE e \notin {"dead", "none"}
    BY <1>1, <2>1, <2>4 DEF Outside, ConnRec
  <2> QED
    BY <2>2, <2>3, <2>4
<1> HIDE DEF x
<1>6. Disciplined(All(x))
  <2>1. Disciplined(<<>>) /\ Disciplined(w)
    BY <1>2, <1>3, DisciplinedOne
  <2>2. All(x) \in {<<>>, w}
    BY <1>3, <1>5 DEF All
  <2> QED
    BY <2>1, <2>2
<1>7. Dropped(x, t)
  BY <1>5, DropConnDrops
<1>8. t \in ConnRec /\ t.dropping /\ Sound(t)
  BY <1>5, <1>6, <1>7, DroppedSound
<1>9. Waits(s, t)
  <2>1. s.deadline \in Nat
    BY <1>1 DEF ConnRec
  <2> QED
    BY <1>5, <1>7, <2>1 DEF Waits, Dropped
<1> QED
  BY <1>1, <1>4, <1>8, <1>9 DEF Kept, Sure, Asks, Drains

(* The record that holds the answer to the request.                        *)
LEMMA AnsweredFields ==
  \A s : \A kind \in {"101", "answer"} :
    Session(s) /\ s.state = "handshake" /\ ~s.dropPending =>
    LET q == Queue([s EXCEPT !.proto = TRUE], It(kind)) IN
    /\ q \in ConnRec /\ q.life = "live" /\ q.run = "idle" /\ ~q.inDelivery
    /\ ~q.dropping /\ q.sweepPosted = s.sweepPosted /\ q.proto
    /\ Minded(s, q) /\ Clocked(s, q) /\ q.sent = 0
    /\ All(q) = <<It(kind)>> /\ Disciplined(All(q)) /\ q.out # <<>>
<1> TAKE s
<1> TAKE kind \in {"101", "answer"}
<1> SUFFICES ASSUME Session(s), s.state = "handshake", ~s.dropPending
             PROVE  LET q == Queue([s EXCEPT !.proto = TRUE], It(kind)) IN
                    /\ q \in ConnRec /\ q.life = "live" /\ q.run = "idle"
                    /\ ~q.inDelivery /\ ~q.dropping
                    /\ q.sweepPosted = s.sweepPosted /\ q.proto
                    /\ Minded(s, q) /\ Clocked(s, q) /\ q.sent = 0
                    /\ All(q) = <<It(kind)>> /\ Disciplined(All(q))
                    /\ q.out # <<>>
  OBVIOUS
<1> DEFINE z == [s EXCEPT !.proto = TRUE]
           q == Queue(z, It(kind))
<1>1. /\ s \in ConnRec /\ Outside(s) /\ s.run = "idle" /\ s.sent = 0
      /\ All(s) = <<>> /\ s.out = <<>>
  BY Unanswered, SessionFields
<1>2. It(kind) \in Item /\ It(kind).kind = kind
  BY ItFields
<1>3. /\ z \in ConnRec /\ z.life = "live" /\ z.run = "idle" /\ ~z.inDelivery
      /\ ~z.dropping /\ z.sweepPosted = s.sweepPosted /\ z.proto
      /\ Minded(s, z) /\ Clocked(s, z) /\ z.sent = s.sent
      /\ z.wire = s.wire /\ z.out = s.out
  BY <1>1 DEF Outside, ConnRec, Minded, Clocked
<1> HIDE DEF z
<1>4. /\ q \in ConnRec /\ Seated(z, q) /\ Minded(z, q) /\ Clocked(z, q)
      /\ q.sent = z.sent /\ All(q) = Append(All(z), It(kind))
      /\ q.out = Append(z.out, It(kind))
  BY <1>2, <1>3, QueueDoes
<1> HIDE DEF q
<1>5. All(q) = <<It(kind)>> /\ q.out # <<>>
  <2>1. All(z) = <<>> /\ z.out = <<>>
    BY <1>1, <1>3 DEF All
  <2> QED
    BY <1>4, <2>1
<1>6. Disciplined(All(q))
  BY <1>2, <1>5, DisciplinedOne
<1>7. /\ Minded(s, q) /\ Clocked(s, q) /\ q.life = "live" /\ q.run = "idle"
      /\ ~q.inDelivery /\ ~q.dropping /\ q.sweepPosted = s.sweepPosted
      /\ q.proto /\ q.sent = 0
  BY <1>1, <1>3, <1>4 DEF Minded, Clocked, Seated
<1> QED
  BY <1>4, <1>5, <1>6, <1>7 DEF q, z

LEMMA AnswerKept ==
  \A s, e : Session(s) /\ s.state = "handshake" /\ ~s.dropPending
            /\ e \in Results => Kept(s, Answer(s, e))
<1> TAKE s, e
<1> SUFFICES ASSUME Session(s), s.state = "handshake", ~s.dropPending,
                    e \in Results
             PROVE  Kept(s, Answer(s, e))
  OBVIOUS
<1> DEFINE q == Queue([s EXCEPT !.proto = TRUE], It("answer"))
           b == BeginDrain(q)
           t == DrainThenDrop(q, e)
<1>1. Answer(s, e) = t
  BY DEF Answer
<1>2. /\ q \in ConnRec /\ q.life = "live" /\ q.run = "idle" /\ ~q.inDelivery
      /\ ~q.dropping /\ q.sweepPosted = s.sweepPosted /\ q.proto
      /\ Minded(s, q) /\ Clocked(s, q) /\ q.sent = 0
      /\ Disciplined(All(q))
  BY AnsweredFields
<1>3. ~s.failed /\ ~s.faulted /\ ~s.closeSent /\ ~s.dropDeferred
      /\ s \in ConnRec
  BY Unanswered, SessionFields
<1> HIDE DEF q
<1>4. /\ Seated(q, b) /\ Quiet(q, b)
      /\ b.state = q.state /\ b.closeSent = q.closeSent /\ b.failed = q.failed
      /\ b.faulted = q.faulted /\ b.dropPending
      /\ b.pingDue = 0 /\ Scheduled(b)
  BY <1>2, BeginDrainDoes DEF Minded
<1> HIDE DEF b
<1>5. Tidy(b)
  <2>1. All(b) = All(q) /\ b.sent = 0 /\ b.proto
    BY <1>2, <1>4 DEF All, Quiet, Seated
  <2> QED
    BY <1>2, <1>3, <1>4, <2>1 DEF Minded, Tidy, Spoken, Flagged, Asked
<1>6. Stays(q, t) \/ Leaves(q, t)
  BY <1>2, <1>3, <1>5, DrainThenDropDoes DEF Outside, Minded, b
<1>7. Becomes(s, q)
  <2>1. s.deadline \in Nat
    BY <1>3 DEF ConnRec
  <2> QED
    BY <1>2, <1>3, <2>1 DEF Becomes, Minded, Clocked, Asks
<1> QED
  BY <1>1, <1>2, <1>6, <1>7, BecomesSure DEF Kept

(* The 101 is out or on its way, and OnOpen is called.                     *)
LEMMA UpgradeKept ==
  \A s, e : \A left \in Seq(FrameKinds) :
    Session(s) /\ s.state = "handshake" /\ ~s.dropPending /\ e \in Results
      => Kept(s, Upgrade(s, e, left))
<1> TAKE s, e
<1> TAKE left \in Seq(FrameKinds)
<1> SUFFICES ASSUME Session(s), s.state = "handshake", ~s.dropPending,
                    e \in Results
             PROVE  Kept(s, Upgrade(s, e, left))
  OBVIOUS
<1> DEFINE q == Queue([s EXCEPT !.proto = TRUE], It("101"))
           f == FlushConn(q, e)
           y == [f EXCEPT !.state = "open"]
           n == NoteActivity(y)
           r == [n EXCEPT !.inDelivery = TRUE, !.run = "onopen",
                          !.opened = TRUE, !.todo = left]
           t == Upgrade(s, e, left)
<1>1. t = IF f.dropping THEN f ELSE r
  BY DEF Upgrade
<1>2. /\ q \in ConnRec /\ q.life = "live" /\ q.run = "idle" /\ ~q.inDelivery
      /\ ~q.dropping /\ q.sweepPosted = s.sweepPosted /\ q.proto
      /\ Minded(s, q) /\ Clocked(s, q) /\ q.sent = 0
      /\ All(q) = <<It("101")>> /\ Disciplined(All(q)) /\ q.out # <<>>
  BY AnsweredFields
<1>3. /\ ~s.failed /\ ~s.faulted /\ ~s.closeSent /\ ~s.dropDeferred
      /\ s \in ConnRec
  BY Unanswered, SessionFields
<1> HIDE DEF q, t
<1>4. PICK x : Flushed(q, x) /\
        \/ /\ f = x /\ ~OverCap(x)
           /\ IF q.out = <<>> THEN x = q ELSE x.out # <<>> => x.owed
        \/ f = DropConn(x) /\ (x.tport = "dead" \/ OverCap(x))
  BY <1>2, FlushConnDoes
<1> HIDE DEF f
<1>5. /\ x \in ConnRec /\ x.life = "live" /\ x.run = "idle" /\ ~x.inDelivery
      /\ ~x.dropping /\ x.sweepPosted = s.sweepPosted /\ x.proto
      /\ x.state = "handshake" /\ ~x.closeSent /\ ~x.failed /\ ~x.faulted
      /\ ~x.dropPending /\ ~x.dropDeferred /\ x.deadline = s.deadline
      /\ x.sent = 0 /\ All(x) = <<It("101")>> /\ Disciplined(All(x))
  BY <1>2, <1>3, <1>4 DEF Flushed, Seated, Minded, Clocked
<1>6. CASE f = DropConn(x)
  <2>1. Dropped(x, f)
    BY <1>5, <1>6, DropConnDrops
  <2>2. f \in ConnRec /\ f.dropping /\ Sound(f)
    BY <1>5, <2>1, DroppedSound
  <2>3. f.deadline <= s.deadline
    <3>1. s.deadline \in Nat
      BY <1>3 DEF ConnRec
    <3>2. f.deadline \in {0, s.deadline}
      BY <1>5, <2>1 DEF Dropped
    <3> QED
      BY <3>1, <3>2
  <2>4. Sure(s, f)
    BY <1>3, <2>2, <2>3 DEF Sure, Waits, Asks, Drains
  <2> QED
    BY <1>1, <2>2, <2>4 DEF Kept, t
<1>7. CASE f = x /\ ~OverCap(x) /\ (x.out # <<>> => x.owed)
  <2>1. /\ y \in ConnRec /\ y.state = "open" /\ y.life = "live"
        /\ ~y.dropping /\ y.sweepPosted = s.sweepPosted /\ y.proto
        /\ ~y.closeSent /\ ~y.failed /\ ~y.faulted /\ ~y.dropPending
        /\ y.sent = 0 /\ y.wire = x.wire /\ y.out = x.out /\ y.owed = x.owed
        /\ ~y.dropDeferred
    BY <1>5, <1>7 DEF ConnRec
  <2> HIDE DEF y
  <2>2. All(y) = <<It("101")>> /\ Disciplined(All(y))
    BY <1>5, <2>1 DEF All
  <2>3. Spoken(y)
    <3>1. It("101") \in Item /\ It("101").kind = "101"
      BY ItFields
    <3>2. /\ Unfinished(<<It("101")>>)
          /\ Cardinality(DataAmong(<<It("101")>>, 1)) = 0
      BY <3>1, DisciplinedOne
    <3>3. Len(<<It("101")>>) = 1
      OBVIOUS
    <3> QED
      BY <2>1, <2>2, <3>2, <3>3 DEF Spoken
  <2>4. Flagged(y) /\ ~Waiting(y)
    BY <2>1 DEF Flagged, Waiting
  <2>5. Tidy(n)
    BY <2>1, <2>3, <2>4, ActivityTidies
  <2>6. n \in ConnRec /\ Seated(y, n) /\ Minded(y, n) /\ Quiet(y, n)
    BY <2>1, NoteActivityDoes
  <2> HIDE DEF n
  <2>7. /\ r \in ConnRec /\ r.life = "live" /\ ~r.dropping
        /\ r.run = "onopen" /\ r.sweepPosted = s.sweepPosted
        /\ r.state = "open" /\ r.out = x.out /\ r.owed = x.owed
        /\ ~r.dropPending /\ ~r.failed
    <3>1. /\ r \in ConnRec /\ r.life = n.life /\ r.dropping = n.dropping
          /\ r.run = "onopen" /\ r.sweepPosted = n.sweepPosted
          /\ r.state = n.state /\ r.out = n.out /\ r.owed = n.owed
          /\ r.dropPending = n.dropPending /\ r.failed = n.failed
      BY <2>6 DEF ConnRec
    <3> QED
      BY <2>1, <2>6, <3>1 DEF Seated, Minded, Quiet
  <2>8. Matched(n, r)
    <3>1. /\ r.wire = n.wire /\ r.out = n.out /\ r.state = n.state
          /\ r.closeSent = n.closeSent /\ r.failed = n.failed
          /\ r.faulted = n.faulted /\ r.dropPending = n.dropPending
          /\ r.proto = n.proto /\ r.sent = n.sent /\ Clocked(n, r)
      BY <2>6 DEF ConnRec, Clocked
    <3> QED
      BY <3>1 DEF Matched, All
  <2> HIDE DEF r
  <2>9. Tidy(r)
    BY <2>5, <2>8, TidyMatched
  <2>10. Rested(r)
    BY <1>5, <1>7, <2>7 DEF Rested, Settles, OverCap
  <2>11. Waits(s, r)
    BY <2>7 DEF Waits
  <2>12. Sure(s, r)
    BY <2>7, <2>9, <2>10, <2>11, CalmSure
  <2>13. ~f.dropping
    BY <1>5, <1>7
  <2>14. t = r
    BY <1>1, <2>13 DEF r, n, y
  <2> QED
    BY <2>7, <2>12, <2>14 DEF Kept, t
<1> QED
  BY <1>2, <1>4, <1>6, <1>7

(* What Rested asks of a session inside the frame loop is nothing.         *)
LEMMA LoopRested == \A s : s.run \in {"ingest", "onmessage"} => Rested(s)
  BY DEF Rested

(* A read: the clocks are renewed, unless they are not traffic's to touch. *)
LEMMA ActivityKept ==
  \A s : Session(s) => LET t == NoteActivity(s) IN
    /\ t \in ConnRec /\ Seated(s, t) /\ Minded(s, t) /\ Quiet(s, t)
    /\ Tidy(t) /\ Waits(s, t)
<1> TAKE s
<1> SUFFICES ASSUME Session(s)
             PROVE  LET t == NoteActivity(s) IN
                    /\ t \in ConnRec /\ Seated(s, t) /\ Minded(s, t)
                    /\ Quiet(s, t) /\ Tidy(t) /\ Waits(s, t)
  OBVIOUS
<1> DEFINE t == NoteActivity(s)
<1>1. s \in ConnRec /\ Tidy(s)
  BY SessionFields
<1>2. /\ t \in ConnRec /\ Seated(s, t) /\ Minded(s, t) /\ Quiet(s, t)
      /\ Waiting(s) => t = s
  BY <1>1, NoteActivityDoes
<1>3. ~Waiting(s) => Tidy(t)
  BY <1>1, ActivityTidies DEF Tidy
<1> HIDE DEF t
<1>4. Tidy(t)
  BY <1>1, <1>2, <1>3
<1>5. Waits(s, t)
  <2>1. s.deadline \in Nat
    BY <1>1 DEF ConnRec
  <2> QED
    BY <1>2, <2>1 DEF Waits, Waiting
<1> QED
  BY <1>2, <1>4, <1>5 DEF t

LEMMA HandleDataKept ==
  \A s : \A frames \in Seq(FrameKinds) :
    Session(s) /\ s.run = "idle" =>
      Kept(s, [StartIngest(NoteActivity(s), frames) EXCEPT !.reads = @ + 1])
<1> TAKE s
<1> TAKE frames \in Seq(FrameKinds)
<1> SUFFICES ASSUME Session(s), s.run = "idle"
             PROVE  Kept(s, [StartIngest(NoteActivity(s), frames)
                               EXCEPT !.reads = @ + 1])
  OBVIOUS
<1> DEFINE n == NoteActivity(s)
           w == IF Deaf(n) THEN <<>> ELSE frames
           m == StartIngest(n, frames)
           t == [m EXCEPT !.reads = @ + 1]
<1>1. s \in ConnRec /\ s.life = "live" /\ ~s.dropping
  BY SessionFields
<1>2. /\ n \in ConnRec /\ Seated(s, n) /\ Minded(s, n) /\ Quiet(s, n)
      /\ Tidy(n) /\ Waits(s, n)
  BY ActivityKept
<1> HIDE DEF n
<1>3. m = [n EXCEPT !.inDelivery = TRUE, !.run = "ingest", !.todo = w]
  BY DEF StartIngest
<1>4. w \in Seq(FrameKinds)
  OBVIOUS
<1> HIDE DEF w, m
<1>5. /\ t \in ConnRec /\ t.life = "live" /\ ~t.dropping
      /\ t.run = "ingest" /\ t.sweepPosted = s.sweepPosted
      /\ t.wire = n.wire /\ t.out = n.out /\ t.state = n.state
      /\ t.closeSent = n.closeSent /\ t.failed = n.failed
      /\ t.faulted = n.faulted /\ t.dropPending = n.dropPending
      /\ t.proto = n.proto /\ t.sent = n.sent /\ Clocked(n, t)
  <2>1. /\ m \in ConnRec /\ m.life = n.life /\ m.dropping = n.dropping
        /\ m.run = "ingest" /\ m.sweepPosted = n.sweepPosted
        /\ m.wire = n.wire /\ m.out = n.out /\ m.state = n.state
        /\ m.closeSent = n.closeSent /\ m.failed = n.failed
        /\ m.faulted = n.faulted /\ m.dropPending = n.dropPending
        /\ m.proto = n.proto /\ m.sent = n.sent /\ Clocked(n, m)
    BY <1>2, <1>3, <1>4 DEF ConnRec, Clocked
  <2> HIDE DEF m
  <2>3. m \in ConnRec /\ m.reads + 1 \in Nat
    BY <2>1 DEF ConnRec
  <2>2. /\ t \in ConnRec /\ t.life = m.life /\ t.dropping = m.dropping
        /\ t.run = m.run /\ t.sweepPosted = m.sweepPosted
        /\ t.wire = m.wire /\ t.out = m.out /\ t.state = m.state
        /\ t.closeSent = m.closeSent /\ t.failed = m.failed
        /\ t.faulted = m.faulted /\ t.dropPending = m.dropPending
        /\ t.proto = m.proto /\ t.sent = m.sent /\ Clocked(m, t)
    BY <2>3 DEF ConnRec, Clocked
  <2> HIDE DEF t
  <2> QED
    BY <1>1, <1>2, <2>1, <2>2 DEF Clocked, Seated
<1> HIDE DEF t
<1>6. Matched(n, t)
  BY <1>5 DEF Matched, All
<1>7. Tidy(t) /\ Rested(t)
  BY <1>2, <1>5, <1>6, TidyMatched, LoopRested
<1>8. Waits(s, t)
  BY <1>2, <1>5 DEF Waits, Clocked
<1>9. t.state = s.state
  BY <1>2, <1>5 DEF Minded
<1>10. Sure(s, t)
  BY <1>5, <1>7, <1>8, <1>9, CalmSure
<1> QED
  BY <1>5, <1>10 DEF Kept, m, n, t

-----------------------------------------------------------------------------
(* The frame loop.                                                         *)

(* Our close frame, whatever else is noted with it.                        *)
LEMMA SendCloseTidies ==
  \A s, z \in ConnRec :
    /\ Tidy(s) /\ s.state # "handshake"
    /\ z.wire = s.wire /\ z.out = s.out /\ z.closeSent = s.closeSent
    /\ z.sent = s.sent /\ z.proto = s.proto /\ Clocked(s, z)
    /\ z.dropPending = s.dropPending /\ z.state = s.state
    /\ z.faulted = s.faulted
    => Tidy(SendClose(z))
<1> TAKE s, z \in ConnRec
<1> SUFFICES ASSUME Tidy(s), s.state # "handshake",
                    z.wire = s.wire, z.out = s.out, z.closeSent = s.closeSent,
                    z.sent = s.sent, z.proto = s.proto, Clocked(s, z),
                    z.dropPending = s.dropPending, z.state = s.state,
                    z.faulted = s.faulted
             PROVE  Tidy(SendClose(z))
  OBVIOUS
<1> DEFINE t == SendClose(z)
<1>1. /\ t \in ConnRec /\ Seated(z, t) /\ Clocked(z, t) /\ t.sent = z.sent
      /\ t.state = z.state /\ t.faulted = z.faulted
      /\ t.dropPending = z.dropPending
      /\ t.closeSent /\ All(t) = Closed(z)
  BY SendCloseDoes
<1> HIDE DEF t
<1>2. Closed(z) = Closed(s)
  BY DEF Closed, All
<1>3. Spoken(s) /\ Flagged(s) /\ Scheduled(s)
  BY DEF Tidy
<1>4. /\ t.proto /\ (t.faulted => t.state # "open")
      /\ (t.dropPending => t.pingDue = 0)
  BY <1>1, <1>3 DEF Flagged, Seated, Clocked
<1>5. Scheduled(t)
  BY <1>1, <1>3 DEF Scheduled, NextCheck, Clocked
<1> QED
  BY <1>1, <1>2, <1>3, <1>4, <1>5, TidyClosed DEF t

LEMMA ParseFrameTidies ==
  \A s : \A f \in FrameKinds : Session(s) /\ s.run = "ingest" =>
    LET t == ParseFrame(s, f) IN
    /\ t \in ConnRec /\ Tidy(t) /\ t.life = "live" /\ ~t.dropping
    /\ t.sweepPosted = s.sweepPosted /\ t.run \in {"ingest", "onmessage"}
    /\ t.state = s.state /\ t.deadline = s.deadline
<1> TAKE s
<1> TAKE f \in FrameKinds
<1> SUFFICES ASSUME Session(s), s.run = "ingest"
             PROVE  LET t == ParseFrame(s, f) IN
                    /\ t \in ConnRec /\ Tidy(t) /\ t.life = "live"
                    /\ ~t.dropping /\ t.sweepPosted = s.sweepPosted
                    /\ t.run \in {"ingest", "onmessage"}
                    /\ t.state = s.state /\ t.deadline = s.deadline
  OBVIOUS
<1> DEFINE t == ParseFrame(s, f)
<1>1. /\ s \in ConnRec /\ s.life = "live" /\ ~s.dropping /\ Tidy(s)
      /\ s.state # "handshake"
  BY SessionFields
<1>2. CASE f = "msg" /\ s.dropDeferred
  <2>1. t = s
    BY <1>2 DEF ParseFrame
  <2> QED
    BY <1>1, <2>1
<1>3. CASE f = "msg" /\ ~s.dropDeferred
  <2> DEFINE m == [s EXCEPT !.run = "onmessage"]
  <2>1. t = m
    BY <1>3 DEF ParseFrame
  <2>2. /\ m \in ConnRec /\ m.life = "live" /\ ~m.dropping
        /\ m.sweepPosted = s.sweepPosted /\ m.run = "onmessage"
        /\ m.state = s.state /\ m.deadline = s.deadline
    BY <1>1 DEF ConnRec
  <2>3. Matched(s, m)
    BY <1>1 DEF ConnRec, Matched, Clocked, All
  <2> HIDE DEF m
  <2>4. Tidy(m)
    BY <1>1, <2>3, TidyMatched
  <2> QED
    BY <2>1, <2>2, <2>4
<1>4. CASE f = "ping"
  <2>1. t = SendFrame(s, It("pong"))
    BY <1>4 DEF ParseFrame
  <2>2. Tidy(t)
    BY <1>1, <2>1, TidyFramed
  <2>3. /\ t \in ConnRec /\ Seated(s, t) /\ Minded(s, t) /\ Clocked(s, t)
    BY <1>1, <2>1, SendFrameDoes
  <2> HIDE DEF t
  <2> QED
    BY <1>1, <2>2, <2>3 DEF Seated, Minded, Clocked, t
<1>5. CASE f = "close"
  <2> DEFINE z == [s EXCEPT !.closeRecv = TRUE]
  <2>1. t = SendClose(z)
    BY <1>5 DEF ParseFrame
  <2>2. /\ z \in ConnRec /\ z.life = "live" /\ ~z.dropping
        /\ z.sweepPosted = s.sweepPosted /\ z.run = "ingest"
        /\ z.wire = s.wire /\ z.out = s.out /\ z.closeSent = s.closeSent
        /\ z.sent = s.sent /\ z.proto = s.proto /\ Clocked(s, z)
        /\ z.dropPending = s.dropPending /\ z.state = s.state
        /\ z.faulted = s.faulted
    BY <1>1 DEF ConnRec, Clocked
  <2> HIDE DEF z
  <2>3. Tidy(t)
    BY <1>1, <2>1, <2>2, SendCloseTidies
  <2>4. t \in ConnRec /\ Seated(z, t) /\ Clocked(z, t) /\ t.state = z.state
    BY <2>1, <2>2, SendCloseDoes
  <2> HIDE DEF t
  <2> QED
    BY <2>2, <2>3, <2>4 DEF Seated, Clocked, t
<1>6. CASE f = "bad"
  <2> DEFINE z == [s EXCEPT !.failed = TRUE]
  <2>1. t = SendClose(z)
    BY <1>6 DEF ParseFrame, Fail
  <2>2. /\ z \in ConnRec /\ z.life = "live" /\ ~z.dropping
        /\ z.sweepPosted = s.sweepPosted /\ z.run = "ingest"
        /\ z.wire = s.wire /\ z.out = s.out /\ z.closeSent = s.closeSent
        /\ z.sent = s.sent /\ z.proto = s.proto /\ Clocked(s, z)
        /\ z.dropPending = s.dropPending /\ z.state = s.state
        /\ z.faulted = s.faulted
    BY <1>1 DEF ConnRec, Clocked
  <2> HIDE DEF z
  <2>3. Tidy(t)
    BY <1>1, <2>1, <2>2, SendCloseTidies
  <2>4. t \in ConnRec /\ Seated(z, t) /\ Clocked(z, t) /\ t.state = z.state
    BY <2>1, <2>2, SendCloseDoes
  <2> HIDE DEF t
  <2> QED
    BY <2>2, <2>3, <2>4 DEF Seated, Clocked, t
<1> QED
  BY <1>2, <1>3, <1>4, <1>5, <1>6 DEF FrameKinds

(* A change of what is left to parse is nothing to any of this.            *)
LEMMA TodoNothing ==
  \A t \in ConnRec : \A w \in Seq(FrameKinds) :
    LET r == [t EXCEPT !.todo = w] IN
    /\ r \in ConnRec /\ Matched(t, r) /\ Quiet(t, r) /\ Seated(t, r)
    /\ r.dropDeferred = t.dropDeferred /\ r.tport = t.tport
<1> TAKE t \in ConnRec
<1> TAKE w \in Seq(FrameKinds)
<1> DEFINE r == [t EXCEPT !.todo = w]
<1>1. r \in ConnRec
  BY DEF ConnRec
<1>2. Matched(t, r)
  BY DEF ConnRec, Matched, Clocked, All
<1>3. /\ Quiet(t, r) /\ Seated(t, r) /\ r.dropDeferred = t.dropDeferred
      /\ r.tport = t.tport
  BY DEF ConnRec, Quiet, Seated
<1> QED
  BY <1>1, <1>2, <1>3

LEMMA IngestFrameKept ==
  \A s : \A f \in FrameKinds, w \in Seq(FrameKinds) :
    Session(s) /\ s.run = "ingest" =>
      Kept(s, [ParseFrame(s, f) EXCEPT !.todo = w])
<1> TAKE s
<1> TAKE f \in FrameKinds, w \in Seq(FrameKinds)
<1> SUFFICES ASSUME Session(s), s.run = "ingest"
             PROVE  Kept(s, [ParseFrame(s, f) EXCEPT !.todo = w])
  OBVIOUS
<1> DEFINE t == ParseFrame(s, f)
           r == [t EXCEPT !.todo = w]
<1>1. /\ t \in ConnRec /\ Tidy(t) /\ t.life = "live" /\ ~t.dropping
      /\ t.sweepPosted = s.sweepPosted /\ t.run \in {"ingest", "onmessage"}
      /\ t.state = s.state /\ t.deadline = s.deadline
  BY ParseFrameTidies
<1> HIDE DEF t
<1>2. r \in ConnRec /\ Matched(t, r) /\ Seated(t, r)
  BY <1>1, TodoNothing
<1> HIDE DEF r
<1>3. Tidy(r)
  BY <1>1, <1>2, TidyMatched
<1>4. Rested(r)
  BY <1>1, <1>2, LoopRested DEF Seated
<1>5. Waits(s, r)
  <2>1. s.deadline \in Nat
    BY SessionFields DEF ConnRec
  <2> QED
    BY <1>1, <1>2, <2>1 DEF Waits, Matched, Clocked
<1>6. /\ r.life = "live" /\ ~r.dropping /\ r.state = s.state
      /\ r.sweepPosted = s.sweepPosted
  BY <1>1, <1>2 DEF Matched, Seated
<1>7. Sure(s, r)
  BY <1>2, <1>3, <1>4, <1>5, <1>6, CalmSure
<1> QED
  BY <1>6, <1>7 DEF Kept, r, t

-----------------------------------------------------------------------------
(* The ends of a delivery.                                                 *)

LEMMA UnwoundFields ==
  \A s \in ConnRec : s.life = "live" /\ ~s.dropping =>
    LET u == Unwound(s) IN
    /\ Outside(u) /\ u.run = "idle" /\ Aged(s, u) /\ Matched(s, u)
    /\ Quiet(s, u)
<1> TAKE s \in ConnRec
<1> SUFFICES ASSUME s.life = "live", ~s.dropping
             PROVE  LET u == Unwound(s) IN
                    /\ Outside(u) /\ u.run = "idle" /\ Aged(s, u)
                    /\ Matched(s, u) /\ Quiet(s, u)
  OBVIOUS
<1> DEFINE u == Unwound(s)
<1>1. Outside(u) /\ u.run = "idle"
  BY DEF Unwound, Outside, ConnRec
<1>2. Quiet(s, u) /\ Matched(s, u)
  BY DEF Unwound, ConnRec, Quiet, Matched, Clocked, All
<1>3. /\ u.sweepPosted = s.sweepPosted /\ u.state = s.state
      /\ u.dropPending = s.dropPending /\ u.deadline = s.deadline
      /\ u.failed = s.failed /\ u.faulted = s.faulted
      /\ u.dropDeferred = s.dropDeferred
  BY DEF Unwound, ConnRec
<1> HIDE DEF u
<1>4. Aged(s, u)
  BY <1>2, <1>3 DEF Aged, Quiet, All
<1> QED
  BY <1>1, <1>2, <1>4 DEF u

(* A handler is done that ran outside the frame loop.                      *)
LEMMA SettledEnds ==
  \A s, e : Session(s) /\ s.run \in {"onopen", "onpost"} /\ e \in Results =>
    LET t == Settled(s, e) IN Stays(s, t) \/ Leaves(s, t)
<1> TAKE s, e
<1> SUFFICES ASSUME Session(s), s.run \in {"onopen", "onpost"}, e \in Results
             PROVE  LET t == Settled(s, e) IN Stays(s, t) \/ Leaves(s, t)
  OBVIOUS
<1> DEFINE u == Unwound(s)
<1>1. /\ s \in ConnRec /\ s.life = "live" /\ ~s.dropping /\ Tidy(s)
      /\ Disciplined(All(s)) /\ Rested(s)
  BY SessionFields
<1>2. /\ Outside(u) /\ u.run = "idle" /\ Aged(s, u) /\ Matched(s, u)
      /\ Quiet(s, u)
  BY <1>1, UnwoundFields
<1>3. Settled(s, e) = SettleDelivery(u, e)
  BY DEF Settled, Unwound
<1> HIDE DEF u
<1>4. Tidy(u)
  BY <1>1, <1>2, TidyMatched
<1>5. /\ s.dropDeferred \/ Settles(s)
      /\ s.failed => s.dropPending
  BY <1>1 DEF Rested
<1>6. Unwinding(u)
  <2>1. Disciplined(All(u))
    BY <1>1, <1>2 DEF Aged
  <2>2. Settles(s) => Settles(u)
    BY <1>2 DEF Settles, OverCap, Quiet, Aged
  <2> QED
    BY <1>2, <1>4, <1>5, <2>1, <2>2 DEF Unwinding, Aged
<1>7. Stays(u, SettleDelivery(u, e)) \/ Leaves(u, SettleDelivery(u, e))
  BY <1>6, SettleDeliveryDoes
<1> QED
  BY <1>2, <1>3, <1>7, AgedEnds

LEMMA PostReturnsKept ==
  \A s, e : Session(s) /\ s.run = "onpost" /\ e \in Results =>
    Kept(s, Settled(s, e))
  BY SettledEnds, EndsKept

(* OnOpen is done: what was pipelined behind the request is read.          *)
LEMMA AfterOpenKept ==
  \A s, e : Session(s) /\ s.run = "onopen" /\ e \in Results =>
    Kept(s, AfterOpen(s, e))
<1> TAKE s, e
<1> SUFFICES ASSUME Session(s), s.run = "onopen", e \in Results
             PROVE  Kept(s, AfterOpen(s, e))
  OBVIOUS
<1> DEFINE t == Settled(s, e)
           m == StartIngest(t, s.todo)
           r == [t EXCEPT !.todo = <<>>]
<1>1. s \in ConnRec /\ s.todo \in Seq(FrameKinds) /\ s.life = "live"
      /\ ~s.dropping
  BY SessionFields DEF ConnRec
<1>2. AfterOpen(s, e) =
        IF t.state = "open" /\ ~s.dropDeferred /\ ~s.faulted /\ s.todo # <<>>
          THEN m ELSE r
  BY DEF AfterOpen
<1>3. Stays(s, t) \/ Leaves(s, t)
  BY SettledEnds
<1>4. ~s.dropDeferred /\ ~s.faulted => ~t.dropping
  BY <1>1 DEF Settled, SettleDelivery, ConnRec
<1> HIDE DEF t
<1>5. CASE Stays(s, t)
  <2>1. /\ t \in ConnRec /\ t.life = "live" /\ ~t.dropping
        /\ t.sweepPosted = s.sweepPosted /\ t.state = s.state
        /\ Tidy(t) /\ Rested(t) /\ Waits(s, t)
    BY <1>1, <1>5, StaysSound DEF Stays
  <2>2. Kept(s, m)
    <3> DEFINE w == IF Deaf(t) THEN <<>> ELSE s.todo
    <3>1. m = [t EXCEPT !.inDelivery = TRUE, !.run = "ingest", !.todo = w]
      BY DEF StartIngest
    <3>2. w \in Seq(FrameKinds)
      BY <1>1
    <3> HIDE DEF w, m
    <3>3. /\ m \in ConnRec /\ m.life = t.life /\ m.dropping = t.dropping
          /\ m.run = "ingest" /\ m.sweepPosted = t.sweepPosted
          /\ m.wire = t.wire /\ m.out = t.out /\ m.state = t.state
          /\ m.closeSent = t.closeSent /\ m.failed = t.failed
          /\ m.faulted = t.faulted /\ m.dropPending = t.dropPending
          /\ m.proto = t.proto /\ m.sent = t.sent /\ Clocked(t, m)
      BY <2>1, <3>1, <3>2 DEF ConnRec, Clocked
    <3>4. Matched(t, m)
      BY <3>3 DEF Matched, All
    <3>5. Tidy(m) /\ Rested(m)
      BY <2>1, <3>3, <3>4, TidyMatched, LoopRested
    <3>6. Waits(s, m)
      BY <2>1, <3>3 DEF Waits, Clocked
    <3>7. Sure(s, m)
      BY <2>1, <3>3, <3>5, <3>6, CalmSure
    <3> QED
      BY <2>1, <3>3, <3>7 DEF Kept
  <2>3. Kept(s, r)
    <3>1. /\ r \in ConnRec /\ Matched(t, r) /\ Quiet(t, r) /\ Seated(t, r)
          /\ r.dropDeferred = t.dropDeferred
      <4>1. <<>> \in Seq(FrameKinds)
        OBVIOUS
      <4> QED
        BY <2>1, <4>1, TodoNothing
    <3> HIDE DEF r
    <3>2. Tidy(r)
      BY <2>1, <3>1, TidyMatched
    <3>3. Rested(r)
      BY <2>1, <3>1 DEF Rested, Settles, OverCap, Matched, Quiet, Seated
    <3>4. Waits(s, r)
      BY <2>1, <3>1 DEF Waits, Matched, Clocked
    <3>5. /\ r.life = "live" /\ ~r.dropping /\ r.state = s.state
          /\ r.sweepPosted = s.sweepPosted
      BY <2>1, <3>1 DEF Matched, Seated
    <3>6. Sure(s, r)
      BY <3>1, <3>2, <3>3, <3>4, <3>5, CalmSure
    <3> QED
      BY <3>5, <3>6 DEF Kept
  <2> QED
    BY <1>2, <2>2, <2>3
<1>6. CASE Leaves(s, t)
  <2>1. PICK x \in ConnRec :
          /\ Dropped(x, t) /\ x.life = "live" /\ All(x) = All(s)
          /\ x.state = s.state
          /\ x.dropPending = s.dropPending => x.deadline = s.deadline
          /\ \/ x.out = <<>> \/ x.tport = "dead" \/ s.dropDeferred
             \/ ~(s.dropPending \/ s.failed \/ s.faulted)
    BY <1>6 DEF Leaves
  <2>2. t \in ConnRec /\ t.dropping
    BY <2>1 DEF Dropped
  <2>3. AfterOpen(s, e) = r
    BY <1>2, <1>4, <2>2
  <2>4. /\ r \in ConnRec /\ Matched(t, r) /\ Quiet(t, r) /\ Seated(t, r)
        /\ r.tport = t.tport
    <3>1. <<>> \in Seq(FrameKinds)
      OBVIOUS
    <3> QED
      BY <2>2, <3>1, TodoNothing
  <2> HIDE DEF r
  <2>5. Dropped(x, r)
    BY <2>1, <2>4 DEF Dropped, Matched, Clocked, Quiet, Seated
  <2>6. Leaves(s, r)
    BY <2>1, <2>5 DEF Leaves
  <2> QED
    BY <2>3, <2>6, EndsKept
<1> QED
  BY <1>3, <1>5, <1>6

(* The frame loop is done.                                                 *)
LEMMA IngestDoneKept ==
  \A s, e : Session(s) /\ s.run = "ingest" /\ e \in Results =>
    Kept(s, IngestDone(s, e))
<1> TAKE s, e
<1> SUFFICES ASSUME Session(s), s.run = "ingest", e \in Results
             PROVE  Kept(s, IngestDone(s, e))
  OBVIOUS
<1> DEFINE u == Unwound(s)
           v == FlushConn(u, e)
           t == IngestDone(s, e)
<1>1. t = IF u.dropDeferred \/ u.faulted THEN SettleDelivery(u, e)
          ELSE IF u.failed THEN DrainThenDrop(u, e)
          ELSE IF v.dropping \/ ~CloseDone(v) THEN v
          ELSE IF v.out = <<>> THEN DropConn(v)
          ELSE BeginDrain(v)
  BY DEF IngestDone, Unwound
<1>2. /\ s \in ConnRec /\ s.life = "live" /\ ~s.dropping /\ Tidy(s)
      /\ Disciplined(All(s)) /\ s.state # "handshake"
  BY SessionFields
<1>3. /\ Outside(u) /\ u.run = "idle" /\ Aged(s, u) /\ Matched(s, u)
  BY <1>2, UnwoundFields
<1> HIDE DEF u, t
<1>4. Tidy(u) /\ Disciplined(All(u)) /\ u.proto
  <2>1. Tidy(u)
    BY <1>2, <1>3, TidyMatched
  <2>2. u.state # "handshake"
    BY <1>2, <1>3 DEF Aged
  <2> QED
    BY <2>1, <2>2 DEF Tidy, Spoken, Flagged
<1>5. SUFFICES Stays(u, t) \/ Leaves(u, t)
  BY <1>3, AgedEnds, EndsKept DEF t
<1>6. CASE u.dropDeferred \/ u.faulted
  <2>1. Unwinding(u)
    BY <1>3, <1>4, <1>6 DEF Unwinding
  <2> QED
    BY <1>1, <1>6, <2>1, SettleDeliveryDoes
<1>7. CASE ~u.dropDeferred /\ ~u.faulted /\ u.failed
  <2>1. Tidy(BeginDrain(u))
    <3>1. u.closeSent /\ u \in ConnRec
      BY <1>3, <1>4, <1>7 DEF Tidy, Flagged, Outside
    <3> QED
      BY <1>4, <3>1, TidyDrain
  <2> QED
    BY <1>1, <1>3, <1>4, <1>7, <2>1, DrainThenDropDoes
<1>8. CASE ~u.dropDeferred /\ ~u.faulted /\ ~u.failed
  <2>1. PICK x : Flushed(u, x) /\
          \/ /\ v = x /\ ~OverCap(x)
             /\ IF u.out = <<>> THEN x = u ELSE x.out # <<>> => x.owed
          \/ v = DropConn(x) /\ (x.tport = "dead" \/ OverCap(x))
    BY <1>3, FlushConnDoes DEF Outside
  <2> HIDE DEF v
  <2>2. /\ x \in ConnRec /\ x.life = "live" /\ ~x.dropping /\ ~x.inDelivery
        /\ x.run = "idle" /\ x.sweepPosted = u.sweepPosted
        /\ x.state = u.state /\ x.deadline = u.deadline
        /\ x.dropPending = u.dropPending /\ ~x.dropDeferred
        /\ ~x.failed /\ ~x.faulted /\ All(x) = All(u) /\ x.proto
    BY <1>3, <1>4, <1>8, <2>1
       DEF Outside, Flushed, Seated, Minded, Clocked
  <2>3. Tidy(x)
    BY <1>4, <2>1, TidyFlushed
  <2>4. Dropped(x, DropConn(x))
    BY <2>2, DropConnDrops
  <2>5. CASE v = DropConn(x) /\ (x.tport = "dead" \/ OverCap(x))
    <3>1. t = DropConn(x)
      BY <1>1, <1>8, <2>4, <2>5 DEF Dropped
    <3>2. OverCap(x) => ~(u.dropPending \/ u.failed \/ u.faulted)
      BY <1>8, <2>2 DEF OverCap
    <3> QED
      BY <2>2, <2>4, <2>5, <3>1, <3>2 DEF Leaves
  <2>6. CASE v = x /\ ~OverCap(x) /\ (x.out # <<>> => x.owed)
    <3>1. CASE ~CloseDone(x)
      <4>1. t = x
        BY <1>1, <1>8, <2>6, <3>1
      <4>2. Rested(x)
        BY <2>2, <2>6 DEF Rested, Settles
      <4> QED
        BY <2>2, <2>3, <4>1, <4>2 DEF Stays
    <3>2. CASE CloseDone(x) /\ x.out = <<>>
      <4>1. t = DropConn(x)
        BY <1>1, <1>8, <2>2, <2>6, <3>2
      <4> QED
        BY <2>2, <2>4, <3>2, <4>1 DEF Leaves
    <3>3. CASE CloseDone(x) /\ x.out # <<>>
      <4> DEFINE b == BeginDrain(x)
      <4>1. t = b
        BY <1>1, <1>8, <2>2, <2>6, <3>3
      <4>2. /\ b \in ConnRec /\ Seated(x, b) /\ Quiet(x, b)
            /\ b.state = x.state /\ b.failed = x.failed
            /\ b.faulted = x.faulted /\ b.dropDeferred = x.dropDeferred
            /\ b.dropPending /\ (x.dropPending => b = x)
        BY <2>2, BeginDrainDoes
      <4>3. Tidy(b)
        <5>1. x.closeSent
          BY <2>2, <3>3 DEF CloseDone
        <5> QED
          BY <2>2, <2>3, <5>1, TidyDrain
      <4> HIDE DEF b
      <4>4. Rested(b)
        BY <2>2, <2>6, <4>2 DEF Rested, Settles, OverCap, Quiet, Seated
      <4>5. b.dropPending = u.dropPending => b.deadline = u.deadline
        BY <2>2, <4>2
      <4> QED
        BY <2>2, <4>1, <4>2, <4>3, <4>4, <4>5 DEF Stays, Seated
    <3> QED
      BY <3>1, <3>2, <3>3
  <2> QED
    BY <2>1, <2>5, <2>6
<1> QED
  BY <1>6, <1>7, <1>8

-----------------------------------------------------------------------------
(* Calls of the host's handlers.                                           *)

(* A flush below a delivery: it ends within the cap and with a wake, or    *)
(* leaves a note to drop.                                                  *)
LEMMA FlushInside ==
  \A s \in ConnRec, e \in Results : Tidy(s) /\ s.inDelivery =>
    LET t == FlushConn(s, e) IN
    /\ t \in ConnRec /\ Seated(s, t) /\ Clocked(s, t) /\ Tidy(t)
    /\ t.state = s.state /\ t.closeSent = s.closeSent /\ t.failed = s.failed
    /\ t.faulted = s.faulted /\ t.dropPending = s.dropPending
    /\ All(t) = All(s) /\ (t.dropDeferred \/ Settles(t))
    /\ s.dropDeferred => t.dropDeferred
<1> TAKE s \in ConnRec, e \in Results
<1> SUFFICES ASSUME Tidy(s), s.inDelivery
             PROVE  LET t == FlushConn(s, e) IN
                    /\ t \in ConnRec /\ Seated(s, t) /\ Clocked(s, t) /\ Tidy(t)
                    /\ t.state = s.state /\ t.closeSent = s.closeSent
                    /\ t.failed = s.failed /\ t.faulted = s.faulted
                    /\ t.dropPending = s.dropPending
                    /\ All(t) = All(s) /\ (t.dropDeferred \/ Settles(t))
                    /\ s.dropDeferred => t.dropDeferred
  OBVIOUS
<1> DEFINE t == FlushConn(s, e)
<1>1. PICK x : Flushed(s, x) /\
        \/ /\ t = x /\ ~OverCap(x)
           /\ IF s.out = <<>> THEN x = s ELSE x.out # <<>> => x.owed
        \/ t = DropConn(x) /\ (x.tport = "dead" \/ OverCap(x))
  BY FlushConnDoes
<1> HIDE DEF t
<1>2. Tidy(x)
  BY <1>1, TidyFlushed
<1>3. /\ x \in ConnRec /\ Seated(s, x) /\ Minded(s, x) /\ Clocked(s, x)
      /\ All(x) = All(s) /\ x.sent = s.sent
  BY <1>1 DEF Flushed
<1>4. CASE t = x /\ ~OverCap(x) /\ (x.out # <<>> => x.owed)
  BY <1>2, <1>3, <1>4 DEF Settles, Minded, t
<1>5. CASE t = DropConn(x)
  <2>1. /\ t \in ConnRec /\ Seated(x, t) /\ Clocked(x, t) /\ Quiet(x, t)
        /\ t.state = x.state /\ t.closeSent = x.closeSent
        /\ t.failed = x.failed /\ t.faulted = x.faulted
        /\ t.dropPending = x.dropPending /\ t.dropDeferred
    BY <1>3, <1>5, DropConnNotes DEF Seated
  <2>2. Matched(x, t)
    BY <2>1 DEF Matched, Seated, Quiet, All
  <2>3. Tidy(t)
    BY <1>2, <2>2, TidyMatched
  <2> QED
    BY <1>3, <2>1, <2>2, <2>3
       DEF Seated, Minded, Clocked, Matched, t
<1> QED
  BY <1>1, <1>4, <1>5

(* A call that comes back to its handler.                                  *)
LEMMA InsideKept ==
  \A s : \A t \in ConnRec :
    /\ Session(s) /\ s.run # "idle"
    /\ t.life = s.life /\ t.run = s.run /\ t.dropping = s.dropping
    /\ t.sweepPosted = s.sweepPosted
    /\ t.failed = s.failed /\ t.dropPending = s.dropPending
    /\ Tidy(t) /\ Waits(s, t) /\ (t.dropDeferred \/ Settles(t))
    => Kept(s, t)
<1> TAKE s
<1> TAKE t \in ConnRec
<1> SUFFICES ASSUME Session(s), s.run # "idle",
                    t.life = s.life, t.run = s.run, t.dropping = s.dropping,
                    t.sweepPosted = s.sweepPosted,
                    t.failed = s.failed, t.dropPending = s.dropPending,
                    Tidy(t), Waits(s, t), t.dropDeferred \/ Settles(t)
             PROVE  Kept(s, t)
  OBVIOUS
<1>1. s.life = "live" /\ ~s.dropping /\ Rested(s)
  BY SessionFields
<1>2. Rested(t)
  BY <1>1 DEF Rested
<1>3. Sure(s, t)
  BY <1>1, <1>2, CalmSure
<1> QED
  BY <1>3 DEF Kept

(* The record a call works on.                                             *)
CallOf(s) == [s EXCEPT !.calls = @ + 1]

LEMMA CallFields ==
  \A s \in ConnRec : LET t == CallOf(s) IN
    /\ t \in ConnRec /\ Seated(s, t) /\ Minded(s, t) /\ Clocked(s, t)
    /\ Quiet(s, t) /\ Matched(s, t) /\ t.tport = s.tport
<1> TAKE s \in ConnRec
<1> DEFINE d == s.calls + 1
<1>3. d \in Nat /\ CallOf(s) = [s EXCEPT !.calls = d]
  <2>1. s.calls \in Nat
    BY DEF ConnRec
  <2>2. CallOf(s) = [s EXCEPT !.calls = d]
    BY Zenon DEF CallOf
  <2> QED
    BY <2>1, <2>2
<1> HIDE DEF d
<1>1. CallOf(s) \in ConnRec
  BY <1>3 DEF ConnRec
<1>2. /\ Seated(s, CallOf(s)) /\ Minded(s, CallOf(s)) /\ Clocked(s, CallOf(s))
      /\ Quiet(s, CallOf(s)) /\ CallOf(s).tport = s.tport
  BY <1>3 DEF ConnRec, Seated, Minded, Clocked, Quiet
<1>4. Matched(s, CallOf(s))
  BY <1>2 DEF Seated, Minded, Quiet, Matched, All
<1> QED
  BY <1>1, <1>2, <1>4

(* One more data message.                                                  *)
LEMMA DataSaid ==
  \A s, t \in ConnRec :
    /\ Tidy(s) /\ s.state # "handshake" /\ ~s.closeSent
    /\ All(t) = Append(All(s), DataItem(s.sent + 1)) /\ t.sent = s.sent + 1
    /\ t.proto = s.proto /\ Minded(s, t) /\ Clocked(s, t)
    => Tidy(t)
<1> TAKE s, t \in ConnRec
<1> SUFFICES ASSUME Tidy(s), s.state # "handshake", ~s.closeSent,
                    All(t) = Append(All(s), DataItem(s.sent + 1)),
                    t.sent = s.sent + 1, t.proto = s.proto,
                    Minded(s, t), Clocked(s, t)
             PROVE  Tidy(t)
  OBVIOUS
<1> DEFINE x == DataItem(s.sent + 1)
<1>1. x \in Item /\ x.kind = "data" /\ x.n = s.sent + 1
  BY DEF DataItem, Item, ConnRec
<1> HIDE DEF x
<1>2. Spoken(t)
  <2>1. Spoken(s) /\ t.state # "handshake" /\ All(t) = Append(All(s), x)
    BY DEF Tidy, Minded, x
  <2> QED
    BY <1>1, <2>1, SpokenMore
<1>3. Flagged(s) /\ Scheduled(s) /\ Asked(s)
  BY DEF Tidy
<1>4. Flagged(t)
  BY <1>3 DEF Flagged, Minded, Clocked
<1>5. Scheduled(t) /\ Asked(t)
  BY <1>3 DEF Scheduled, NextCheck, Asked, Asking, Minded, Clocked
<1> QED
  BY <1>2, <1>4, <1>5 DEF Tidy

(* A message queued and offered.                                           *)
LEMMA QueuedData ==
  \A s : \A e \in Results :
    /\ s \in ConnRec /\ Tidy(s) /\ s.state # "handshake" /\ ~s.closeSent
    => LET q == Queue([s EXCEPT !.sent = @ + 1], DataItem(s.sent + 1)) IN
       /\ q \in ConnRec /\ Tidy(q) /\ Seated(s, q) /\ Minded(s, q)
       /\ Clocked(s, q)
<1> TAKE s
<1> TAKE e \in Results
<1> SUFFICES ASSUME s \in ConnRec, Tidy(s), s.state # "handshake", ~s.closeSent
             PROVE  LET q == Queue([s EXCEPT !.sent = @ + 1],
                                   DataItem(s.sent + 1))
                    IN /\ q \in ConnRec /\ Tidy(q) /\ Seated(s, q)
                       /\ Minded(s, q) /\ Clocked(s, q)
  OBVIOUS
<1> DEFINE z == [s EXCEPT !.sent = @ + 1]
           x == DataItem(s.sent + 1)
           q == Queue(z, x)
<1>1. x \in Item
  BY DEF DataItem, Item, ConnRec
<1>2. /\ z \in ConnRec /\ Seated(s, z) /\ Minded(s, z) /\ Clocked(s, z)
      /\ z.wire = s.wire /\ z.out = s.out /\ z.sent = s.sent + 1
  <2> DEFINE d == s.sent + 1
  <2>1. d \in Nat /\ z = [s EXCEPT !.sent = d]
    <3>1. s.sent \in Nat
      BY DEF ConnRec
    <3>2. z = [s EXCEPT !.sent = d]
      BY Zenon
    <3> QED
      BY <3>1, <3>2
  <2> HIDE DEF d, z
  <2>2. z \in ConnRec /\ z.wire = s.wire /\ z.out = s.out /\ z.sent = d
    BY <2>1 DEF ConnRec
  <2>3. Seated(s, z) /\ Minded(s, z) /\ Clocked(s, z)
    BY <2>1 DEF ConnRec, Seated, Minded, Clocked
  <2> QED
    BY <2>2, <2>3 DEF d
<1> HIDE DEF x, z
<1>3. /\ q \in ConnRec /\ Seated(z, q) /\ Minded(z, q) /\ Clocked(z, q)
      /\ q.sent = z.sent /\ All(q) = Append(All(z), x)
  BY <1>1, <1>2, QueueDoes
<1> HIDE DEF q
<1>4. Seated(s, q) /\ Minded(s, q) /\ Clocked(s, q) /\ q.sent = s.sent + 1
  BY <1>2, <1>3 DEF Seated, Minded, Clocked
<1>5. All(q) = Append(All(s), x)
  BY <1>2, <1>3 DEF All
<1>6. Tidy(q)
  BY <1>3, <1>4, <1>5, DataSaid DEF Seated, x
<1> QED
  BY <1>3, <1>4, <1>6 DEF q, x, z

(* What a call flushed comes back to the handler as.                       *)
LEMMA FlushedKept ==
  \A s : \A q \in ConnRec, e \in Results :
    /\ Session(s) /\ s.run # "idle" /\ Tidy(q) /\ Seated(s, q)
    /\ q.failed = s.failed /\ q.dropPending = s.dropPending
    /\ Waits(s, q)
    => Kept(s, FlushConn(q, e))
<1> TAKE s
<1> TAKE q \in ConnRec, e \in Results
<1> SUFFICES ASSUME Session(s), s.run # "idle", Tidy(q), Seated(s, q),
                    q.failed = s.failed, q.dropPending = s.dropPending,
                    Waits(s, q)
             PROVE  Kept(s, FlushConn(q, e))
  OBVIOUS
<1> DEFINE t == FlushConn(q, e)
<1>1. q.inDelivery
  BY SessionFields DEF Seated
<1>2. /\ t \in ConnRec /\ Seated(q, t) /\ Clocked(q, t) /\ Tidy(t)
      /\ t.state = q.state /\ t.failed = q.failed
      /\ t.dropPending = q.dropPending /\ (t.dropDeferred \/ Settles(t))
  BY <1>1, FlushInside
<1> HIDE DEF t
<1>3. Waits(s, t)
  BY <1>2 DEF Waits, Clocked
<1>4. /\ t.life = s.life /\ t.run = s.run /\ t.dropping = s.dropping
      /\ t.sweepPosted = s.sweepPosted
      /\ t.failed = s.failed /\ t.dropPending = s.dropPending
  BY <1>2 DEF Seated
<1> QED
  BY <1>2, <1>3, <1>4, InsideKept DEF t

LEMMA WaitsSame ==
  \A s, t : s.deadline \in Nat /\ t.deadline = s.deadline => Waits(s, t)
  BY DEF Waits

LEMMA QueuedSendKept ==
  \A s, e : Session(s) /\ s.run # "idle" /\ s.state = "open" /\ e \in Results =>
    Kept(s, QueuedSend(CallOf(s), e))
<1> TAKE s, e
<1> SUFFICES ASSUME Session(s), s.run # "idle", s.state = "open", e \in Results
             PROVE  Kept(s, QueuedSend(CallOf(s), e))
  OBVIOUS
<1> DEFINE z == CallOf(s)
           q == Queue([z EXCEPT !.sent = @ + 1], DataItem(z.sent + 1))
<1>1. s \in ConnRec /\ Tidy(s) /\ s.deadline \in Nat
  BY SessionFields DEF ConnRec
<1>2. /\ z \in ConnRec /\ Seated(s, z) /\ Minded(s, z) /\ Clocked(s, z)
      /\ Matched(s, z)
  BY <1>1, CallFields
<1>3. QueuedSend(z, e) = FlushConn(IF z.closeSent THEN z ELSE q, e)
  BY DEF QueuedSend
<1> HIDE DEF z
<1>4. Tidy(z)
  BY <1>1, <1>2, TidyMatched
<1>5. CASE z.closeSent
  <2>1. Waits(s, z)
    BY <1>1, <1>2, WaitsSame DEF Clocked
  <2>2. Kept(s, FlushConn(z, e))
    BY <1>2, <1>4, <2>1, FlushedKept DEF Minded
  <2> QED
    BY <1>3, <1>5, <2>2 DEF z
<1>6. CASE ~z.closeSent
  <2>1. /\ q \in ConnRec /\ Tidy(q) /\ Seated(z, q) /\ Minded(z, q)
        /\ Clocked(z, q)
    BY <1>2, <1>4, <1>6, QueuedData DEF Minded
  <2> HIDE DEF q
  <2>2. /\ Seated(s, q) /\ q.failed = s.failed
        /\ q.dropPending = s.dropPending /\ q.deadline = s.deadline
    BY <1>2, <2>1 DEF Seated, Minded, Clocked
  <2>3. Waits(s, q)
    BY <1>1, <2>2, WaitsSame
  <2>4. Kept(s, FlushConn(q, e))
    BY <2>1, <2>2, <2>3, FlushedKept
  <2> QED
    BY <1>3, <1>6, <2>4 DEF z
<1> QED
  BY <1>5, <1>6

(* The item went out, or was queued, without waiting behind anything.      *)
LEMMA DirectSendKept ==
  \A s, e :
    Session(s) /\ s.run # "idle" /\ s.state = "open" /\ e \in Results
    /\ DirectHeader(CallOf(s)) => Kept(s, DirectSend(CallOf(s), e))
<1> TAKE s, e
<1> SUFFICES ASSUME Session(s), s.run # "idle", s.state = "open", e \in Results,
                    DirectHeader(CallOf(s))
             PROVE  Kept(s, DirectSend(CallOf(s), e))
  OBVIOUS
<1> DEFINE z == CallOf(s)
           x == DataItem(z.sent + 1)
           d == z.sent + 1
           n == [z EXCEPT !.sent = z.sent + 1]
           q == Queue(n, x)
           k == [z EXCEPT !.tport = "dead"]
           w == Append(z.wire, x)
           h == [n EXCEPT !.wire = w, !.owed = FALSE]
<1>1. s \in ConnRec /\ Tidy(s) /\ s.deadline \in Nat /\ s.inDelivery
  BY SessionFields DEF ConnRec
<1>2. /\ z \in ConnRec /\ Seated(s, z) /\ Minded(s, z) /\ Clocked(s, z)
      /\ Matched(s, z)
  BY <1>1, CallFields
<1>3. z.out = <<>> /\ ~z.closeSent
  BY DEF DirectHeader
<1>4. DirectSend(z, e) = IF e = "dead" THEN DropConn(k)
                         ELSE IF e = "none" THEN FlushConn(q, e) ELSE h
  BY DEF DirectSend
<1> HIDE DEF z
<1>5. Tidy(z)
  BY <1>1, <1>2, TidyMatched
<1>6. d \in Nat /\ x \in Item
  BY <1>2 DEF ConnRec, DataItem, Item
<1>7. CASE e = "dead"
  <2>1. /\ k \in ConnRec /\ Seated(z, k) /\ Minded(z, k) /\ Clocked(z, k)
        /\ Quiet(z, k)
    BY <1>2 DEF ConnRec, Seated, Minded, Clocked, Quiet
  <2> HIDE DEF k
  <2> DEFINE t == DropConn(k)
  <2>2. k.inDelivery
    BY <1>1, <1>2, <2>1 DEF Seated
  <2>3. /\ t \in ConnRec /\ Seated(k, t) /\ Clocked(k, t) /\ Quiet(k, t)
        /\ t.state = k.state /\ t.closeSent = k.closeSent
        /\ t.failed = k.failed /\ t.faulted = k.faulted
        /\ t.dropPending = k.dropPending /\ t.dropDeferred
    BY <2>1, <2>2, DropConnNotes
  <2> HIDE DEF t
  <2>4. /\ Matched(z, t) /\ Seated(s, t) /\ t.failed = s.failed
        /\ t.dropPending = s.dropPending /\ t.deadline = s.deadline
    BY <1>2, <2>1, <2>3 DEF Matched, Seated, Minded, Clocked, Quiet, All
  <2>5. Tidy(t) /\ Waits(s, t)
    BY <1>1, <1>5, <2>4, TidyMatched, WaitsSame
  <2>6. Kept(s, t)
    BY <2>3, <2>4, <2>5, InsideKept DEF Seated
  <2> QED
    BY <1>4, <1>7, <2>6 DEF t, z
<1>8. CASE e = "none"
  <2>1. q = Queue([z EXCEPT !.sent = @ + 1], DataItem(z.sent + 1))
    OBVIOUS
  <2>2. /\ q \in ConnRec /\ Tidy(q) /\ Seated(z, q) /\ Minded(z, q)
        /\ Clocked(z, q)
    BY <1>2, <1>3, <1>5, <2>1, QueuedData DEF Minded
  <2> HIDE DEF q
  <2>3. /\ Seated(s, q) /\ q.failed = s.failed
        /\ q.dropPending = s.dropPending /\ q.deadline = s.deadline
    BY <1>2, <2>2 DEF Seated, Minded, Clocked
  <2>4. Waits(s, q)
    BY <1>1, <2>3, WaitsSame
  <2>5. Kept(s, FlushConn(q, e))
    BY <2>2, <2>3, <2>4, FlushedKept
  <2> QED
    BY <1>4, <1>8, <2>5 DEF z
<1>9. CASE e \notin {"dead", "none"}
  <2>1. n = [z EXCEPT !.sent = d]
    OBVIOUS
  <2>2. w \in Seq(Item)
    <3>1. z.wire \in Seq(Item)
      BY <1>2, AllTyped
    <3> HIDE DEF x
    <3> QED
      BY <1>6, <3>1
  <2>3. w \o <<>> = Append(z.wire \o <<>>, x)
    BY <1>2, <1>6, AllTyped
  <2> HIDE DEF d, n, w
  <2>4. /\ n \in ConnRec /\ Seated(z, n) /\ Minded(z, n) /\ Clocked(z, n)
        /\ n.sent = d /\ n.out = z.out
    BY <1>2, <1>6, <2>1 DEF ConnRec, Seated, Minded, Clocked
  <2>5. /\ h \in ConnRec /\ Seated(n, h) /\ Minded(n, h) /\ Clocked(n, h)
        /\ h.sent = n.sent /\ h.out = n.out /\ h.wire = w
    BY <2>2, <2>4 DEF ConnRec, Seated, Minded, Clocked
  <2> HIDE DEF h
  <2>6. /\ Seated(z, h) /\ Minded(z, h) /\ Clocked(z, h) /\ h.sent = d
        /\ h.out = <<>> /\ h.wire = w
    BY <1>3, <2>4, <2>5 DEF Seated, Minded, Clocked
  <2>7. All(h) = Append(All(z), x)
    BY <1>3, <2>3, <2>6 DEF All
  <2>8. z.state # "handshake"
    BY <1>2 DEF Minded
  <2>9. Tidy(h)
    BY <1>2, <1>3, <1>5, <2>5, <2>6, <2>7, <2>8, DataSaid DEF Seated, d, x
  <2>10. Settles(h)
    <3>1. Len(<<>>) = 0
      OBVIOUS
    <3> QED
      BY <2>6, <3>1 DEF Settles, OverCap, ServerAssumption
  <2>11. /\ Seated(s, h) /\ h.failed = s.failed
         /\ h.dropPending = s.dropPending /\ h.deadline = s.deadline
    BY <1>2, <2>6 DEF Seated, Minded, Clocked
  <2>12. Waits(s, h)
    BY <1>1, <2>11, WaitsSame
  <2>13. Kept(s, h)
    BY <2>5, <2>9, <2>10, <2>11, <2>12, InsideKept DEF Seated
  <2>14. DirectSend(z, e) = h
    BY <1>4, <1>9
  <2> QED
    BY <2>13, <2>14 DEF z
<1> QED
  BY <1>7, <1>8, <1>9

LEMMA CloseCallKept ==
  \A s, e : Session(s) /\ s.run # "idle" /\ s.state = "open" /\ e \in Results =>
    Kept(s, CloseCall(CallOf(s), e))
<1> TAKE s, e
<1> SUFFICES ASSUME Session(s), s.run # "idle", s.state = "open", e \in Results
             PROVE  Kept(s, CloseCall(CallOf(s), e))
  OBVIOUS
<1> DEFINE z == CallOf(s)
           k == SendClose(z)
           g == [k EXCEPT !.state = "closing", !.pingDue = 0]
           a == ArmDeadline(g, CloseTimeout)
<1>1. s \in ConnRec /\ Tidy(s) /\ s.state # "handshake"
  BY SessionFields
<1>2. /\ z \in ConnRec /\ Seated(s, z) /\ Minded(s, z) /\ Matched(s, z)
  BY <1>1, CallFields
<1>3. CloseCall(z, e) = FlushConn(a, e)
  BY DEF CloseCall
<1> HIDE DEF z
<1>4. Tidy(z)
  BY <1>1, <1>2, TidyMatched
<1>5. /\ k \in ConnRec /\ Seated(z, k) /\ Clocked(z, k) /\ k.sent = z.sent
      /\ k.failed = z.failed /\ k.dropPending = z.dropPending
      /\ k.closeSent /\ All(k) = Closed(z)
  BY <1>2, SendCloseDoes
<1> HIDE DEF k
<1>6. /\ g \in ConnRec /\ Seated(k, g) /\ g.sent = k.sent
      /\ g.failed = k.failed /\ g.dropPending = k.dropPending
      /\ g.closeSent = k.closeSent /\ g.wire = k.wire /\ g.out = k.out
      /\ g.state = "closing" /\ g.pingDue = 0
  BY <1>5 DEF ConnRec, Seated
<1> HIDE DEF g
<1>7. CloseTimeout \in Nat
  BY DEF ServerAssumption
<1>8. /\ a \in ConnRec /\ Seated(g, a) /\ Minded(g, a) /\ Quiet(g, a)
      /\ a.pingDue = g.pingDue /\ Scheduled(a)
  BY <1>6, <1>7, ArmDeadlineDoes
<1> HIDE DEF a
<1>9. All(a) = Closed(z)
  BY <1>5, <1>6, <1>8 DEF Quiet, All
<1>10. /\ Seated(z, a) /\ a.state = "closing" /\ a.pingDue = 0
       /\ a.sent = z.sent /\ a.closeSent
       /\ a.failed = z.failed /\ a.dropPending = z.dropPending
  BY <1>5, <1>6, <1>8 DEF Seated, Minded, Quiet
<1>11. z.proto /\ z.state # "handshake" /\ Spoken(z)
  BY <1>1, <1>2, <1>4 DEF Tidy, Flagged, Matched
<1>12. Tidy(a)
  BY <1>2, <1>8, <1>9, <1>10, <1>11, TidyClosed DEF Seated
<1>13. /\ Seated(s, a) /\ a.failed = s.failed
       /\ a.dropPending = s.dropPending
  BY <1>2, <1>10 DEF Seated, Minded
<1>14. Waits(s, a)
  BY <1>10 DEF Waits
<1> QED
  BY <1>3, <1>8, <1>12, <1>13, <1>14, FlushedKept DEF z

(* OnMessage is done, and the frame loop goes on.                          *)
LEMMA MessageReturnsKept ==
  \A s : Session(s) /\ s.run = "onmessage" =>
    Kept(s, [s EXCEPT !.run = "ingest"])
<1> TAKE s
<1> SUFFICES ASSUME Session(s), s.run = "onmessage"
             PROVE  Kept(s, [s EXCEPT !.run = "ingest"])
  OBVIOUS
<1> DEFINE t == [s EXCEPT !.run = "ingest"]
<1>1. s \in ConnRec /\ s.life = "live" /\ ~s.dropping /\ Tidy(s)
  BY SessionFields
<1>2. /\ t \in ConnRec /\ t.life = "live" /\ ~t.dropping /\ t.run = "ingest"
      /\ t.sweepPosted = s.sweepPosted /\ t.state = s.state
      /\ t.deadline = s.deadline /\ s.deadline \in Nat
  BY <1>1 DEF ConnRec
<1>3. Matched(s, t)
  BY <1>1 DEF ConnRec, Matched, Clocked, All
<1> HIDE DEF t
<1>4. Tidy(t) /\ Rested(t) /\ Waits(s, t)
  BY <1>1, <1>2, <1>3, TidyMatched, LoopRested, WaitsSame
<1>5. Sure(s, t)
  BY <1>2, <1>4, CalmSure
<1> QED
  BY <1>2, <1>5 DEF Kept, t

(* A posted proc is called.                                                *)
LEMMA ProcKept ==
  \A s : Session(s) /\ s.run = "idle" =>
    Kept(s, [s EXCEPT !.inDelivery = TRUE, !.run = "onpost"])
<1> TAKE s
<1> SUFFICES ASSUME Session(s), s.run = "idle"
             PROVE  Kept(s, [s EXCEPT !.inDelivery = TRUE, !.run = "onpost"])
  OBVIOUS
<1> DEFINE t == [s EXCEPT !.inDelivery = TRUE, !.run = "onpost"]
<1>1. s \in ConnRec /\ s.life = "live" /\ ~s.dropping /\ Tidy(s) /\ Rested(s)
  BY SessionFields
<1>2. /\ t \in ConnRec /\ t.life = "live" /\ ~t.dropping /\ t.run = "onpost"
      /\ t.sweepPosted = s.sweepPosted /\ t.state = s.state
      /\ t.deadline = s.deadline /\ s.deadline \in Nat
      /\ t.out = s.out /\ t.owed = s.owed /\ t.dropPending = s.dropPending
      /\ t.failed = s.failed
  BY <1>1 DEF ConnRec
<1>3. Matched(s, t)
  BY <1>1 DEF ConnRec, Matched, Clocked, All
<1> HIDE DEF t
<1>4. Tidy(t) /\ Waits(s, t)
  BY <1>1, <1>2, <1>3, TidyMatched, WaitsSame
<1>5. Rested(t)
  BY <1>1, <1>2 DEF Rested, Settles, OverCap
<1>6. Sure(s, t)
  BY <1>2, <1>4, <1>5, CalmSure
<1> QED
  BY <1>2, <1>6 DEF Kept, t

(* A handler raised: the session is marked and says its Close.             *)
LEMMA RaisedTidies ==
  \A s : Session(s) /\ s.run # "idle" =>
    LET h == HandlerRaised(s) IN
    /\ h \in ConnRec /\ Tidy(h) /\ h.life = "live" /\ ~h.dropping
    /\ h.faulted /\ h.sweepPosted = s.sweepPosted /\ h.deadline = s.deadline
    /\ h.dropPending = s.dropPending /\ h.dropDeferred = s.dropDeferred
    /\ s.state # "open" => h.state = s.state /\ All(h) = All(s)
    /\ s.state = "open" => h.state = "closing" /\ All(h) = Closed(s)
<1> TAKE s
<1> SUFFICES ASSUME Session(s), s.run # "idle"
             PROVE  LET h == HandlerRaised(s) IN
                    /\ h \in ConnRec /\ Tidy(h) /\ h.life = "live"
                    /\ ~h.dropping /\ h.faulted
                    /\ h.sweepPosted = s.sweepPosted
                    /\ h.deadline = s.deadline
                    /\ h.dropPending = s.dropPending
                    /\ h.dropDeferred = s.dropDeferred
                    /\ s.state # "open" => h.state = s.state /\ All(h) = All(s)
                    /\ s.state = "open" => /\ h.state = "closing"
                                           /\ All(h) = Closed(s)
  OBVIOUS
<1> DEFINE z == [s EXCEPT !.faulted = TRUE]
           k == SendClose(z)
           g == [k EXCEPT !.state = "closing"]
           h == HandlerRaised(s)
<1>1. /\ s \in ConnRec /\ s.life = "live" /\ ~s.dropping /\ Tidy(s)
      /\ s.state # "handshake"
  BY SessionFields
<1>2. h = IF z.state = "open" THEN g ELSE z
  BY <1>1 DEF HandlerRaised
<1>3. /\ z \in ConnRec /\ z.faulted /\ Seated(s, z) /\ Clocked(s, z)
      /\ z.state = s.state /\ z.wire = s.wire /\ z.out = s.out
      /\ z.sent = s.sent /\ z.closeSent = s.closeSent /\ z.failed = s.failed
      /\ z.dropPending = s.dropPending /\ z.dropDeferred = s.dropDeferred
  BY <1>1 DEF ConnRec, Seated, Clocked
<1> HIDE DEF z, h
<1>4. All(z) = All(s) /\ Closed(z) = Closed(s)
  BY <1>3 DEF All, Closed
<1>5. CASE s.state # "open"
  <2>1. h = z
    BY <1>2, <1>3, <1>5
  <2>2. Spoken(z)
    BY <1>1, <1>3, <1>4 DEF Tidy, Spoken
  <2>3. Flagged(z)
    BY <1>1, <1>3, <1>5 DEF Tidy, Flagged, Seated, Clocked
  <2>4. Scheduled(z) /\ Asked(z)
    BY <1>1, <1>3, <1>5 DEF Tidy, Scheduled, NextCheck, Clocked, Asked
  <2> QED
    BY <1>1, <1>3, <1>4, <1>5, <2>1, <2>2, <2>3, <2>4
       DEF Tidy, Seated, Clocked, h
<1>6. CASE s.state = "open"
  <2>1. h = g
    BY <1>2, <1>3, <1>6
  <2>2. /\ k \in ConnRec /\ Seated(z, k) /\ Clocked(z, k) /\ k.sent = z.sent
        /\ k.faulted = z.faulted
        /\ k.dropPending = z.dropPending /\ k.dropDeferred = z.dropDeferred
        /\ k.closeSent /\ All(k) = Closed(z)
    BY <1>3, SendCloseDoes
  <2> HIDE DEF k
  <2>3. /\ g \in ConnRec /\ Seated(k, g) /\ Clocked(k, g) /\ g.sent = k.sent
        /\ g.faulted = k.faulted /\ g.dropPending = k.dropPending
        /\ g.dropDeferred = k.dropDeferred /\ g.closeSent = k.closeSent
        /\ g.wire = k.wire /\ g.out = k.out /\ g.state = "closing"
    BY <2>2 DEF ConnRec, Seated, Clocked
  <2> HIDE DEF g
  <2>4. /\ Seated(s, g) /\ Clocked(s, g) /\ g.sent = s.sent /\ g.faulted
        /\ g.dropPending = s.dropPending /\ g.dropDeferred = s.dropDeferred
        /\ g.closeSent /\ g.state = "closing"
    BY <1>3, <2>2, <2>3 DEF Seated, Clocked
  <2>5. All(g) = Closed(s)
    BY <1>4, <2>2, <2>3 DEF All
  <2>6. /\ g.proto /\ (g.dropPending => g.pingDue = 0) /\ Scheduled(g)
        /\ Spoken(s)
    BY <1>1, <2>4 DEF Tidy, Flagged, Scheduled, NextCheck, Seated, Clocked
  <2>7. Tidy(g)
    BY <1>1, <2>3, <2>4, <2>5, <2>6, TidyClosed
  <2> QED
    BY <1>1, <1>6, <2>1, <2>3, <2>4, <2>5, <2>7 DEF Seated, Clocked, h
<1> QED
  BY <1>5, <1>6

LEMMA RaisedKept ==
  \A s, e : Session(s) /\ s.run # "idle" /\ e \in Results =>
    Kept(s, Settled([HandlerRaised(s) EXCEPT !.todo = <<>>], e))
<1> TAKE s, e
<1> SUFFICES ASSUME Session(s), s.run # "idle", e \in Results
             PROVE  Kept(s, Settled([HandlerRaised(s) EXCEPT !.todo = <<>>], e))
  OBVIOUS
<1> DEFINE h == HandlerRaised(s)
           r == [h EXCEPT !.todo = <<>>]
           u == Unwound(r)
           t == SettleDelivery(u, e)
<1>1. /\ h \in ConnRec /\ Tidy(h) /\ h.life = "live" /\ ~h.dropping
      /\ h.faulted /\ h.sweepPosted = s.sweepPosted /\ h.deadline = s.deadline
      /\ h.dropPending = s.dropPending /\ h.dropDeferred = s.dropDeferred
      /\ s.state # "open" => h.state = s.state /\ All(h) = All(s)
      /\ s.state = "open" => h.state = "closing" /\ All(h) = Closed(s)
  BY RaisedTidies
<1>2. Settled(r, e) = t
  BY DEF Settled, Unwound
<1> HIDE DEF h
<1>3. /\ r \in ConnRec /\ Matched(h, r) /\ Seated(h, r)
      /\ r.dropDeferred = h.dropDeferred
  <2>1. <<>> \in Seq(FrameKinds)
    OBVIOUS
  <2> QED
    BY <1>1, <2>1, TodoNothing
<1> HIDE DEF r
<1>4. /\ Outside(u) /\ u.run = "idle" /\ Aged(r, u) /\ Matched(r, u)
  BY <1>1, <1>3, UnwoundFields DEF Seated
<1> HIDE DEF u
<1>5. Tidy(u)
  BY <1>1, <1>3, <1>4, TidyMatched
<1>6. /\ u.faulted /\ u.sweepPosted = s.sweepPosted
      /\ u.deadline = s.deadline /\ u.dropPending = s.dropPending
      /\ u.dropDeferred = s.dropDeferred /\ u.state = h.state
      /\ All(u) = All(h)
  BY <1>1, <1>3, <1>4 DEF Aged, Matched, Clocked, Seated
<1>7. Unwinding(u)
  BY <1>4, <1>5, <1>6 DEF Unwinding, Tidy, Spoken
<1>8. Stays(u, t) \/ Leaves(u, t)
  BY <1>7, SettleDeliveryDoes
<1>9. Becomes(s, u)
  <2>1. /\ s \in ConnRec /\ s.deadline \in Nat /\ s.state # "handshake"
        /\ Flagged(s)
    BY SessionFields DEF ConnRec, Tidy
  <2>2. s.dropPending \/ s.failed \/ s.faulted => All(h) = All(s)
    <3>1. CASE s.state = "open"
      <4>1. s.dropPending \/ s.failed \/ s.faulted => s.closeSent
        BY <2>1, <3>1 DEF Flagged
      <4> QED
        BY <1>1, <3>1, <4>1 DEF Closed
    <3>2. CASE s.state # "open"
      BY <1>1, <3>2
    <3> QED
      BY <3>1, <3>2
  <2>3. u.deadline <= s.deadline
    BY <1>6, <2>1
  <2>4. s.state # "open" => u.state = s.state
    BY <1>1, <1>6
  <2>5. s.state = "open" => u.state # s.state /\ s.state # "handshake"
    BY <1>1, <1>6
  <2>6. u \in ConnRec /\ Disciplined(All(u))
    BY <1>7 DEF Unwinding, Outside
  <2>7. Asks(s, u)
    BY DEF Asks
  <2> QED
    BY <1>6, <2>2, <2>3, <2>4, <2>5, <2>6, <2>7 DEF Becomes
<1> QED
  BY <1>2, <1>6, <1>8, <1>9, BecomesSure DEF Kept, h, r

-----------------------------------------------------------------------------
(* The check of the clocks.                                                *)

(* The ping was due: FPingDue is spent, and an open session's deadline     *)
(* leaves the time to answer.                                              *)
LEMMA PingLapsedDoes ==
  \A s \in ConnRec : LET t == PingLapsed(s) IN
    /\ t \in ConnRec /\ Seated(s, t) /\ Minded(s, t) /\ Quiet(s, t)
    /\ t.pingDue = 0 /\ t.asked = s.asked /\ Scheduled(t)
    /\ s.state # "open" => t.deadline = s.deadline
    /\ s.state = "open" /\ s.deadline # 0 /\ PingsFirst =>
         t.deadline >= AnswerBy /\ ~Lapsed(t.deadline) /\ t.deadline # 0
<1> TAKE s \in ConnRec
<1> DEFINE put == /\ s.state = "open" /\ s.deadline # 0 /\ PingInterval > 0
                  /\ IdleTimeout > PingInterval /\ AnswerBy > s.deadline
           d == IF put THEN AnswerBy ELSE s.deadline
           z == [s EXCEPT !.pingDue = 0, !.deadline = d]
           t == Reschedule(z)
<1>1. PingLapsed(s) = t
  BY DEF PingLapsed
<1>2. /\ s.deadline \in Nat /\ IdleTimeout \in Nat /\ PingInterval \in Nat
  BY DEF ConnRec, ServerAssumption
<1>3. AnswerBy \in Nat /\ (PingsFirst => AnswerBy >= 2)
  BY <1>2 DEF AnswerBy, Armed, PingsFirst
<1>4. /\ d \in Nat /\ (s.state # "open" => d = s.deadline)
      /\ s.state = "open" /\ s.deadline # 0 /\ PingsFirst =>
           d >= AnswerBy /\ ~Lapsed(d) /\ d # 0
  BY <1>2, <1>3 DEF PingsFirst, Lapsed
<1> HIDE DEF d
<1>5. /\ z \in ConnRec /\ Seated(s, z) /\ Minded(s, z) /\ Quiet(s, z)
      /\ z.pingDue = 0 /\ z.asked = s.asked /\ z.deadline = d
  BY <1>4 DEF ConnRec, Seated, Minded, Quiet
<1> HIDE DEF z
<1>6. /\ t \in ConnRec /\ Seated(z, t) /\ Minded(z, t) /\ Quiet(z, t)
      /\ t.deadline = z.deadline /\ t.pingDue = z.pingDue /\ t.asked = z.asked
      /\ Scheduled(t)
  BY <1>5, RescheduleDoes
<1> HIDE DEF t
<1> QED
  BY <1>1, <1>4, <1>5, <1>6 DEF Seated, Minded, Quiet

(* A session idle as its check starts, and what it has in common with p:   *)
(* p is the record the clocks are judged on.                               *)
Judging(s, p) ==
  /\ p \in ConnRec /\ p.life = "live" /\ ~p.dropping /\ p.run = "idle"
  /\ p.inDelivery /\ ~p.sweepPosted /\ p.proto = s.proto
  /\ Minded(s, p) /\ Quiet(s, p)

(* What the check makes of a session before the delivery unwinds.          *)
Judged(s, k) ==
  /\ k \in ConnRec /\ k.life = "live" /\ ~k.dropping /\ k.run = "idle"
  /\ ~k.sweepPosted /\ Becomes(s, k)
  /\ ~k.dropDeferred => Tidy(k)
  /\ ~k.dropDeferred /\ ~k.faulted => Settles(k) /\ (k.failed => k.dropPending)

LEMMA IdleFields ==
  \A s : Session(s) /\ s.run = "idle" =>
    /\ s \in ConnRec /\ Tidy(s) /\ Disciplined(All(s)) /\ Settles(s)
    /\ ~s.dropDeferred /\ (s.failed \/ s.faulted => s.dropPending)
    /\ s.dropPending => s.pingDue = 0
    /\ s.deadline \in Nat /\ s.pingDue \in Nat /\ s.asked \in Nat
    /\ s.life = "live" /\ ~s.dropping
<1> TAKE s
<1> SUFFICES ASSUME Session(s), s.run = "idle"
             PROVE  /\ s \in ConnRec /\ Tidy(s) /\ Disciplined(All(s))
                    /\ Settles(s)
                    /\ ~s.dropDeferred /\ (s.failed \/ s.faulted => s.dropPending)
                    /\ s.dropPending => s.pingDue = 0
                    /\ s.deadline \in Nat /\ s.pingDue \in Nat /\ s.asked \in Nat
                    /\ s.life = "live" /\ ~s.dropping
  OBVIOUS
<1>1. /\ s \in ConnRec /\ s.life = "live" /\ ~s.dropping
      /\ Disciplined(All(s)) /\ Tidy(s) /\ Rested(s)
  BY SessionFields
<1>2. s.deadline \in Nat /\ s.pingDue \in Nat /\ s.asked \in Nat
  BY <1>1 DEF ConnRec
<1> QED
  BY <1>1, <1>2 DEF Rested, Tidy, Flagged

(* The peer is asked, and has the time to answer.                          *)
LEMMA PingJudged ==
  \A s, z : \A e \in Results :
    /\ Session(s) /\ s.run = "idle" /\ Judging(s, z) /\ Clocked(s, z)
    /\ Lapsed(s.pingDue) /\ PingLapsed(z).state = "open"
    => Judged(s, FlushConn([SendFrame(PingLapsed(z), It("ping"))
                              EXCEPT !.asked = 1], e))
<1> TAKE s, z
<1> TAKE e \in Results
<1> DEFINE p == PingLapsed(z)
           n == SendFrame(p, It("ping"))
           g == [n EXCEPT !.asked = 1]
           k == FlushConn(g, e)
<1> SUFFICES ASSUME Session(s), s.run = "idle", Judging(s, z), Clocked(s, z),
                    Lapsed(s.pingDue), p.state = "open"
             PROVE  Judged(s, k)
  OBVIOUS
<1>1. /\ s \in ConnRec /\ Tidy(s) /\ Disciplined(All(s)) /\ Settles(s)
      /\ ~s.dropDeferred /\ (s.failed \/ s.faulted => s.dropPending)
      /\ s.dropPending => s.pingDue = 0
      /\ s.deadline \in Nat /\ s.pingDue \in Nat /\ s.asked \in Nat
      /\ s.life = "live" /\ ~s.dropping
  BY IdleFields
<1>2. ~s.dropPending /\ ~s.failed /\ ~s.faulted
  BY <1>1 DEF Lapsed
<1>3. /\ p \in ConnRec /\ Seated(z, p) /\ Minded(z, p) /\ Quiet(z, p)
      /\ p.pingDue = 0 /\ Scheduled(p)
      /\ z.state = "open" /\ z.deadline # 0 /\ PingsFirst =>
           p.deadline >= AnswerBy /\ ~Lapsed(p.deadline) /\ p.deadline # 0
  BY PingLapsedDoes DEF Judging
<1> HIDE DEF p
<1>4. s.state = "open" /\ z.state = "open"
  BY <1>3 DEF Judging, Minded
<1>5. Spoken(p) /\ Flagged(p)
  <2>1. All(p) = All(s) /\ p.sent = s.sent /\ Minded(s, p) /\ p.proto = s.proto
    BY <1>3 DEF Judging, Quiet, Minded, Seated, All
  <2>2. Spoken(p)
    BY <1>1, <2>1 DEF Tidy, Spoken, Minded
  <2>3. Flagged(p)
    BY <1>1, <1>3, <2>1 DEF Tidy, Flagged, Minded
  <2> QED
    BY <2>2, <2>3
<1>6. /\ n \in ConnRec /\ Seated(p, n) /\ Minded(p, n) /\ Clocked(p, n)
      /\ n.sent = p.sent /\ Spoken(n)
  BY <1>3, <1>5, SendFrameDoes
<1> HIDE DEF n
<1>7. /\ g \in ConnRec /\ Seated(n, g) /\ Minded(n, g) /\ g.sent = n.sent
      /\ g.deadline = n.deadline /\ g.pingDue = n.pingDue
      /\ g.sweepAt = n.sweepAt /\ g.asked = 1
      /\ g.wire = n.wire /\ g.out = n.out
  BY <1>6 DEF ConnRec, Seated, Minded
<1> HIDE DEF g
<1>8. /\ Seated(z, g) /\ Minded(s, g) /\ g.deadline = p.deadline
      /\ g.pingDue = 0 /\ g.sweepAt = p.sweepAt
  BY <1>3, <1>6, <1>7 DEF Judging, Seated, Minded, Clocked
<1>9. Tidy(g)
  <2>1. Spoken(g)
    BY <1>6, <1>7 DEF Spoken, Minded, All
  <2>2. Flagged(g)
    BY <1>5, <1>6, <1>7 DEF Flagged, Minded, Seated, Clocked
  <2>3. Scheduled(g)
    BY <1>3, <1>8 DEF Scheduled, NextCheck
  <2>4. Asked(g)
    <3>1. SUFFICES ASSUME g.state = "open", ~g.closeSent, PingsFirst
                   PROVE  Asking(g)
      BY DEF Asked
    <3>2. Asking(s)
      BY <1>1, <1>4, <1>8, <3>1 DEF Tidy, Asked, Minded
    <3>3. z.deadline # 0
      BY <3>2 DEF Asking, Clocked
    <3>4. g.deadline >= AnswerBy /\ g.deadline # 0
      BY <1>3, <1>4, <1>8, <3>1, <3>3
    <3>5. g.deadline \in Nat /\ AnswerBy \in Nat
      BY <1>7 DEF ConnRec, AnswerBy, Armed, ServerAssumption
    <3> QED
      BY <1>7, <1>8, <3>4, <3>5 DEF Asking
  <2> QED
    BY <2>1, <2>2, <2>3, <2>4 DEF Tidy
<1>10. /\ k \in ConnRec /\ Seated(g, k) /\ Tidy(k)
       /\ k.state = g.state /\ k.failed = g.failed
       /\ k.dropPending = g.dropPending /\ (k.dropDeferred \/ Settles(k))
  BY <1>7, <1>8, <1>9, FlushInside DEF Judging, Seated
<1> HIDE DEF k
<1>11. /\ k.life = "live" /\ ~k.dropping /\ k.run = "idle" /\ ~k.sweepPosted
       /\ k.state = "open" /\ ~k.failed
  BY <1>2, <1>4, <1>8, <1>10 DEF Judging, Seated, Minded
<1>12. Becomes(s, k)
  BY <1>2, <1>4, <1>10, <1>11 DEF Becomes, Asks, Tidy, Spoken
<1> QED
  BY <1>10, <1>11, <1>12 DEF Judged, k, g, n, p

(* A deadline that has passed closes an open session and drops any other.  *)
LEMMA DeadlineJudged ==
  \A s, p : \A e \in Results :
    /\ Session(s) /\ s.run = "idle" /\ Judging(s, p)
    /\ s.state # "open" \/ s.dropPending => Lapsed(s.deadline)
    /\ s.state = "open" /\ ~s.closeSent /\ PingsFirst =>
         s.asked > IdleTimeout - PingInterval
    => Judged(s, DeadlineLapsed(p, e))
<1> TAKE s, p
<1> TAKE e \in Results
<1> SUFFICES ASSUME Session(s), s.run = "idle", Judging(s, p),
                    s.state # "open" \/ s.dropPending => Lapsed(s.deadline),
                    s.state = "open" /\ ~s.closeSent /\ PingsFirst =>
                      s.asked > IdleTimeout - PingInterval
             PROVE  Judged(s, DeadlineLapsed(p, e))
  OBVIOUS
<1> DEFINE y == [p EXCEPT !.deadline = 0]
           n == SendClose(y)
           g == [n EXCEPT !.state = "closing"]
           f == FlushConn(g, e)
           k == DeadlineLapsed(p, e)
<1>1. /\ s \in ConnRec /\ Tidy(s) /\ Disciplined(All(s))
      /\ ~s.dropDeferred /\ (s.failed \/ s.faulted => s.dropPending)
      /\ s.deadline \in Nat
  BY IdleFields
<1>2. k = IF y.state = "open" THEN DropConn(f) ELSE DropConn(y)
  BY DEF DeadlineLapsed
<1>3. /\ y \in ConnRec /\ y.life = "live" /\ ~y.dropping /\ y.run = "idle"
      /\ y.inDelivery /\ ~y.sweepPosted /\ y.deadline = 0
      /\ y.state = s.state /\ y.dropPending = s.dropPending
      /\ y.closeSent = s.closeSent /\ y.failed = s.failed
      /\ y.faulted = s.faulted /\ y.wire = s.wire /\ y.out = s.out
      /\ y.sent = s.sent /\ y.pingDue = p.pingDue
  BY DEF Judging, Minded, Quiet, ConnRec
<1> HIDE DEF y, k
<1>4. All(y) = All(s) /\ Closed(y) = Closed(s)
  BY <1>3 DEF All, Closed
<1>5. CASE s.state # "open"
  <2> DEFINE t == DropConn(y)
  <2>1. /\ t \in ConnRec /\ Seated(y, t) /\ Clocked(y, t) /\ Quiet(y, t)
        /\ t.state = y.state /\ t.failed = y.failed /\ t.faulted = y.faulted
        /\ t.dropPending = y.dropPending /\ t.dropDeferred
    BY <1>3, DropConnNotes
  <2> HIDE DEF t
  <2>2. k = t
    BY <1>2, <1>3, <1>5 DEF t
  <2>3. All(t) = All(s) /\ t.deadline = 0 /\ t.state = s.state
        /\ t.dropPending = s.dropPending
    BY <1>3, <1>4, <2>1 DEF Quiet, All, Clocked
  <2>4. Becomes(s, t)
    BY <1>1, <1>5, <2>1, <2>3 DEF Becomes, Asks
  <2>5. /\ t.life = "live" /\ ~t.dropping /\ t.run = "idle" /\ ~t.sweepPosted
    BY <1>3, <2>1 DEF Seated
  <2> QED
    BY <2>1, <2>2, <2>4, <2>5 DEF Judged, k
<1>6. CASE s.state = "open"
  <2>1. /\ n \in ConnRec /\ Seated(y, n) /\ n.sent = y.sent
        /\ n.failed = y.failed /\ n.faulted = y.faulted
        /\ n.dropPending = y.dropPending /\ n.closeSent /\ All(n) = Closed(y)
    BY <1>3, SendCloseDoes
  <2> HIDE DEF n
  <2>2. /\ g \in ConnRec /\ Seated(n, g) /\ g.sent = n.sent
        /\ g.closeSent = n.closeSent /\ g.wire = n.wire /\ g.out = n.out
        /\ g.state = "closing"
    BY <2>1 DEF ConnRec, Seated
  <2> HIDE DEF g
  <2>3. Disciplined(All(g))
    <3>1. All(g) = Closed(s)
      BY <1>4, <2>1, <2>2 DEF All
    <3>2. g.state # "handshake" /\ g.closeSent /\ g.sent = s.sent
          /\ Spoken(s)
      BY <1>1, <1>3, <2>1, <2>2 DEF Tidy
    <3>3. Spoken(g)
      BY <1>1, <1>6, <2>2, <3>1, <3>2, SpokenClosed
    <3> QED
      BY <3>3 DEF Spoken
  <2>4. PICK x : Flushed(g, x) /\ (f = x \/ f = DropConn(x))
    BY <2>2, FlushConnDoes
  <2>5. /\ x \in ConnRec /\ Seated(g, x) /\ x.state = "closing"
        /\ All(x) = All(g) /\ x.inDelivery
    BY <1>3, <2>1, <2>2, <2>4 DEF Flushed, Minded, Seated
  <2> HIDE DEF f
  <2>6. /\ f \in ConnRec /\ Seated(g, f) /\ f.state = "closing"
        /\ All(f) = All(g) /\ f.inDelivery
    <3>1. CASE f = x
      BY <2>5, <3>1
    <3>2. CASE f = DropConn(x)
      <4>1. /\ f \in ConnRec /\ Seated(x, f) /\ Quiet(x, f)
            /\ f.state = x.state
        BY <2>5, <3>2, DropConnNotes
      <4> QED
        BY <2>5, <4>1 DEF Seated, Quiet, All
    <3> QED
      BY <2>4, <3>1, <3>2
  <2> DEFINE t == DropConn(f)
  <2>7. /\ t \in ConnRec /\ Seated(f, t) /\ Quiet(f, t)
        /\ t.state = "closing" /\ t.dropDeferred
    BY <2>6, DropConnNotes
  <2> HIDE DEF t
  <2>8. k = t
    BY <1>2, <1>3, <1>6 DEF t
  <2>9. Disciplined(All(t))
    BY <2>3, <2>6, <2>7 DEF Quiet, All
  <2>10. /\ t.life = "live" /\ ~t.dropping /\ t.run = "idle"
         /\ ~t.sweepPosted
    BY <1>3, <2>1, <2>2, <2>6, <2>7 DEF Seated
  <2>11. Asks(s, t)
    BY DEF Asks
  <2>12. Becomes(s, t)
    BY <1>1, <1>6, <2>7, <2>9, <2>11 DEF Becomes
  <2> QED
    BY <2>7, <2>8, <2>10, <2>12 DEF Judged, k
<1> QED
  BY <1>5, <1>6

LEMMA CalmJudged ==
  \A s, p :
    /\ Session(s) /\ s.run = "idle" /\ Judging(s, p)
    /\ p.deadline = s.deadline /\ p.pingDue \in {0, s.pingDue}
    /\ Scheduled(p) /\ Asked(p)
    => Judged(s, p)
<1> TAKE s, p
<1> SUFFICES ASSUME Session(s), s.run = "idle", Judging(s, p),
                    p.deadline = s.deadline, p.pingDue \in {0, s.pingDue},
                    Scheduled(p), Asked(p)
             PROVE  Judged(s, p)
  OBVIOUS
<1>1. /\ s \in ConnRec /\ Tidy(s) /\ Disciplined(All(s)) /\ Settles(s)
      /\ ~s.dropDeferred /\ (s.failed \/ s.faulted => s.dropPending)
      /\ s.deadline \in Nat
  BY IdleFields
<1>2. All(p) = All(s) /\ p.sent = s.sent /\ Minded(s, p) /\ p.proto = s.proto
  BY DEF Judging, Quiet, All
<1>3. Spoken(p)
  BY <1>1, <1>2 DEF Tidy, Spoken, Minded
<1>4. Flagged(p)
  BY <1>1, <1>2 DEF Tidy, Flagged, Minded
<1>5. Tidy(p)
  BY <1>3, <1>4 DEF Tidy
<1>6. Settles(p)
  BY <1>1, <1>2 DEF Settles, OverCap, Judging, Quiet, Minded
<1>7. Becomes(s, p)
  BY <1>1, <1>2 DEF Becomes, Asks, Minded, Judging
<1> QED
  BY <1>1, <1>2, <1>5, <1>6, <1>7 DEF Judged, Judging, Minded

LEMMA CheckClockJudged ==
  \A s : \A e \in Results : Session(s) /\ s.run = "idle" =>
    Judged(s, CheckClock([s EXCEPT !.inDelivery = TRUE], e))
<1> TAKE s
<1> TAKE e \in Results
<1> SUFFICES ASSUME Session(s), s.run = "idle"
             PROVE  Judged(s, CheckClock([s EXCEPT !.inDelivery = TRUE], e))
  OBVIOUS
<1> DEFINE d == [s EXCEPT !.inDelivery = TRUE]
           z == [d EXCEPT !.sweepPosted = FALSE]
           p == PingLapsed(z)
           k == CheckClock(d, e)
<1>1. /\ s \in ConnRec /\ Tidy(s)
      /\ s.dropPending => s.pingDue = 0
      /\ s.deadline \in Nat /\ s.pingDue \in Nat /\ s.asked \in Nat
      /\ s.life = "live" /\ ~s.dropping
  BY IdleFields
<1>2. Judging(s, z) /\ Clocked(s, z)
  BY <1>1 DEF ConnRec, Judging, Minded, Quiet, Clocked
<1>3. k = IF z.dropping THEN z
          ELSE IF Lapsed(z.pingDue)
            THEN IF p.state = "open" /\ ~Lapsed(p.deadline)
                   THEN FlushConn([SendFrame(p, It("ping")) EXCEPT !.asked = 1],
                                  e)
                   ELSE JudgeDeadline(p, e)
            ELSE JudgeDeadline(z, e)
  BY DEF CheckClock
<1> HIDE DEF z, k
<1>4. ~z.dropping /\ z.pingDue = s.pingDue /\ z.deadline = s.deadline
  BY <1>2 DEF Judging, Clocked
<1>5. IdleTimeout \in Nat /\ PingInterval \in Nat
  BY DEF ServerAssumption
<1>6. CASE Lapsed(s.pingDue)
  <2>1. /\ p \in ConnRec /\ Seated(z, p) /\ Minded(z, p) /\ Quiet(z, p)
        /\ p.pingDue = 0 /\ Scheduled(p)
        /\ z.state # "open" => p.deadline = z.deadline
        /\ z.state = "open" /\ z.deadline # 0 /\ PingsFirst =>
             ~Lapsed(p.deadline)
    BY <1>2, PingLapsedDoes DEF Judging
  <2> HIDE DEF p
  <2>2. Judging(s, p)
    BY <1>2, <2>1 DEF Judging, Seated, Minded, Quiet
  <2>3. ~s.dropPending /\ p.state = s.state /\ z.state = s.state
    BY <1>1, <1>2, <1>6, <2>1 DEF Lapsed, Judging, Minded
  <2>4. CASE p.state = "open" /\ ~Lapsed(p.deadline)
    <3>1. k = FlushConn([SendFrame(p, It("ping")) EXCEPT !.asked = 1], e)
      BY <1>3, <1>4, <1>6, <2>4
    <3> QED
      BY <1>2, <1>6, <2>4, <3>1, PingJudged DEF k, p
  <2>5. CASE Lapsed(p.deadline)
    <3>1. k = DeadlineLapsed(p, e)
      BY <1>3, <1>4, <1>6, <2>5 DEF JudgeDeadline
    <3>2. s.state # "open" \/ s.dropPending => Lapsed(s.deadline)
      BY <1>4, <2>1, <2>3, <2>5
    <3>3. ~(s.state = "open" /\ ~s.closeSent /\ PingsFirst)
      <4>1. SUFFICES ASSUME s.state = "open", ~s.closeSent, PingsFirst
                     PROVE  FALSE
        OBVIOUS
      <4>2. s.deadline # 0
        BY <1>1, <4>1 DEF Tidy, Asked, Asking
      <4> QED
        BY <1>4, <2>1, <2>3, <2>5, <4>1, <4>2
    <3>4. Judged(s, DeadlineLapsed(p, e))
      BY <2>2, <3>2, <3>3, DeadlineJudged
    <3> QED
      BY <3>1, <3>4 DEF k
  <2>6. CASE p.state # "open" /\ ~Lapsed(p.deadline)
    <3>1. k = p
      BY <1>3, <1>4, <1>6, <2>6 DEF JudgeDeadline
    <3>2. p.deadline = s.deadline /\ Asked(p)
      BY <1>4, <2>1, <2>3, <2>6 DEF Asked
    <3>3. Judged(s, p)
      BY <2>1, <2>2, <3>2, CalmJudged
    <3> QED
      BY <3>1, <3>3 DEF k
  <2> QED
    BY <2>4, <2>5, <2>6
<1>7. CASE ~Lapsed(s.pingDue)
  <2>1. k = JudgeDeadline(z, e)
    BY <1>3, <1>4, <1>7
  <2>2. CASE Lapsed(s.deadline)
    <3>1. k = DeadlineLapsed(z, e)
      BY <1>4, <2>1, <2>2 DEF JudgeDeadline
    <3>2. s.state = "open" /\ ~s.closeSent /\ PingsFirst =>
            s.asked > IdleTimeout - PingInterval
      <4>1. SUFFICES ASSUME s.state = "open", ~s.closeSent, PingsFirst
                     PROVE  s.asked > IdleTimeout - PingInterval
        OBVIOUS
      <4>2. Asking(s)
        BY <1>1, <4>1 DEF Tidy, Asked
      <4>3. s.pingDue = 0
        BY <1>1, <1>7, <2>2, <4>2 DEF Asking, Lapsed
      <4>4. \/ s.deadline + s.asked > AnswerBy
            \/ s.asked > IdleTimeout - PingInterval
        BY <4>2, <4>3 DEF Asking
      <4>5. AnswerBy = IdleTimeout - PingInterval + 1
        BY <1>5, <4>1 DEF AnswerBy, Armed, PingsFirst
      <4> QED
        BY <1>1, <1>5, <2>2, <4>4, <4>5 DEF Lapsed
    <3>3. Judged(s, DeadlineLapsed(z, e))
      BY <1>2, <2>2, <3>2, DeadlineJudged
    <3> QED
      BY <3>1, <3>3 DEF k
  <2>3. CASE ~Lapsed(s.deadline)
    <3>1. k = z
      BY <1>4, <2>1, <2>3 DEF JudgeDeadline
    <3>2. Scheduled(z) /\ Asked(z)
      BY <1>1, <1>2
         DEF Tidy, Scheduled, NextCheck, Asked, Asking, Clocked, Judging, Minded
    <3>3. Judged(s, z)
      BY <1>2, <1>4, <3>2, CalmJudged
    <3> QED
      BY <3>1, <3>3 DEF k
  <2> QED
    BY <2>2, <2>3
<1> QED
  BY <1>6, <1>7

(* The check is over, and its post with it.                                *)
LEMMA ClockCheckedKept ==
  \A s : \A e \in Results : Session(s) /\ s.run = "idle" =>
    /\ Sure(s, ClockChecked(s, e))
    /\ ~ClockChecked(s, e).dropping => ~ClockChecked(s, e).sweepPosted
<1> TAKE s
<1> TAKE e \in Results
<1> SUFFICES ASSUME Session(s), s.run = "idle"
             PROVE  /\ Sure(s, ClockChecked(s, e))
                    /\ ~ClockChecked(s, e).dropping =>
                         ~ClockChecked(s, e).sweepPosted
  OBVIOUS
<1> DEFINE k == CheckClock([s EXCEPT !.inDelivery = TRUE], e)
           u == [k EXCEPT !.inDelivery = FALSE]
           t == SettleDelivery(u, e)
<1>1. ClockChecked(s, e) = t
  BY DEF ClockChecked
<1>2. Judged(s, k)
  BY CheckClockJudged
<1> HIDE DEF k
<1>3. k \in ConnRec
  BY <1>2 DEF Judged
<1>4. /\ u \in ConnRec /\ u.life = k.life /\ u.dropping = k.dropping
      /\ u.run = k.run /\ ~u.inDelivery /\ Minded(k, u) /\ Clocked(k, u)
      /\ u.proto = k.proto /\ u.wire = k.wire /\ u.out = k.out
      /\ u.owed = k.owed /\ u.sent = k.sent /\ u.sweepPosted = k.sweepPosted
  BY <1>3 DEF ConnRec, Minded, Clocked
<1> HIDE DEF u
<1>5. All(u) = All(k) /\ Matched(k, u)
  BY <1>4 DEF Matched, Minded, All
<1>6. Outside(u) /\ u.run = "idle" /\ ~u.sweepPosted
  BY <1>2, <1>4 DEF Judged, Outside
<1>7. Unwinding(u)
  <2>1. ~u.dropDeferred => Tidy(u)
    BY <1>2, <1>4, <1>5, TidyMatched DEF Judged, Minded
  <2>2. Disciplined(All(u))
    BY <1>2, <1>5 DEF Judged, Becomes
  <2>3. ~u.dropDeferred /\ ~u.faulted =>
          Settles(u) /\ (u.failed => u.dropPending)
    BY <1>2, <1>4 DEF Judged, Minded, Settles, OverCap
  <2> QED
    BY <1>6, <2>1, <2>2, <2>3 DEF Unwinding
<1>8. Becomes(s, u)
  <2>1. Becomes(s, k)
    BY <1>2 DEF Judged
  <2> QED
    BY <1>4, <1>5, <2>1 DEF Becomes, Asks, Minded, Clocked
<1>9. Stays(u, t) \/ Leaves(u, t)
  BY <1>7, SettleDeliveryDoes
<1>10. Sure(s, t) /\ (~t.dropping => t.sweepPosted = u.sweepPosted)
  BY <1>8, <1>9, BecomesSure
<1> QED
  BY <1>1, <1>6, <1>10

-----------------------------------------------------------------------------
(* The checks on their way.                                                *)

ChecksIn(q) == {i \in 1 .. Len(q) : q[i] = "check"}

OneCheck(q, posted) ==
  IF posted THEN \E i : ChecksIn(q) = {i} ELSE ChecksIn(q) = {}

LEMMA ChecksAppend ==
  \A q \in Seq({"check", "proc"}) :
    /\ OneCheck(q, FALSE) => OneCheck(Append(q, "check"), TRUE)
    /\ \A b \in BOOLEAN : OneCheck(q, b) => OneCheck(Append(q, "proc"), b)
<1> TAKE q \in Seq({"check", "proc"})
<1> DEFINE r == Append(q, "check")
           p == Append(q, "proc")
<1>1. /\ Len(q) \in Nat /\ Len(r) = Len(q) + 1 /\ Len(p) = Len(q) + 1
      /\ r[Len(q) + 1] = "check" /\ p[Len(q) + 1] = "proc"
      /\ \A i \in 1 .. Len(q) : r[i] = q[i] /\ p[i] = q[i]
  OBVIOUS
<1> HIDE DEF r, p
<1>2. ChecksIn(r) = ChecksIn(q) \union {Len(q) + 1}
  BY <1>1 DEF ChecksIn
<1>3. ChecksIn(p) = ChecksIn(q)
  BY <1>1 DEF ChecksIn
<1>4. OneCheck(q, FALSE) => OneCheck(r, TRUE)
  BY <1>2 DEF OneCheck
<1>5. \A b \in BOOLEAN : OneCheck(q, b) => OneCheck(p, b)
  BY <1>3 DEF OneCheck
<1> QED
  BY <1>4, <1>5 DEF r, p

LEMMA ChecksTail ==
  \A q \in Seq({"check", "proc"}) : q # <<>> =>
    /\ \A b \in BOOLEAN :
         OneCheck(q, b) /\ Head(q) = "check" => OneCheck(Tail(q), FALSE)
    /\ \A b \in BOOLEAN :
         OneCheck(q, b) /\ Head(q) # "check" => OneCheck(Tail(q), b)
<1> TAKE q \in Seq({"check", "proc"})
<1> SUFFICES ASSUME q # <<>>
             PROVE  /\ \A b \in BOOLEAN :
                         OneCheck(q, b) /\ Head(q) = "check"
                           => OneCheck(Tail(q), FALSE)
                    /\ \A b \in BOOLEAN :
                         OneCheck(q, b) /\ Head(q) # "check"
                           => OneCheck(Tail(q), b)
  OBVIOUS
<1> DEFINE r == Tail(q)
<1>1. /\ Len(q) \in Nat /\ Len(q) >= 1 /\ Len(r) = Len(q) - 1
      /\ q[1] = Head(q)
      /\ \A i \in 1 .. Len(q) - 1 : r[i] = q[i + 1]
  OBVIOUS
<1> HIDE DEF r
<1>2. ChecksIn(r) = {i \in 1 .. Len(q) - 1 : i + 1 \in ChecksIn(q)}
  BY <1>1 DEF ChecksIn
<1>3. 1 \in ChecksIn(q) <=> Head(q) = "check"
  BY <1>1 DEF ChecksIn
<1>4. ASSUME NEW b \in BOOLEAN, OneCheck(q, b), Head(q) = "check"
      PROVE  OneCheck(r, FALSE)
  <2>1. PICK i : ChecksIn(q) = {i}
    BY <1>3, <1>4 DEF OneCheck
  <2>2. ChecksIn(q) = {1}
    BY <1>3, <1>4, <2>1
  <2>3. ChecksIn(r) = {}
    BY <1>1, <1>2, <2>2
  <2> QED
    BY <2>3 DEF OneCheck
<1>5. ASSUME NEW b \in BOOLEAN, OneCheck(q, b), Head(q) # "check"
      PROVE  OneCheck(r, b)
  <2>1. CASE b = FALSE
    <3>1. ChecksIn(q) = {}
      BY <1>5, <2>1 DEF OneCheck
    <3>2. ChecksIn(r) = {}
      BY <1>2, <3>1
    <3> QED
      BY <2>1, <3>2 DEF OneCheck
  <2>2. CASE b = TRUE
    <3>1. PICK i : ChecksIn(q) = {i}
      BY <1>5, <2>2 DEF OneCheck
    <3>2. i \in 1 .. Len(q) /\ i # 1
      BY <1>3, <1>5, <3>1 DEF ChecksIn
    <3>3. ChecksIn(r) = {i - 1}
      BY <1>1, <1>2, <3>1, <3>2
    <3> QED
      BY <2>2, <3>3 DEF OneCheck
  <2> QED
    BY <2>1, <2>2
<1> QED
  BY <1>4, <1>5 DEF r

-----------------------------------------------------------------------------
(* The state.                                                              *)

Counted(c) == ~conn[c].dropping => OneCheck(inbox[c], conn[c].sweepPosted)

(* The inductive invariant of this module.                                 *)
SInv == RInv /\ \A c \in Conns : Sound(conn[c]) /\ Counted(c)

(* What a step of the server does to a connection.                         *)
Followed(c) ==
  /\ Sound(conn'[c])
  /\ ~conn'[c].dropping => OneCheck(inbox'[c], conn'[c].sweepPosted)
  /\ conn[c].life = "live" => Waits(conn[c], conn'[c])
  /\ Asks(conn[c], conn'[c])
  /\ Drains(conn[c], conn'[c]) \/ ~up'

LEMMA SInvTypes ==
  ASSUME SInv
  PROVE  /\ conn \in [Conns -> ConnRec]
         /\ inbox \in [Conns -> Seq({"check", "proc"})]
         /\ \A c \in Conns : conn[c] \in ConnRec /\ conn[c].deadline \in Nat
                             /\ Sound(conn[c]) /\ Counted(c)
<1>1. /\ conn \in [Conns -> ConnRec]
      /\ inbox \in [Conns -> Seq({"check", "proc"})]
  BY DEF SInv, RInv, IInv, TypeOK
<1>2. \A c \in Conns : conn[c] \in ConnRec
  BY <1>1
<1>3. \A c \in Conns : conn[c].deadline \in Nat
  BY <1>2 DEF ConnRec
<1> QED
  BY <1>1, <1>2, <1>3 DEF SInv

(* A connection the step does not touch.                                   *)
LEMMA Untroubled ==
  ASSUME SInv, NEW c \in Conns, conn'[c] = conn[c],
         OneCheck(inbox[c], conn[c].sweepPosted)
           => OneCheck(inbox'[c], conn[c].sweepPosted)
  PROVE  Followed(c)
<1>1. conn[c] \in ConnRec /\ conn[c].deadline \in Nat /\ Sound(conn[c])
      /\ Counted(c)
  BY SInvTypes
<1> DEFINE s == conn[c]
<1>2. Waits(s, s) /\ Asks(s, s) /\ Drains(s, s)
  <2> HIDE DEF s
  <2>1. Waits(s, s)
    BY <1>1, WaitsSame DEF s
  <2>2. Asks(s, s) /\ Drains(s, s)
    BY DEF Asks, Drains
  <2> QED
    BY <2>1, <2>2
<1>3. conn'[c] = s /\ Sound(s)
      /\ (~s.dropping => OneCheck(inbox'[c], s.sweepPosted))
  BY <1>1 DEF Counted
<1> QED
  BY <1>2, <1>3 DEF Followed

(* A step that touches one connection.                                     *)
LEMMA OthersFollow ==
  ASSUME SInv, NEW c \in Conns, Followed(c),
         \A d \in Conns : d # c => conn'[d] = conn[d] /\ inbox'[d] = inbox[d]
  PROVE  \A d \in Conns : Followed(d)
<1> TAKE d \in Conns
<1>1. CASE d = c
  BY <1>1
<1>2. CASE d # c
  BY <1>2, Untroubled
<1> QED
  BY <1>1, <1>2

LEMMA KeptFollowed ==
  ASSUME SInv, NEW c \in Conns, NEW t, Session(conn[c]), Commit(c, t),
         UNCHANGED inbox, Kept(conn[c], t)
  PROVE  \A d \in Conns : Followed(d)
<1>1. /\ conn \in [Conns -> ConnRec] /\ conn' = [conn EXCEPT ![c] = t]
      /\ Counted(c)
  BY SInvTypes, Zenon DEF Commit
<1>2. conn'[c] = t /\ \A d \in Conns : d # c => conn'[d] = conn[d]
  BY <1>1
<1>3. Followed(c)
  <2>1. ~conn[c].dropping
    BY DEF Session
  <2> QED
    BY <1>1, <1>2, <2>1 DEF Followed, Kept, Sure, Counted
<1>4. \A d \in Conns : d # c => Followed(d)
  BY <1>2, Untroubled
<1> QED
  BY <1>3, <1>4

LEMMA ReadySession ==
  ASSUME SInv, NEW c \in Conns, conn[c].userData, conn[c].run = "idle"
  PROVE  Session(conn[c])
<1>1. Free(conn[c]) /\ Running(conn[c])
  BY ReadyFree DEF SInv
<1> QED
  BY <1>1, SInvTypes DEF Free, Session

LEMMA DeliverySession ==
  ASSUME SInv, NEW c \in Conns,
         conn[c].run \in {"ingest", "onopen", "onmessage", "onpost"}
  PROVE  Session(conn[c]) /\ conn[c].run # "idle"
<1>1. /\ Running(conn[c]) /\ conn[c].run # "idle" /\ conn[c].inDelivery
  BY DeliveryRunning DEF SInv
<1>2. ~conn[c].dropping
  BY <1>1, GoodFields DEF Running, Lawful
<1> QED
  BY <1>1, <1>2, SInvTypes DEF Session

-----------------------------------------------------------------------------
(* The actions.                                                            *)

LEMMA HandshakeDataFollowed ==
  ASSUME SInv, NEW c \in Conns, HandshakeData(c)
  PROVE  \A d \in Conns : Followed(d)
<1>1. /\ conn[c].userData /\ conn[c].run = "idle"
      /\ conn[c].state = "handshake" /\ ~conn[c].dropPending
      /\ UNCHANGED inbox
  BY DEF HandshakeData, Ready
<1>2. Session(conn[c])
  BY <1>1, ReadySession
<1>3. PICK e \in SendResults(conn[c]) :
        \/ Commit(c, Refuse(conn[c], e))
        \/ Commit(c, Answer(conn[c], e))
        \/ \E left \in Reads \union {<<>>} :
             Commit(c, Upgrade(conn[c], e, left))
  BY Zenon DEF HandshakeData
<1>4. e \in Results
  BY SendResultsKnown
<1>5. CASE Commit(c, Refuse(conn[c], e))
  BY <1>1, <1>2, <1>5, RefuseKept, KeptFollowed, Zenon
<1>6. CASE Commit(c, Answer(conn[c], e))
  BY <1>1, <1>2, <1>4, <1>6, AnswerKept, KeptFollowed, Zenon
<1>7. CASE \E left \in Reads \union {<<>>} :
             Commit(c, Upgrade(conn[c], e, left))
  <2>1. PICK left \in Reads \union {<<>>} :
               Commit(c, Upgrade(conn[c], e, left))
    BY <1>7
  <2>2. <<>> \in Seq(FrameKinds)
    OBVIOUS
  <2>3. left \in Seq(FrameKinds)
    BY <2>2, ReadsTyped
  <2>4. Kept(conn[c], Upgrade(conn[c], e, left))
    BY <1>1, <1>2, <1>4, <2>3, UpgradeKept, Zenon
  <2> QED
    BY <1>1, <1>2, <2>1, <2>4, KeptFollowed, Zenon
<1> QED
  BY <1>3, <1>5, <1>6, <1>7

LEMMA HandleDataFollowed ==
  ASSUME SInv, NEW c \in Conns, HandleData(c)
  PROVE  \A d \in Conns : Followed(d)
<1>1. conn[c].userData /\ conn[c].run = "idle" /\ UNCHANGED inbox
  BY DEF HandleData, Ready
<1>2. Session(conn[c])
  BY <1>1, ReadySession
<1>3. PICK frames \in Reads :
        Commit(c, [StartIngest(NoteActivity(conn[c]), frames)
                     EXCEPT !.reads = @ + 1])
  BY Zenon DEF HandleData
<1>4. frames \in Seq(FrameKinds)
  BY ReadsTyped
<1> QED
  BY <1>1, <1>2, <1>3, <1>4, HandleDataKept, KeptFollowed, Zenon

LEMMA IngestFrameFollowed ==
  ASSUME SInv, NEW c \in Conns, IngestFrame(c)
  PROVE  \A d \in Conns : Followed(d)
<1> DEFINE s == conn[c]
           f == Head(s.todo)
           t == ParseFrame(s, f)
           w == IF Deaf(t) THEN <<>> ELSE Tail(t.todo)
           r == [t EXCEPT !.todo = w]
<1>1. s.run = "ingest" /\ s.todo # <<>> /\ Commit(c, r) /\ UNCHANGED inbox
  BY Zenon DEF IngestFrame
<1>2. Session(s)
  BY <1>1, DeliverySession
<1> HIDE DEF s
<1>3. f \in FrameKinds
  <2>1. s.todo \in Seq(FrameKinds)
    BY <1>2, SessionFields DEF ConnRec
  <2> QED
    BY <1>1, <2>1
<1> HIDE DEF f
<1>4. t \in ConnRec
  BY <1>1, <1>2, <1>3, ParseFrameTidies, Zenon
<1> HIDE DEF t
<1>5. t.todo \in Seq(FrameKinds)
  BY <1>4 DEF ConnRec
<1>6. w \in Seq(FrameKinds) \/ (t.todo = <<>> /\ ~Deaf(t))
  BY <1>5
<1>7. t.todo = s.todo
  BY <1>2, <1>3, SessionFields, ParseFrameTodo DEF t
<1>8. w \in Seq(FrameKinds)
  BY <1>1, <1>6, <1>7
<1> HIDE DEF w
<1>9. Kept(s, r)
  BY <1>1, <1>2, <1>3, <1>8, IngestFrameKept, Zenon DEF t
<1> HIDE DEF r
<1> QED
  BY <1>1, <1>2, <1>9, KeptFollowed, Zenon DEF s

LEMMA IngestEndFollowed ==
  ASSUME SInv, NEW c \in Conns, IngestEnd(c)
  PROVE  \A d \in Conns : Followed(d)
<1>1. conn[c].run = "ingest" /\ UNCHANGED inbox
  BY DEF IngestEnd
<1>2. Session(conn[c])
  BY <1>1, DeliverySession
<1>3. PICK e \in SendResults(conn[c]) : Commit(c, IngestDone(conn[c], e))
  BY Zenon DEF IngestEnd
<1>4. e \in Results
  BY SendResultsKnown
<1> QED
  BY <1>1, <1>2, <1>3, <1>4, IngestDoneKept, KeptFollowed, Zenon

LEMMA HandleSendReadyFollowed ==
  ASSUME SInv, NEW c \in Conns, HandleSendReady(c)
  PROVE  \A d \in Conns : Followed(d)
<1>1. conn[c].userData /\ conn[c].run = "idle" /\ UNCHANGED inbox
  BY DEF HandleSendReady, Ready
<1>2. Session(conn[c])
  BY <1>1, ReadySession
<1>3. PICK e \in SendResults(conn[c]) : Commit(c, SendReady(conn[c], e))
  BY Zenon DEF HandleSendReady
<1>4. e \in Results
  BY SendResultsKnown
<1> QED
  BY <1>1, <1>2, <1>3, <1>4, SendReadyKept, KeptFollowed, Zenon

LEMMA HandleClosedFollowed ==
  ASSUME SInv, NEW c \in Conns, HandleClosed(c)
  PROVE  \A d \in Conns : Followed(d)
<1>1. conn[c].userData /\ conn[c].run = "idle" /\ UNCHANGED inbox
      /\ Commit(c, ReleaseConn([conn[c] EXCEPT !.userData = FALSE,
                                               !.dropping = TRUE,
                                               !.tport = "dead"]))
  BY DEF HandleClosed, Ready
<1>2. Session(conn[c])
  BY <1>1, ReadySession
<1> QED
  BY <1>1, <1>2, HandleClosedKept, KeptFollowed, Zenon

(* A call from a handler.                                                  *)
LEMMA CallSession ==
  ASSUME SInv, NEW c \in Conns, Calling(c)
  PROVE  Session(conn[c]) /\ conn[c].run # "idle"
<1>1. conn[c].run \in {"ingest", "onopen", "onmessage", "onpost"}
  BY DEF Calling, InHandler
<1> QED
  BY <1>1, DeliverySession

LEMMA SendDataFollowed ==
  ASSUME SInv, NEW c \in Conns, SendData(c)
  PROVE  \A d \in Conns : Followed(d)
<1> DEFINE s == conn[c]
           z == CallOf(s)
<1>1. Calling(c) /\ UNCHANGED inbox /\ z.state = "open"
  BY Zenon DEF SendData, CallOf
<1>2. PICK e \in SendResults(z) :
        \/ Commit(c, QueuedSend(z, e))
        \/ DirectHeader(z) /\ Commit(c, DirectSend(z, e))
  BY Zenon DEF SendData, CallOf
<1>3. e \in Results
  BY SendResultsKnown
<1>4. Session(s) /\ s.run # "idle"
  BY <1>1, CallSession
<1> HIDE DEF s
<1>5. Minded(s, z)
  BY <1>4, SessionFields, CallFields
<1>6. s.state = "open"
  BY <1>1, <1>5 DEF Minded
<1>7. CASE Commit(c, QueuedSend(z, e))
  <2>1. Kept(s, QueuedSend(z, e))
    BY <1>3, <1>4, <1>6, QueuedSendKept
  <2> QED
    BY <1>1, <1>4, <1>7, <2>1, KeptFollowed, Zenon DEF s
<1>8. CASE DirectHeader(z) /\ Commit(c, DirectSend(z, e))
  <2>1. Kept(s, DirectSend(z, e))
    BY <1>3, <1>4, <1>6, <1>8, DirectSendKept
  <2> QED
    BY <1>1, <1>4, <1>8, <2>1, KeptFollowed, Zenon DEF s
<1> QED
  BY <1>2, <1>7, <1>8

LEMMA CloseFollowed ==
  ASSUME SInv, NEW c \in Conns, Close(c)
  PROVE  \A d \in Conns : Followed(d)
<1> DEFINE s == conn[c]
           z == CallOf(s)
<1>1. Calling(c) /\ UNCHANGED inbox /\ z.state = "open"
  BY Zenon DEF Close, CallOf
<1>2. PICK e \in SendResults(z) : Commit(c, CloseCall(z, e))
  BY Zenon DEF Close, CallOf
<1>3. e \in Results
  BY SendResultsKnown
<1>4. Session(s) /\ s.run # "idle"
  BY <1>1, CallSession
<1> HIDE DEF s
<1>5. Minded(s, z)
  BY <1>4, SessionFields, CallFields
<1>6. s.state = "open"
  BY <1>1, <1>5 DEF Minded
<1>7. Kept(s, CloseCall(z, e))
  BY <1>3, <1>4, <1>6, CloseCallKept
<1> QED
  BY <1>1, <1>2, <1>4, <1>7, KeptFollowed, Zenon DEF s

LEMMA HandlerReturnsFollowed ==
  ASSUME SInv, NEW c \in Conns, HandlerReturns(c)
  PROVE  \A d \in Conns : Followed(d)
<1> DEFINE s == conn[c]
<1>1. s.run \in {"onopen", "onmessage", "onpost"} /\ UNCHANGED inbox
  BY DEF HandlerReturns, InHandler
<1>2. Session(s)
  BY <1>1, DeliverySession
<1>3. PICK e \in SendResults(s) :
        Commit(c, CASE s.run = "onmessage" -> [s EXCEPT !.run = "ingest"]
                    [] s.run = "onopen" -> AfterOpen(s, e)
                    [] s.run = "onpost" -> Settled(s, e))
  BY Zenon DEF HandlerReturns
<1>4. e \in Results
  BY SendResultsKnown
<1>5. CASE s.run = "onmessage"
  <2>1. Commit(c, [s EXCEPT !.run = "ingest"])
    BY <1>3, <1>5
  <2> QED
    BY <1>1, <1>2, <1>5, <2>1, MessageReturnsKept, KeptFollowed, Zenon
<1>6. CASE s.run = "onopen"
  <2>1. Commit(c, AfterOpen(s, e))
    BY <1>3, <1>6
  <2> QED
    BY <1>1, <1>2, <1>4, <1>6, <2>1, AfterOpenKept, KeptFollowed, Zenon
<1>7. CASE s.run = "onpost"
  <2>1. Commit(c, Settled(s, e))
    BY <1>3, <1>7
  <2> QED
    BY <1>1, <1>2, <1>4, <1>7, <2>1, PostReturnsKept, KeptFollowed, Zenon
<1> QED
  BY <1>1, <1>5, <1>6, <1>7

LEMMA HandlerRaisesFollowed ==
  ASSUME SInv, NEW c \in Conns, HandlerRaises(c)
  PROVE  \A d \in Conns : Followed(d)
<1> DEFINE s == [HandlerRaised(conn[c]) EXCEPT !.todo = <<>>]
<1>1. conn[c].run \in {"ingest", "onopen", "onmessage", "onpost"}
      /\ UNCHANGED inbox
  BY DEF HandlerRaises, InHandler
<1>2. Session(conn[c]) /\ conn[c].run # "idle"
  BY <1>1, DeliverySession
<1>3. PICK e \in SendResults(s) : Commit(c, Settled(s, e))
  BY Zenon DEF HandlerRaises
<1>4. e \in Results
  BY SendResultsKnown
<1>5. Kept(conn[c], Settled(s, e))
  BY <1>2, <1>4, RaisedKept, Zenon
<1> QED
  BY <1>1, <1>2, <1>3, <1>5, KeptFollowed, Zenon

(* The object of a released session is freed; what it said stays said.     *)
LEMMA CloseReturnsFollowed ==
  ASSUME SInv, NEW c \in Conns, CloseReturns(c)
  PROVE  \A d \in Conns : Followed(d)
<1> DEFINE s == conn[c]
           t == Freed(s)
<1>1. s.run = "onclose" /\ Commit(c, t) /\ UNCHANGED inbox
  BY DEF CloseReturns
<1>2. /\ s \in ConnRec /\ s.life = "live" /\ s.dropping
      /\ Disciplined(All(s))
  <2>1. s \in Good /\ s.life = "live" /\ s.dropping
    BY <1>1, RunningLive, GoodFields DEF SInv, RInv, Lawful
  <2>2. Disciplined(All(s))
    BY DEF SInv, Sound
  <2> QED
    BY <2>1, <2>2, GoodFields
<1>3. /\ conn'[c] = t
      /\ \A d \in Conns : d # c => conn'[d] = conn[d] /\ inbox'[d] = inbox[d]
  <2>1. conn \in [Conns -> ConnRec] /\ conn' = [conn EXCEPT ![c] = t]
    BY <1>1, SInvTypes, Zenon DEF Commit
  <2> HIDE DEF s, t
  <2> QED
    BY <1>1, <2>1
<1> HIDE DEF s
<1>4. /\ t \in ConnRec /\ t.dropping /\ t.wire = s.wire /\ t.life = "freed"
      /\ t.out = <<>> /\ t.deadline = 0 /\ t.state = "handshake"
  BY <1>2, FreedDoes
<1> HIDE DEF t
<1>5. Sound(t)
  <2>1. s.wire \in Seq(Item) /\ s.out \in Seq(Item)
    BY <1>2, AllTyped
  <2>2. Disciplined(s.wire)
    BY <1>2, <2>1, DisciplinedPrefix DEF All
  <2>3. s.wire \o <<>> = s.wire
    BY <2>1
  <2>4. Disciplined(All(t))
    BY <1>4, <2>2, <2>3 DEF All
  <2>5. ~OverCap(t)
    BY <1>4 DEF OverCap, ServerAssumption
  <2> QED
    BY <1>4, <2>4, <2>5 DEF Sound
<1>6. Waits(s, t) /\ Asks(s, t) /\ Drains(s, t)
  <2>1. s.deadline \in Nat
    BY <1>2 DEF ConnRec
  <2> QED
    BY <1>2, <1>4, <2>1 DEF Waits, Asks, Drains
<1>7. Followed(c)
  BY <1>3, <1>4, <1>5, <1>6 DEF Followed, s
<1> QED
  BY <1>3, <1>7, OthersFollow

(* A connection is admitted, or turned away.                               *)
LEMMA AcceptedSound ==
  LET t == ArmDeadline([NoConn EXCEPT !.life = "live", !.tport = "open",
                                      !.userData = TRUE], HandshakeTimeout)
  IN Sound(t) /\ ~t.dropping /\ ~t.sweepPosted /\ t.state = "handshake"
<1> DEFINE n == NoConn
           o == [n EXCEPT !.life = "live", !.tport = "open", !.userData = TRUE]
           t == ArmDeadline(o, HandshakeTimeout)
<1>1. /\ n \in ConnRec /\ n.run = "idle" /\ n.state = "handshake"
      /\ n.wire = <<>> /\ n.out = <<>> /\ n.sent = 0
      /\ ~n.dropPending /\ ~n.failed /\ ~n.faulted /\ ~n.closeSent
      /\ ~n.dropDeferred /\ ~n.dropping /\ ~n.sweepPosted
  BY NoConnTyped DEF NoConn
<1> HIDE DEF n
<1>2. /\ o \in ConnRec /\ o.life = "live" /\ o.run = n.run
      /\ o.state = n.state /\ o.wire = n.wire /\ o.out = n.out
      /\ o.sent = n.sent /\ o.dropPending = n.dropPending
      /\ o.failed = n.failed /\ o.faulted = n.faulted
      /\ o.closeSent = n.closeSent /\ o.dropDeferred = n.dropDeferred
      /\ o.dropping = n.dropping /\ o.sweepPosted = n.sweepPosted
  BY <1>1 DEF ConnRec
<1> HIDE DEF o
<1>3. HandshakeTimeout \in Nat
  BY DEF ServerAssumption
<1>4. /\ t \in ConnRec /\ Seated(o, t) /\ Minded(o, t) /\ Quiet(o, t)
      /\ Scheduled(t)
  BY <1>2, <1>3, ArmDeadlineDoes
<1> HIDE DEF t
<1>5. /\ t.life = "live" /\ t.run = "idle" /\ t.state = "handshake"
      /\ t.wire = <<>> /\ t.out = <<>> /\ t.sent = 0
      /\ ~t.dropPending /\ ~t.failed /\ ~t.faulted /\ ~t.closeSent
      /\ ~t.dropDeferred /\ ~t.dropping /\ ~t.sweepPosted
  BY <1>1, <1>2, <1>4 DEF Seated, Minded, Quiet
<1>6. <<>> \o <<>> = <<>>
  OBVIOUS
<1>7. All(t) = <<>>
  BY <1>5, <1>6 DEF All
<1>8. Disciplined(All(t))
  BY <1>7 DEF Disciplined
<1>9. Tidy(t)
  BY <1>4, <1>5, <1>7, <1>8 DEF Tidy, Spoken, Flagged, Asked
<1>10. ~OverCap(t)
  BY <1>5 DEF OverCap, ServerAssumption
<1>11. Rested(t)
  BY <1>5, <1>10 DEF Rested, Settles
<1>12. Sound(t)
  BY <1>5, <1>8, <1>9, <1>10, <1>11 DEF Sound
<1> QED
  BY <1>5, <1>12 DEF t, o, n

LEMMA TurnedAway ==
  \A s \in ConnRec : LET t == [s EXCEPT !.tport = "closed"] IN
    s.life = "none" /\ Sound(s) =>
      /\ Sound(t) /\ t.state = s.state /\ t.dropping = s.dropping
      /\ t.sweepPosted = s.sweepPosted
<1> TAKE s \in ConnRec
<1> DEFINE t == [s EXCEPT !.tport = "closed"]
<1> SUFFICES ASSUME s.life = "none", Sound(s)
             PROVE  /\ Sound(t) /\ t.state = s.state /\ t.dropping = s.dropping
                    /\ t.sweepPosted = s.sweepPosted
  OBVIOUS
<1>1. /\ t.life = s.life /\ t.run = s.run /\ t.wire = s.wire /\ t.out = s.out
      /\ t.dropPending = s.dropPending /\ t.state = s.state
      /\ t.dropping = s.dropping /\ t.sweepPosted = s.sweepPosted
  BY DEF ConnRec
<1> HIDE DEF t
<1>2. Sound(t)
  BY <1>1 DEF Sound, All, OverCap
<1> QED
  BY <1>1, <1>2

LEMMA AcceptFollowed ==
  ASSUME SInv, NEW c \in Conns, Accept(c)
  PROVE  \A d \in Conns : Followed(d)
<1> DEFINE s == conn[c]
           t == IF Full THEN [s EXCEPT !.tport = "closed"]
                ELSE ArmDeadline([NoConn EXCEPT !.life = "live",
                       !.tport = "open", !.userData = TRUE], HandshakeTimeout)
<1>1. /\ s \in ConnRec /\ s.life = "none" /\ Sound(s) /\ Counted(c)
      /\ ~s.dropping /\ UNCHANGED inbox
  BY SInvTypes DEF Accept, SInv, RInv, IInv, SessionsLawful, Untouched
<1>2. conn \in [Conns -> ConnRec] /\ conn' = [conn EXCEPT ![c] = t]
  <2>1. CASE Full
    BY <2>1, SInvTypes, Zenon DEF Accept
  <2>2. CASE ~Full
    BY <2>2, SInvTypes, Zenon DEF Accept
  <2> QED
    BY <2>1, <2>2
<1>3. ~s.sweepPosted
  BY <1>1 DEF Sound
<1>4. /\ Sound(t) /\ ~t.dropping /\ ~t.sweepPosted
      /\ t.state \in {s.state, "handshake"}
  <2> HIDE DEF s
  <2>1. CASE Full
    <3>1. t = [s EXCEPT !.tport = "closed"]
      BY <2>1
    <3> QED
      BY <1>1, <1>3, <3>1, TurnedAway
  <2>2. CASE ~Full
    <3>1. t = ArmDeadline([NoConn EXCEPT !.life = "live", !.tport = "open",
                                         !.userData = TRUE], HandshakeTimeout)
      BY <2>2
    <3> QED
      BY <3>1, AcceptedSound
  <2> QED
    BY <2>1, <2>2
<1> HIDE DEF t
<1>5. /\ conn'[c] = t
      /\ \A d \in Conns : d # c => conn'[d] = conn[d] /\ inbox'[d] = inbox[d]
  BY <1>1, <1>2
<1>6. OneCheck(inbox'[c], t.sweepPosted)
  <2>1. OneCheck(inbox[c], s.sweepPosted)
    BY <1>1 DEF Counted
  <2>2. s.sweepPosted = FALSE /\ t.sweepPosted = FALSE
    <3>1. s.sweepPosted \in BOOLEAN
      BY <1>1 DEF ConnRec
    <3>2. t \in ConnRec
      BY <1>2, <1>5, AcceptTyped DEF SInv, RInv, IInv, TypeOK
    <3>3. t.sweepPosted \in BOOLEAN
      BY <3>2 DEF ConnRec
    <3> QED
      BY <1>3, <1>4, <3>1, <3>3
  <2> QED
    BY <1>1, <2>1, <2>2
<1>7. Asks(s, t) /\ Drains(s, t)
  BY <1>4 DEF Asks, Drains
<1>8. Followed(c)
  BY <1>1, <1>4, <1>5, <1>6, <1>7 DEF Followed
<1> QED
  BY <1>5, <1>8, OthersFollow

(* An envelope is delivered.                                               *)
LEMMA DeliverPostFollowed ==
  ASSUME SInv, NEW c \in Conns, DeliverPost(c)
  PROVE  \A d \in Conns : Followed(d)
<1> DEFINE s == conn[c]
           q == inbox[c]
<1>1. /\ s \in ConnRec /\ s.deadline \in Nat /\ Sound(s) /\ Counted(c)
      /\ conn \in [Conns -> ConnRec]
      /\ inbox \in [Conns -> Seq({"check", "proc"})]
      /\ q \in Seq({"check", "proc"}) /\ q # <<>> /\ s.run = "idle"
      /\ s.sweepPosted \in BOOLEAN
  <2>1. s \in ConnRec
    BY SInvTypes
  <2>2. s.sweepPosted \in BOOLEAN
    BY <2>1 DEF ConnRec
  <2> QED
    BY <2>2, SInvTypes DEF DeliverPost
<1>2. inbox' = [inbox EXCEPT ![c] = Tail(q)]
  BY Zenon DEF DeliverPost
<1>3. inbox'[c] = Tail(q) /\ \A d \in Conns : d # c => inbox'[d] = inbox[d]
  BY <1>1, <1>2
<1>4. /\ OneCheck(q, s.sweepPosted) /\ Head(q) = "check" =>
           OneCheck(Tail(q), FALSE)
      /\ OneCheck(q, s.sweepPosted) /\ Head(q) # "check" =>
           OneCheck(Tail(q), s.sweepPosted)
  <2> HIDE DEF q, s
  <2> QED
    BY <1>1, ChecksTail
<1>5. CASE ~s.userData
  <2>1. UNCHANGED conn
    BY <1>5 DEF DeliverPost
  <2>2. ~s.dropping => s.life = "none"
    <3>1. s.life = "none" \/ Lawful(s)
      BY DEF SInv, RInv, IInv, SessionsLawful
    <3>2. s.life \in {"none", "live", "freed"}
      BY <1>1 DEF ConnRec
    <3> QED
      BY <1>5, <3>1, <3>2 DEF Lawful
  <2>3. ~s.dropping => OneCheck(Tail(q), s.sweepPosted)
    <3> SUFFICES ASSUME ~s.dropping PROVE OneCheck(Tail(q), s.sweepPosted)
      OBVIOUS
    <3>1. ~s.sweepPosted /\ OneCheck(q, s.sweepPosted)
      BY <1>1, <2>2 DEF Sound, Counted
    <3>2. s.sweepPosted = FALSE
      BY <1>1, <3>1
    <3>3. Head(q) # "check"
      <4>1. Len(q) >= 1 /\ q[1] = Head(q)
        BY <1>1
      <4>2. ChecksIn(q) = {}
        BY <3>1, <3>2 DEF OneCheck
      <4> QED
        BY <1>1, <4>1, <4>2 DEF ChecksIn
    <3> QED
      BY <1>4, <3>1, <3>3
  <2>4. Waits(s, s) /\ Asks(s, s) /\ Drains(s, s)
    <3> HIDE DEF s
    <3>1. Waits(s, s)
      BY <1>1, WaitsSame
    <3> QED
      BY <3>1 DEF Asks, Drains
  <2>5. Followed(c)
    BY <1>1, <1>3, <2>1, <2>3, <2>4 DEF Followed
  <2> QED
    BY <1>3, <2>1, <2>5, OthersFollow
<1>6. ASSUME s.userData,
             NEW t, Commit(c, t), Sure(s, t),
             ~t.dropping => OneCheck(Tail(q), t.sweepPosted)
      PROVE  \A d \in Conns : Followed(d)
  <2>1. conn' = [conn EXCEPT ![c] = t]
    BY <1>6 DEF Commit
  <2>2. conn'[c] = t /\ \A d \in Conns : d # c => conn'[d] = conn[d]
    BY <1>1, <2>1
  <2>3. Followed(c)
    BY <1>3, <1>6, <2>2 DEF Followed, Sure
  <2> QED
    BY <1>3, <2>2, <2>3, OthersFollow
<1>7. CASE s.userData
  <2>1. Session(s) /\ ~s.dropping
    BY <1>1, <1>7, ReadySession DEF Session
  <2>2. OneCheck(q, s.sweepPosted)
    BY <1>1, <2>1 DEF Counted
  <2>3. CASE Head(q) = "check"
    <3>1. PICK e \in SendResults(s) : Commit(c, ClockChecked(s, e))
      BY <1>7, <2>3, Zenon DEF DeliverPost
    <3> DEFINE t == ClockChecked(s, e)
    <3>2. e \in Results
      BY SendResultsKnown
    <3>3. Sure(s, t) /\ (~t.dropping => ~t.sweepPosted)
      BY <1>1, <2>1, <3>2, ClockCheckedKept, Zenon
    <3>4. Commit(c, t)
      BY <3>1
    <3> HIDE DEF t
    <3>5. t.sweepPosted \in BOOLEAN
      BY <3>3 DEF Sure, ConnRec
    <3>6. ~t.dropping => OneCheck(Tail(q), t.sweepPosted)
      <4>1. OneCheck(Tail(q), FALSE)
        BY <1>4, <2>2, <2>3
      <4> QED
        BY <3>3, <3>5, <4>1
    <3> QED
      BY <1>6, <1>7, <3>3, <3>4, <3>6
  <2>4. CASE Head(q) # "check"
    <3> DEFINE t == [s EXCEPT !.inDelivery = TRUE, !.run = "onpost"]
    <3>1. Commit(c, t)
      BY <1>7, <2>4, Zenon DEF DeliverPost
    <3>2. Kept(s, t)
      BY <1>1, <2>1, ProcKept, Zenon
    <3> HIDE DEF t
    <3>3. ~t.dropping => OneCheck(Tail(q), t.sweepPosted)
      BY <1>4, <2>2, <2>4, <3>2 DEF Kept
    <3> QED
      BY <1>6, <1>7, <3>1, <3>2, <3>3 DEF Kept
  <2> QED
    BY <2>3, <2>4
<1> QED
  BY <1>5, <1>7

(* A thread's proc reaches the mailbox.                                    *)
LEMMA PostSubmitFollowed ==
  ASSUME SInv, NEW t \in Threads, PostSubmit(t)
  PROVE  \A d \in Conns : Followed(d)
<1> DEFINE c == poster[t]
<1>1. /\ c \in Conns /\ UNCHANGED conn
      /\ inbox' = [inbox EXCEPT ![c] = IF up THEN Append(inbox[c], "proc")
                                       ELSE inbox[c]]
  BY Zenon DEF PostSubmit, SubmitPost, SInv, RInv, IInv, TypeOK
<1>2. inbox \in [Conns -> Seq({"check", "proc"})]
  BY SInvTypes
<1> HIDE DEF c
<1>3. \A d \in Conns : inbox'[d] = inbox[d]
                       \/ inbox'[d] = Append(inbox[d], "proc")
  BY <1>1, <1>2
<1> TAKE d \in Conns
<1>4. conn[d].sweepPosted \in BOOLEAN /\ inbox[d] \in Seq({"check", "proc"})
  <2>1. conn[d] \in ConnRec
    BY SInvTypes
  <2> QED
    BY <1>2, <2>1 DEF ConnRec
<1>5. OneCheck(inbox[d], conn[d].sweepPosted)
        => OneCheck(inbox'[d], conn[d].sweepPosted)
  BY <1>3, <1>4, ChecksAppend
<1> QED
  BY <1>1, <1>5, Untroubled

(* Exactly the sessions not being torn down are in the registry.           *)
LEMMA RegisteredLive ==
  ASSUME SInv
  PROVE  \A c \in Conns :
           Registered(c) <=> conn[c].life = "live" /\ ~conn[c].dropping
<1> TAKE c \in Conns
<1>1. Registered(c) => slot[c] # 0
  BY DEF Registered, SInv, RInv, IInv, TypeOK
<1> QED
  BY <1>1 DEF SInv, RInv, IInv, RegistryExact

LEMMA PostedSound ==
  \A s \in ConnRec : LET t == [s EXCEPT !.sweepPosted = TRUE] IN
    Sound(s) /\ s.life = "live" /\ ~s.dropping =>
      Sound(t) /\ t.sweepPosted = TRUE /\ t.state = s.state
      /\ t.dropping = s.dropping /\ t.deadline = s.deadline
<1> TAKE s \in ConnRec
<1> DEFINE t == [s EXCEPT !.sweepPosted = TRUE]
<1> SUFFICES ASSUME Sound(s), s.life = "live", ~s.dropping
             PROVE  Sound(t) /\ t.sweepPosted = TRUE /\ t.state = s.state
                    /\ t.dropping = s.dropping /\ t.deadline = s.deadline
  OBVIOUS
<1>1. /\ t.life = s.life /\ t.run = s.run /\ t.wire = s.wire /\ t.out = s.out
      /\ t.dropPending = s.dropPending /\ t.state = s.state
      /\ t.dropping = s.dropping /\ t.deadline = s.deadline
      /\ t.dropDeferred = s.dropDeferred /\ t.failed = s.failed
      /\ t.faulted = s.faulted /\ t.owed = s.owed /\ t.sweepPosted = TRUE
  BY DEF ConnRec
<1>2. Matched(s, t)
  BY DEF ConnRec, Matched, Clocked, All
<1> HIDE DEF t
<1>3. Tidy(s) /\ Rested(s)
  BY DEF Sound
<1>4. Tidy(t)
  BY <1>2, <1>3, TidyMatched
<1>5. Rested(t)
  BY <1>1, <1>3 DEF Rested, Settles, OverCap
<1>6. Sound(t)
  BY <1>1, <1>4, <1>5 DEF Sound, All, OverCap
<1> QED
  BY <1>1, <1>6

(* The sweeper posts checks to sessions that have none on their way.       *)
LEMMA PostChecksFollowed ==
  ASSUME SInv, NEW cs, \A c \in cs \intersect Conns : Unswept(c),
         PostChecks(cs)
  PROVE  \A d \in Conns : Followed(d)
<1> TAKE d \in Conns
<1> DEFINE s == conn[d]
           t == [s EXCEPT !.sweepPosted = TRUE]
           q == inbox[d]
<1>1. /\ s \in ConnRec /\ s.deadline \in Nat /\ Sound(s) /\ Counted(d)
      /\ q \in Seq({"check", "proc"})
  BY SInvTypes
<1>2. CASE d \in cs
  <2>1. conn'[d] = t /\ inbox'[d] = Append(q, "check")
    BY <1>2, Zenon DEF PostChecks
  <2>2. s.life = "live" /\ ~s.dropping /\ ~s.sweepPosted
    BY <1>2, RegisteredLive DEF Unswept
  <2>3. OneCheck(q, FALSE)
    <3>1. s.sweepPosted = FALSE
      BY <1>1, <2>2 DEF ConnRec
    <3> QED
      BY <1>1, <2>2, <3>1 DEF Counted
  <2> HIDE DEF q, s
  <2>4. OneCheck(Append(q, "check"), TRUE)
    BY <1>1, <2>3, ChecksAppend
  <2>5. /\ Sound(t) /\ t.sweepPosted = TRUE /\ t.state = s.state
        /\ t.dropping = s.dropping /\ t.deadline = s.deadline
    BY <1>1, <2>2, PostedSound
  <2> HIDE DEF t
  <2>6. Waits(s, t) /\ Asks(s, t) /\ Drains(s, t)
    <3>1. Waits(s, t)
      BY <1>1, <2>5, WaitsSame
    <3> QED
      BY <2>2, <2>5, <3>1 DEF Asks, Drains
  <2> QED
    BY <2>1, <2>4, <2>5, <2>6 DEF Followed, s
<1>3. CASE d \notin cs
  <2>1. conn'[d] = s /\ inbox'[d] = q
    BY <1>3, Zenon DEF PostChecks
  <2> QED
    BY <2>1, Untroubled
<1> QED
  BY <1>2, <1>3

LEMMA SweepStaleFollowed ==
  ASSUME SInv, NEW c \in Conns, SweepStale(c)
  PROVE  \A d \in Conns : Followed(d)
<1>1. Unswept(c) /\ PostChecks({c})
  BY DEF SweepStale
<1> QED
  BY <1>1, PostChecksFollowed, Zenon

LEMMA SweepClocksFollowed ==
  ASSUME SInv, SweepClocks PROVE \A d \in Conns : Followed(d)
<1> DEFINE due == {c \in Conns : Unswept(c) /\ Due(c)}
<1>1. PostChecks(due) /\ \A c \in due \intersect Conns : Unswept(c)
  BY Zenon DEF SweepClocks
<1> HIDE DEF due
<1> QED
  BY <1>1, PostChecksFollowed

-----------------------------------------------------------------------------
(* Time passes.                                                            *)

LEMMA TickClocks ==
  \A k, m \in Nat :
    /\ TickDown(k) \in Nat /\ TickDown(k) <= k
    /\ TickDown(k) = 0 <=> k = 0
    /\ k <= m => TickDown(k) <= TickDown(m)
    /\ TickDown(k) >= k - 1
    /\ TickUp(k) \in Nat /\ TickUp(k) >= k
    /\ k >= 1 => TickUp(k) = k + 1 \/ k > IdleTimeout
  BY DEF TickDown, TickUp, ServerAssumption

(* FSweepAt stays what Reschedule would compute.                           *)
LEMMA TickNext ==
  \A d, p \in Nat :
    TickDown(IF d = 0 \/ (p # 0 /\ p < d) THEN p ELSE d)
      = IF TickDown(d) = 0 \/ (TickDown(p) # 0 /\ TickDown(p) < TickDown(d))
          THEN TickDown(p) ELSE TickDown(d)
  BY DEF TickDown

(* The record after one tick.                                              *)
Ticked(s, t) ==
  /\ Seated(s, t) /\ Minded(s, t) /\ Quiet(s, t)
  /\ t.deadline = TickDown(s.deadline) /\ t.pingDue = TickDown(s.pingDue)
  /\ t.sweepAt = TickDown(s.sweepAt) /\ t.asked = TickUp(s.asked)

(* The peer's time to answer is not shortened by its passing.              *)
LEMMA TickAsking ==
  \A s \in ConnRec : \A t :
    Ticked(s, t) /\ PingsFirst /\ Asking(s) => Asking(t)
<1> TAKE s \in ConnRec
<1> TAKE t
<1> SUFFICES ASSUME Ticked(s, t), PingsFirst, Asking(s) PROVE Asking(t)
  OBVIOUS
<1> DEFINE d == s.deadline
           p == s.pingDue
           a == s.asked
<1>1. d \in Nat /\ p \in Nat /\ a \in Nat
  BY DEF ConnRec
<1>2. t.deadline = TickDown(d) /\ t.pingDue = TickDown(p)
      /\ t.asked = TickUp(a)
  BY DEF Ticked
<1>3. /\ d # 0 /\ (p # 0 => p <= d)
      /\ p = 0 => /\ a >= 1
                  /\ d + a > AnswerBy \/ a > IdleTimeout - PingInterval
  BY DEF Asking
<1> HIDE DEF d, p, a
<1>4. TickDown(d) # 0 /\ (TickDown(p) = 0 <=> p = 0)
  BY <1>1, <1>3, TickClocks
<1>5. CASE p # 0
  <2>1. TickDown(p) <= TickDown(d)
    BY <1>1, <1>3, <1>5, TickClocks
  <2> QED
    BY <1>2, <1>4, <1>5, <2>1 DEF Asking
<1>6. CASE p = 0
  <2>1. /\ TickDown(d) \in Nat /\ TickDown(d) >= d - 1
        /\ TickUp(a) \in Nat /\ TickUp(a) >= a
        /\ TickUp(a) = a + 1 \/ a > IdleTimeout
    BY <1>1, <1>3, <1>6, TickClocks
  <2>2. IdleTimeout \in Nat /\ PingInterval \in Nat /\ AnswerBy \in Nat
        /\ 0 < PingInterval
    BY ArmedTyped DEF ServerAssumption, PingsFirst, AnswerBy
  <2>3. \A x, y, z \in Nat :
          /\ x >= d - 1 /\ y >= a /\ (y = a + 1 \/ a > IdleTimeout)
          /\ d + a > z \/ a > IdleTimeout - PingInterval
          => x + y > z \/ y > IdleTimeout - PingInterval
    BY <1>1, <2>2
  <2>4. \/ TickDown(d) + TickUp(a) > AnswerBy
        \/ TickUp(a) > IdleTimeout - PingInterval
    BY <1>3, <1>6, <2>1, <2>2, <2>3
  <2>5. TickUp(a) >= 1
    BY <1>1, <1>3, <1>6, <2>1
  <2> QED
    BY <1>2, <1>4, <1>6, <2>4, <2>5 DEF Asking
<1> QED
  BY <1>5, <1>6

LEMMA TickSound ==
  \A s \in ConnRec : \A t : Ticked(s, t) /\ Sound(s) => Sound(t)
<1> TAKE s \in ConnRec
<1> TAKE t
<1> SUFFICES ASSUME Ticked(s, t), Sound(s) PROVE Sound(t)
  OBVIOUS
<1>1. /\ s.deadline \in Nat /\ s.pingDue \in Nat
      /\ t.deadline = TickDown(s.deadline)
      /\ t.pingDue = TickDown(s.pingDue) /\ t.sweepAt = TickDown(s.sweepAt)
  BY DEF ConnRec, Ticked
<1>2. /\ Seated(s, t) /\ Minded(s, t) /\ Quiet(s, t) /\ All(t) = All(s)
  BY DEF Ticked, Quiet, All
<1>3. ASSUME Tidy(s) PROVE Tidy(t)
  <2>1. Spoken(t)
    BY <1>2, <1>3 DEF Tidy, Spoken, Minded, Quiet
  <2>2. Flagged(t)
    <3>1. s.pingDue = 0 => t.pingDue = 0
      BY <1>1, TickClocks
    <3> QED
      BY <1>2, <1>3, <3>1 DEF Tidy, Flagged, Minded, Seated, Quiet
  <2>3. Scheduled(t)
    <3>1. s.sweepAt = NextCheck(s)
      BY <1>3 DEF Tidy, Scheduled
    <3>2. TickDown(NextCheck(s)) = NextCheck(t)
      <4> DEFINE d == s.deadline
                 p == s.pingDue
      <4>1. TickDown(IF d = 0 \/ (p # 0 /\ p < d) THEN p ELSE d)
              = IF TickDown(d) = 0 \/ (TickDown(p) # 0 /\ TickDown(p) < TickDown(d))
                  THEN TickDown(p) ELSE TickDown(d)
        BY <1>1, TickNext
      <4>2. t.deadline = TickDown(d) /\ t.pingDue = TickDown(p)
        BY <1>1
      <4> HIDE DEF d, p
      <4>3. NextCheck(s) = IF d = 0 \/ (p # 0 /\ p < d) THEN p ELSE d
        BY Zenon DEF NextCheck, d, p
      <4>4. NextCheck(t) = IF TickDown(d) = 0
                              \/ (TickDown(p) # 0 /\ TickDown(p) < TickDown(d))
                             THEN TickDown(p) ELSE TickDown(d)
        BY <4>2, Zenon DEF NextCheck
      <4> QED
        BY <4>1, <4>3, <4>4, Zenon
    <3> QED
      BY <1>1, <3>1, <3>2 DEF Scheduled
  <2>4. Asked(t)
    BY <1>2, <1>3, TickAsking DEF Tidy, Asked, Minded
  <2> QED
    BY <2>1, <2>2, <2>3, <2>4 DEF Tidy
<1>4. OverCap(t) <=> OverCap(s)
  BY <1>2 DEF OverCap, Minded, Quiet
<1>5. ASSUME Rested(s) PROVE Rested(t)
  BY <1>2, <1>4, <1>5 DEF Rested, Settles, Seated, Minded, Quiet
<1> QED
  BY <1>2, <1>3, <1>4, <1>5 DEF Sound, Seated, Quiet

LEMMA TickFollowed == ASSUME SInv, Tick PROVE \A d \in Conns : Followed(d)
<1> TAKE d \in Conns
<1> DEFINE s == conn[d]
           t == conn'[d]
<1>1. s \in ConnRec /\ s.deadline \in Nat /\ Sound(s) /\ Counted(d)
  BY SInvTypes
<1>2. t = [s EXCEPT !.deadline = TickDown(s.deadline),
                    !.pingDue = TickDown(s.pingDue),
                    !.sweepAt = TickDown(s.sweepAt),
                    !.asked = TickUp(s.asked)]
      /\ inbox' = inbox
  BY Zenon DEF Tick
<1> HIDE DEF s, t
<1>3. Ticked(s, t)
  BY <1>1, <1>2 DEF ConnRec, Ticked, Seated, Minded, Quiet
<1>4. Sound(t)
  BY <1>1, <1>3, TickSound
<1>5. /\ t.deadline <= s.deadline /\ t.state = s.state
      /\ t.dropping = s.dropping /\ t.sweepPosted = s.sweepPosted
  BY <1>1, <1>3, TickClocks DEF Ticked, Seated, Minded
<1>6. Waits(s, t) /\ Asks(s, t) /\ Drains(s, t)
  BY <1>5 DEF Waits, Asks, Drains
<1> QED
  BY <1>1, <1>2, <1>4, <1>5, <1>6 DEF Followed, Counted, s, t

-----------------------------------------------------------------------------
(* TWSServer.Destroy.                                                      *)

LEMMA DetachSound ==
  \A s \in ConnRec : LET t == Detach(s) IN
    Sound(s) /\ s.life = "live" =>
      /\ Sound(t) /\ t.dropping /\ t.state = s.state
      /\ t.deadline = s.deadline
<1> TAKE s \in ConnRec
<1> DEFINE t == Detach(s)
<1> SUFFICES ASSUME Sound(s), s.life = "live"
             PROVE  /\ Sound(t) /\ t.dropping /\ t.state = s.state
                    /\ t.deadline = s.deadline
  OBVIOUS
<1>1. /\ t.life = s.life /\ t.run = s.run /\ t.wire = s.wire /\ t.out = s.out
      /\ t.dropPending = s.dropPending /\ t.state = s.state
      /\ t.deadline = s.deadline /\ t.dropping
  BY DEF ConnRec, Detach
<1> HIDE DEF t
<1>2. Sound(t)
  BY <1>1 DEF Sound, All, OverCap
<1> QED
  BY <1>1, <1>2

LEMMA DestroyFollowed ==
  ASSUME SInv, Destroy PROVE \A d \in Conns : Followed(d)
<1> TAKE d \in Conns
<1> DEFINE s == conn[d]
           t == Detach(s)
<1>1. /\ s \in ConnRec /\ s.deadline \in Nat /\ Sound(s)
  BY SInvTypes
<1>2. conn'[d] = (IF Registered(d) THEN t ELSE s) /\ inbox'[d] = <<>> /\ ~up'
  BY Zenon DEF Destroy
<1>3. CASE Registered(d)
  <2>1. s.life = "live"
    BY <1>3, RegisteredLive
  <2>2. conn'[d] = t
    BY <1>2, <1>3
  <2> HIDE DEF s
  <2>3. Sound(t) /\ t.dropping /\ t.state = s.state /\ t.deadline = s.deadline
    BY <1>1, <2>1, DetachSound
  <2> HIDE DEF t
  <2>4. Waits(s, t) /\ Asks(s, t)
    BY <1>1, <2>3, WaitsSame DEF Asks
  <2> QED
    BY <1>2, <2>2, <2>3, <2>4 DEF Followed, s
<1>4. CASE ~Registered(d)
  <2>1. conn'[d] = s
    BY <1>2, <1>4
  <2>2. ~s.dropping => OneCheck(<<>>, s.sweepPosted)
    <3> SUFFICES ASSUME ~s.dropping PROVE OneCheck(<<>>, s.sweepPosted)
      OBVIOUS
    <3>1. s.life # "live"
      BY <1>4, RegisteredLive
    <3>2. s.life = "none" \/ Lawful(s)
      BY DEF SInv, RInv, IInv, SessionsLawful
    <3>3. s.life = "none"
      BY <1>1, <3>1, <3>2 DEF Lawful, ConnRec
    <3>4. s.sweepPosted = FALSE
      BY <1>1, <3>3 DEF Sound, ConnRec
    <3>5. ChecksIn(<<>>) = {}
      BY DEF ChecksIn
    <3> QED
      BY <3>4, <3>5 DEF OneCheck
  <2>3. Waits(s, s) /\ Asks(s, s)
    <3> HIDE DEF s
    <3> QED
      BY <1>1, WaitsSame DEF Asks
  <2> QED
    BY <1>1, <1>2, <2>1, <2>2, <2>3 DEF Followed
<1> QED
  BY <1>3, <1>4

LEMMA ReleaseNextFollowed ==
  ASSUME SInv, ReleaseNext PROVE \A d \in Conns : Followed(d)
<1> DEFINE h == Head(leaving)
           s == conn[h]
           t == ReleaseConn(s)
<1>1. h \in Conns /\ s.life = "live" /\ s.dropping
  <2>1. leaving \in Seq(Conns) /\ leaving # <<>>
    BY DEF SInv, RInv, IInv, TypeOK, ReleaseNext
  <2>2. h \in Conns /\ h = leaving[1] /\ 1 \in 1 .. Len(leaving)
    BY <2>1
  <2> HIDE DEF h
  <2> QED
    BY <2>2 DEF SInv, RInv, IInv, LeavingExact
<1>2. s \in ConnRec /\ s.deadline \in Nat /\ Sound(s)
  BY <1>1, SInvTypes
<1>3. conn \in [Conns -> ConnRec] /\ conn' = [conn EXCEPT ![h] = t]
      /\ inbox' = inbox
  BY SInvTypes, Zenon DEF ReleaseNext
<1> HIDE DEF h, t
<1>4. /\ conn'[h] = t
      /\ \A d \in Conns : d # h => conn'[d] = conn[d] /\ inbox'[d] = inbox[d]
  BY <1>1, <1>3
<1> HIDE DEF s
<1>5. Dropped(s, t)
  BY <1>1, <1>2, ReleaseConnDrops DEF t
<1>6. t.dropping /\ Sound(t)
  BY <1>1, <1>2, <1>5, DroppedSound DEF Sound
<1>7. Waits(s, t) /\ Asks(s, t) /\ Drains(s, t)
  BY <1>1, <1>2, <1>5 DEF Dropped, Waits, Asks, Drains
<1>8. Followed(h)
  BY <1>1, <1>4, <1>6, <1>7 DEF Followed, s
<1> QED
  BY <1>1, <1>4, <1>8, OthersFollow

-----------------------------------------------------------------------------
(* The invariant is inductive.                                             *)

LEMMA QuietFollowed ==
  ASSUME SInv, UNCHANGED <<conn, inbox>> PROVE \A d \in Conns : Followed(d)
  BY Untroubled

AllFollowed == \A d \in Conns : Followed(d)

LEMMA StepFollowed ==
  ASSUME SInv, [Next]_vars PROVE AllFollowed
<1>1. ASSUME NEW c \in Conns,
             \/ Accept(c) \/ HandshakeData(c) \/ HandleData(c)
             \/ IngestFrame(c) \/ IngestEnd(c) \/ HandleSendReady(c)
             \/ HandleClosed(c)
      PROVE  AllFollowed
  BY <1>1, AcceptFollowed, HandshakeDataFollowed, HandleDataFollowed,
     IngestFrameFollowed, IngestEndFollowed, HandleSendReadyFollowed,
     HandleClosedFollowed, Zenon DEF AllFollowed
<1>2. ASSUME NEW c \in Conns,
             \/ SendData(c) \/ Close(c) \/ HandlerReturns(c)
             \/ HandlerRaises(c) \/ CloseReturns(c)
      PROVE  AllFollowed
  BY <1>2, SendDataFollowed, CloseFollowed, HandlerReturnsFollowed,
     HandlerRaisesFollowed, CloseReturnsFollowed, Zenon DEF AllFollowed
<1>3. ASSUME NEW c \in Conns, DeliverPost(c) \/ SweepStale(c) PROVE AllFollowed
  BY <1>3, DeliverPostFollowed, SweepStaleFollowed, Zenon DEF AllFollowed
<1>4. ASSUME NEW t \in Threads, NEW c \in Conns, PostLookup(t, c) PROVE AllFollowed
  BY <1>4, QuietFollowed DEF PostLookup, AllFollowed
<1>5. ASSUME NEW t \in Threads, PostSubmit(t) PROVE AllFollowed
  BY <1>5, PostSubmitFollowed, Zenon DEF AllFollowed
<1>6. CASE SweepClocks
  BY <1>6, SweepClocksFollowed DEF AllFollowed
<1>7. CASE Tick
  BY <1>7, TickFollowed DEF AllFollowed
<1>8. CASE Destroy
  BY <1>8, DestroyFollowed DEF AllFollowed
<1>9. CASE ReleaseNext
  BY <1>9, ReleaseNextFollowed DEF AllFollowed
<1>10. CASE UNCHANGED vars
  BY <1>10, QuietFollowed DEF vars, AllFollowed
<1> QED
  BY <1>1, <1>2, <1>3, <1>4, <1>5, <1>6, <1>7, <1>8, <1>9, <1>10, Zenon DEF Next

LEMMA InitSound == ASSUME Init, IInv PROVE SInv
<1> DEFINE n == NoConn
<1>1. /\ n.life = "none" /\ n.wire = <<>> /\ n.out = <<>>
      /\ n.sweepPosted = FALSE
  BY DEF NoConn
<1>2. conn = [c \in Conns |-> n] /\ \A c \in Conns : inbox[c] = <<>>
  BY DEF Init
<1> HIDE DEF n
<1>3. Sound(n)
  <2>1. <<>> \o <<>> = <<>>
    OBVIOUS
  <2>2. All(n) = <<>>
    BY <1>1, <2>1 DEF All
  <2>3. Disciplined(All(n))
    BY <2>2 DEF Disciplined
  <2>4. ~OverCap(n)
    BY <1>1 DEF OverCap, ServerAssumption
  <2> QED
    BY <1>1, <2>3, <2>4 DEF Sound
<1>4. \A c \in Conns : Sound(conn[c])
  BY <1>2, <1>3
<1>5. ChecksIn(<<>>) = {}
  BY DEF ChecksIn
<1>6. \A c \in Conns : Counted(c)
  BY <1>1, <1>2, <1>5 DEF Counted, OneCheck
<1> QED
  BY <1>4, <1>6, InitHears DEF SInv, RInv

LEMMA SInvStep == ASSUME SInv, IInv', [Next]_vars PROVE SInv'
<1>1. RInv'
  BY RInvStep DEF SInv
<1>2. \A c \in Conns : Sound(conn'[c]) /\ Counted(c)'
  BY StepFollowed DEF AllFollowed, Followed, Counted
<1> QED
  BY <1>1, <1>2 DEF SInv

(* Every session is sound in every reachable state, and one check of it is *)
(* on its way exactly while it is marked so.                               *)
THEOREM SessionsSound == Spec => []SInv
<1>1. Spec => []IInv
  BY InductiveInvariant
<1>2. Init /\ IInv => SInv
  BY InitSound
<1>3. SInv /\ IInv' /\ [Next]_vars => SInv'
  BY SInvStep
<1> QED
  BY <1>1, <1>2, <1>3, PTL DEF Spec

-----------------------------------------------------------------------------
(* The theorems.                                                           *)

(* What TWSConnection and its machine put on the wire, through the queue   *)
(* or directly: the answer first, nothing after our Close, and the host's  *)
(* messages in its order with none missing.                                *)
THEOREM WireAlwaysDisciplined == Spec => []WireDiscipline
<1>1. SInv => WireDiscipline
  BY DEF SInv, Sound, All, Disciplined, WireDiscipline
<1> QED
  BY <1>1, SessionsSound, PTL

(* Whatever is sent and however little the socket takes, no connection at  *)
(* rest holds more than MaxPendingOutput, but the last words of a drain.   *)
THEOREM OutputAlwaysBounded == Spec => []OutputBounded
<1>1. SInv => OutputBounded
  <2> SUFFICES ASSUME SInv, NEW c \in Conns, conn[c].run = "idle",
                      MaxPendingOutput > 0, ~conn[c].dropPending
               PROVE  Len(conn[c].out) <= MaxPendingOutput
    BY DEF OutputBounded
  <2> DEFINE s == conn[c]
  <2>1. s \in ConnRec /\ ~OverCap(s)
    BY SInvTypes DEF Sound
  <2>2. Len(s.out) \in Nat
    BY <2>1, AllTyped
  <2> QED
    BY <2>1, <2>2 DEF OverCap, ServerAssumption
<1> QED
  BY <1>1, SessionsSound, PTL

(* No output is forgotten: what a connection at rest still holds has an    *)
(* OnSendReady coming, whichever procedure left it there.                  *)
THEOREM NothingEverStranded == Spec => []NothingStranded
<1>1. SInv => NothingStranded
  <2> SUFFICES ASSUME SInv, NEW c \in Conns, conn[c].run = "idle",
                      conn[c].out # <<>>, ~conn[c].dropping
               PROVE  conn[c].owed
    BY DEF NothingStranded
  <2> DEFINE s == conn[c]
  <2>1. s \in ConnRec /\ Sound(s)
    BY SInvTypes
  <2>2. s.life = "none" \/ Lawful(s)
    BY DEF SInv, RInv, IInv, SessionsLawful
  <2>3. s.life = "live"
    BY <2>1, <2>2 DEF Sound, Lawful, ConnRec
  <2> QED
    BY <2>1, <2>3 DEF Sound, Rested, Settles
<1> QED
  BY <1>1, SessionsSound, PTL

(* The sweeper reads FSweepAt and FSweepPosted only, and they never lie:   *)
(* the first is the earlier clock, the second is set exactly while one     *)
(* check is on its way.                                                    *)
THEOREM ClocksNeverForgotten == Spec => []NoClockForgotten
<1>1. SInv => NoClockForgotten
  <2> SUFFICES ASSUME SInv, NEW c \in Conns, Registered(c)
               PROVE  /\ conn[c].sweepAt = Reschedule(conn[c]).sweepAt
                      /\ Cardinality(Checks(c))
                           = IF conn[c].sweepPosted THEN 1 ELSE 0
    BY DEF NoClockForgotten
  <2> DEFINE s == conn[c]
  <2>1. /\ s \in ConnRec /\ Sound(s) /\ Counted(c)
        /\ s.life = "live" /\ ~s.dropping
    BY SInvTypes, RegisteredLive
  <2>2. s.sweepAt = Reschedule(s).sweepAt
    <3> HIDE DEF s
    <3>1. s.sweepAt = NextCheck(s)
      BY <2>1 DEF Sound, Tidy, Scheduled
    <3> QED
      BY <2>1, <3>1, RescheduleDoes
  <2>3. OneCheck(inbox[c], s.sweepPosted) /\ Checks(c) = ChecksIn(inbox[c])
    BY <2>1 DEF Counted, Checks, ChecksIn
  <2>4. Cardinality(Checks(c)) = IF s.sweepPosted THEN 1 ELSE 0
    <3>1. CASE s.sweepPosted
      <4>1. PICK i : Checks(c) = {i}
        BY <2>3, <3>1 DEF OneCheck
      <4> QED
        BY <3>1, <4>1, FS_Singleton
    <3>2. CASE ~s.sweepPosted
      <4>1. Checks(c) = {}
        BY <2>3, <3>2 DEF OneCheck
      <4> QED
        BY <3>2, <4>1, FS_EmptySet
    <3> QED
      BY <3>1, <3>2
  <2> QED
    BY <2>2, <2>4
<1> QED
  BY <1>1, SessionsSound, PTL

(* No traffic, call, tick or raise puts off the deadline of a handshake, a *)
(* close or a drain that is under way.                                     *)
THEOREM WaitsNeverExtended == Spec => WaitNotExtended
<1>1. SInv /\ [Next]_vars =>
        [\A c \in Conns :
           LET s == conn[c]
               t == conn'[c]
           IN s.life = "live" /\ (s.state # "open" \/ s.dropPending)
                /\ s.state = t.state /\ s.dropPending = t.dropPending
                => t.deadline <= s.deadline]_vars
  BY StepFollowed DEF AllFollowed, Followed, Waits
<1> QED
  BY <1>1, SessionsSound, PTL DEF Spec, WaitNotExtended

(* An idle peer is closed only after it was asked and had its time to      *)
(* answer, however late the sweeper's check ran.                           *)
THEOREM IdlePeersAsked == Spec => AskedBeforeIdleClose
<1>1. SInv /\ [Next]_vars =>
        [\A c \in Conns :
           LET s == conn[c]
           IN s.run = "idle" /\ s.state = "open" /\ ~s.closeSent
                /\ conn'[c].state = "closing"
                => (PingInterval > 0 /\ IdleTimeout > PingInterval
                      => s.asked > IdleTimeout - PingInterval)]_vars
  <2> SUFFICES ASSUME SInv, [Next]_vars, NEW c \in Conns,
                      conn[c].run = "idle", conn[c].state = "open",
                      ~conn[c].closeSent, conn'[c].state = "closing",
                      PingInterval > 0, IdleTimeout > PingInterval
               PROVE  conn[c].asked > IdleTimeout - PingInterval
    BY Zenon
  <2>1. PingsFirst
    BY DEF PingsFirst, ServerAssumption
  <2> QED
    BY <2>1, StepFollowed DEF AllFollowed, Followed, Asks
<1> QED
  BY <1>1, SessionsSound, PTL DEF Spec, AskedBeforeIdleClose

(* The last words of a draining, failed or faulted connection are out      *)
(* before the drop, unless the peer is gone, the budget spent or the       *)
(* server destroyed.                                                       *)
THEOREM LastWordsOut == Spec => DrainedBeforeDrop
<1>1. SInv /\ [Next]_vars =>
        [\A c \in Conns :
           LET s == conn[c]
           IN Torn(c) /\ (s.dropPending \/ s.failed \/ s.faulted)
                /\ ~s.dropDeferred
                => \/ Len(conn'[c].wire) = Len(s.wire) + Len(s.out)
                   \/ conn'[c].tport = "dead"
                   \/ Lapsed(s.deadline)
                   \/ ~up']_vars
  BY StepFollowed DEF AllFollowed, Followed, Drains, Torn
<1> QED
  BY <1>1, SessionsSound, PTL DEF Spec, DrainedBeforeDrop
=============================================================================
