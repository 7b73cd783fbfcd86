--------------------------- MODULE WSPostsProofs ---------------------------
(***************************************************************************)
(* Theorems about WSPosts for any number of threads, connections,          *)
(* envelopes and calls of Run.                                             *)
(***************************************************************************)
EXTENDS WSPosts, SequenceTheorems, TLAPS

USE PostsAssumption

-----------------------------------------------------------------------------
(* Sequences.                                                              *)

(* A push at the end of the last part is a push at the end of the whole.   *)
LEMMA ConcatAppend ==
  \A a, b, c \in Seq(Posts), x \in Posts :
    Append(a \o (b \o c), x) = a \o (b \o Append(c, x))
<1> SUFFICES ASSUME NEW a \in Seq(Posts), NEW b \in Seq(Posts),
                    NEW c \in Seq(Posts), NEW x \in Posts
             PROVE  Append(a \o (b \o c), x) = a \o (b \o Append(c, x))
  OBVIOUS
<1> DEFINE l == Append(a \o (b \o c), x)
           r == a \o (b \o Append(c, x))
<1>1. l \in Seq(Posts) /\ r \in Seq(Posts)
  OBVIOUS
<1>2. Len(l) = Len(r)
  OBVIOUS
<1>3. \A i \in 1 .. Len(l) : l[i] = r[i]
  BY SMTT(30)
<1> QED
  BY <1>1, <1>2, <1>3, SeqEqual

(* An empty middle part and an empty last part are the same.               *)
LEMMA ConcatEmpty ==
  \A a, b \in Seq(Posts) : a \o (<<>> \o b) = a \o (b \o <<>>)
  BY SMTT(30)

(* The head of the middle part moves to the end of the first part.         *)
LEMMA ConcatHead ==
  \A a, b, c \in Seq(Posts) :
    b # <<>> => Append(a, Head(b)) \o (Tail(b) \o c) = a \o (b \o c)
<1> SUFFICES ASSUME NEW a \in Seq(Posts), NEW b \in Seq(Posts),
                    NEW c \in Seq(Posts), b # <<>>
             PROVE  Append(a, Head(b)) \o (Tail(b) \o c) = a \o (b \o c)
  OBVIOUS
<1> DEFINE l == Append(a, Head(b)) \o (Tail(b) \o c)
           r == a \o (b \o c)
<1>1. l \in Seq(Posts) /\ r \in Seq(Posts)
  OBVIOUS
<1>2. Len(l) = Len(r)
  OBVIOUS
<1>3. \A i \in 1 .. Len(l) : l[i] = r[i]
  BY SMTT(30)
<1> QED
  BY <1>1, <1>2, <1>3, SeqEqual

(* The whole middle part moves there.                                      *)
LEMMA ConcatAssoc ==
  \A a, b, c \in Seq(Posts) : (a \o b) \o (<<>> \o c) = a \o (b \o c)
  BY SMTT(30)

-----------------------------------------------------------------------------
(* Type correctness.                                                       *)

(* Every variable of the hand-off keeps its type, DeliverRaises included,  *)
(* which settles a whole chain in one step.                                *)
LEMMA TypeStep ==
  ASSUME TypeOK, [Next]_vars
  PROVE  TypeOK'
<1> USE DEF queueVars, reactorVars, callerVars, history, Places, Fates
<1>1. ASSUME NEW t \in Threads, NEW p \in Posts, NEW c \in Conns, Push(t, p, c)
      PROVE  TypeOK'
  <2>1. CASE stopped
    BY <1>1, <2>1 DEF Push, TypeOK
  <2>2. CASE ~stopped
    <3>1. queue' \in Seq(Posts) /\ took' \in Seq(Posts)
      <4>1. queue' = Append(queue, p) /\ took' = Append(took, p)
        BY <1>1, <2>2 DEF Push
      <4>2. queue \in Seq(Posts) /\ took \in Seq(Posts)
        BY DEF TypeOK
      <4> QED
        BY <4>1, <4>2
    <3>2. /\ at' \in [Threads -> {"idle", "refused", "pushed"}]
          /\ target' \in [Posts -> Conns \union {None}]
      BY <1>1, <2>2 DEF Push, TypeOK
    <3>3. /\ holds' \in [Threads -> Posts \union {None}]
          /\ fate' \in [Posts -> Fates]
      BY <1>1, <2>2 DEF Push, TypeOK
    <3> QED
      BY <1>1, <2>2, <3>1, <3>2, <3>3 DEF Push, TypeOK
  <2> QED
    BY <2>1, <2>2
<1>2. ASSUME NEW t \in Threads, HandBack(t) PROVE TypeOK'
  BY <1>2 DEF HandBack, TypeOK
<1>3. ASSUME NEW t \in Threads, Wake(t) PROVE TypeOK'
  BY <1>3 DEF Wake, TypeOK
<1>4. CASE RunStarts
  <2>1. runs' = runs + 1 /\ runs \in Nat
    BY <1>4 DEF RunStarts, TypeOK
  <2>2. runs' \in Nat /\ once' \in BOOLEAN
    BY <1>4, <2>1 DEF RunStarts
  <2> QED
    BY <1>4, <2>2 DEF RunStarts, TypeOK
<1>5. CASE PollWoken \/ PollTraffic \/ ReadWake
  <2>1. CASE PollWoken
    BY <2>1 DEF PollWoken, TypeOK
  <2>2. CASE PollTraffic
    BY <2>2 DEF PollTraffic, TypeOK
  <2>3. CASE ReadWake
    BY <2>3 DEF ReadWake, TypeOK
  <2> QED
    BY <1>5, <2>1, <2>2, <2>3
<1>6. CASE Drain \/ PostsDone \/ Sweep \/ LoopTest
  <2>0. <<>> \in Seq(Posts)
    OBVIOUS
  <2>1. CASE Drain
    BY <2>0, <2>1 DEF Drain, TypeOK
  <2>2. CASE PostsDone
    BY <2>2 DEF PostsDone, TypeOK
  <2>3. CASE Sweep
    BY <2>0, <2>3 DEF Sweep, TypeOK
  <2>4. CASE LoopTest
    BY <2>4 DEF LoopTest, TypeOK
  <2> QED
    BY <1>6, <2>1, <2>2, <2>3, <2>4
<1>7. CASE DeliverNext
  <2>1. Head(chain) \in Posts /\ Tail(chain) \in Seq(Posts)
    BY <1>7 DEF DeliverNext, Walking, TypeOK
  <2>2. done' \in Seq(Posts) /\ chain' \in Seq(Posts)
    BY <1>7, <2>1 DEF DeliverNext, TypeOK
  <2>3. fate' \in [Posts -> Fates] /\ tracked' \in SUBSET Conns
    BY <1>7, <2>1 DEF DeliverNext, TypeOK
  <2> QED
    BY <1>7, <2>2, <2>3 DEF DeliverNext, TypeOK
<1>8. CASE DeliverRaises
  <2>1. done' \in Seq(Posts) /\ chain' \in Seq(Posts)
    BY <1>8 DEF DeliverRaises, TypeOK
  <2>2. fate' \in [Posts -> Fates]
    BY <1>8 DEF DeliverRaises, TypeOK
  <2>3. pc' \in Places
    BY <1>8 DEF DeliverRaises
  <2>4. took' \in Seq(Posts) /\ queue' \in Seq(Posts)
    BY <1>8 DEF DeliverRaises, TypeOK
  <2>5. /\ stopped' \in BOOLEAN /\ wake' \in BOOLEAN /\ running' \in BOOLEAN
        /\ once' \in BOOLEAN /\ tracked' \in SUBSET Conns /\ runs' \in Nat
    BY <1>8 DEF DeliverRaises, TypeOK
  <2>6. /\ target' \in [Posts -> Conns \union {None}]
        /\ at' \in [Threads -> {"idle", "refused", "pushed"}]
        /\ holds' \in [Threads -> Posts \union {None}]
        /\ stopper' \in {"idle", "wake", "done"}
    BY <1>8 DEF DeliverRaises, TypeOK
  <2> QED
    BY <2>1, <2>2, <2>3, <2>4, <2>5, <2>6 DEF TypeOK
<1>9. CASE StopFlag \/ StopWake
  BY <1>9 DEF StopFlag, StopWake, TypeOK
<1>10. CASE Shutdown \/ ShutdownDone
  <2>0. <<>> \in Seq(Posts) /\ {} \in SUBSET Conns
    OBVIOUS
  <2>1. CASE Shutdown
    BY <2>0, <2>1 DEF Shutdown, TypeOK
  <2>2. CASE ShutdownDone
    BY <2>0, <2>2 DEF ShutdownDone, TypeOK
  <2> QED
    BY <1>10, <2>1, <2>2
<1>11. CASE UNCHANGED vars
  BY <1>11 DEF vars, TypeOK
<1> QED
  BY <1>1, <1>2, <1>3, <1>4, <1>5, <1>6, <1>7, <1>8, <1>9, <1>10, <1>11
     DEF Next

LEMMA InitTyped == Init => TypeOK
<1> SUFFICES ASSUME Init PROVE TypeOK
  OBVIOUS
<1>1. <<>> \in Seq(Posts)
  OBVIOUS
<1> QED
  BY <1>1 DEF Init, TypeOK, Places, Fates

(* Every reachable state is well typed.                                    *)
THEOREM TypeInvariant == Spec => []TypeOK
<1>1. Init => TypeOK
  BY InitTyped
<1>2. TypeOK /\ [Next]_vars => TypeOK'
  BY TypeStep
<1> QED
  BY <1>1, <1>2, PTL DEF Spec

-----------------------------------------------------------------------------
(* The inductive invariant.                                                *)

(* What the steps that move no node cannot disturb.                        *)
LEMMA NodesAtRest ==
  ASSUME HandOffExact, NewUntaken, QueuedHeld,
         UNCHANGED <<queue, chain, took, done, fate>>
  PROVE  HandOffExact' /\ NewUntaken' /\ QueuedHeld'
  BY DEF HandOffExact, NewUntaken, QueuedHeld, Occurs

(* A push appends one new envelope to the queue and to what was taken.     *)
LEMMA PushKeeps ==
  ASSUME IInv, NEW t \in Threads, NEW p \in Posts, NEW c \in Conns, Push(t, p, c)
  PROVE  HandOffExact' /\ NewUntaken' /\ QueuedHeld'
<1>1. /\ queue \in Seq(Posts) /\ chain \in Seq(Posts) /\ took \in Seq(Posts)
      /\ done \in Seq(Posts) /\ fate \in [Posts -> Fates]
  BY DEF IInv, TypeOK
<1>2. fate[p] = "new" /\ chain' = chain /\ done' = done
  BY DEF Push, reactorVars
<1>3. CASE stopped
  <2>1. /\ queue' = queue /\ took' = took
        /\ fate' = [fate EXCEPT ![p] = "refused"]
    BY <1>3 DEF Push
  <2>2. HandOffExact'
    BY <1>2, <2>1 DEF IInv, HandOffExact
  <2>3. NewUntaken' /\ QueuedHeld'
    BY <1>1, <1>2, <2>1 DEF IInv, NewUntaken, QueuedHeld, Occurs
  <2> QED
    BY <2>2, <2>3
<1>4. CASE ~stopped
  <2>1. /\ queue' = Append(queue, p) /\ took' = Append(took, p)
        /\ fate' = [fate EXCEPT ![p] = "queued"]
    BY <1>4 DEF Push
  <2>2. took' = done' \o (chain' \o queue')
    <3>1. took = done \o (chain \o queue)
      BY DEF IInv, HandOffExact
    <3>2. Append(done \o (chain \o queue), p) = done \o (chain \o Append(queue, p))
      <4>1. /\ done \in Seq(Posts) /\ chain \in Seq(Posts) /\ queue \in Seq(Posts)
            /\ p \in Posts
        BY <1>1
      <4> QED
        BY <4>1, ConcatAppend, ZenonT(40)
    <3>3. took' = Append(done \o (chain \o queue), p)
      BY <2>1, <3>1
    <3> QED
      BY <1>2, <2>1, <3>2, <3>3, Zenon
  <2>3. \A i \in 1 .. Len(took) : took[i] # p
    BY <1>2 DEF IInv, NewUntaken
  <2>4. /\ Len(took') = Len(took) + 1 /\ took'[Len(took) + 1] = p
        /\ \A i \in 1 .. Len(took) : took'[i] = took[i]
    BY <1>1, <2>1
  <2>5. \A i, j \in 1 .. Len(took') : took'[i] = took'[j] => i = j
    <3>1. \A i, j \in 1 .. Len(took) : took[i] = took[j] => i = j
      BY DEF IInv, HandOffExact
    <3>2. Len(took) \in Nat
      BY <1>1
    <3>3. \A i \in 1 .. Len(took') : i \in 1 .. Len(took) \/ i = Len(took) + 1
      BY <2>4, <3>2
    <3> QED
      BY <2>3, <2>4, <3>1, <3>3
  <2>6. NewUntaken'
    <3> SUFFICES ASSUME NEW i \in 1 .. Len(took') PROVE fate'[took'[i]] # "new"
      BY DEF NewUntaken
    <3>1. CASE i = Len(took) + 1
      BY <1>1, <2>1, <2>4, <3>1
    <3>2. CASE i \in 1 .. Len(took)
      BY <1>1, <2>1, <2>4, <3>2 DEF IInv, NewUntaken
    <3> QED
      BY <1>1, <2>4, <3>1, <3>2
  <2>7. QueuedHeld'
    <3> SUFFICES ASSUME NEW q \in Posts, fate'[q] = "queued"
                 PROVE  Occurs(q, chain') \/ Occurs(q, queue')
      BY DEF QueuedHeld, Occurs
    <3>1. /\ Len(queue') = Len(queue) + 1 /\ queue'[Len(queue) + 1] = p
          /\ \A i \in 1 .. Len(queue) : queue'[i] = queue[i]
      BY <1>1, <2>1
    <3>2. CASE q = p
      <4>1. Len(queue) + 1 \in 1 .. Len(queue')
        BY <1>1, <3>1
      <4>2. queue'[Len(queue) + 1] = q
        BY <3>1, <3>2
      <4> QED
        BY <4>1, <4>2 DEF Occurs
    <3>3. CASE q # p
      <4>1. fate[q] = "queued"
        BY <1>1, <2>1, <3>3
      <4>2. Occurs(q, chain) \/ Occurs(q, queue)
        BY <4>1 DEF IInv, QueuedHeld
      <4> QED
        BY <1>1, <1>2, <3>1, <4>2 DEF Occurs
    <3> QED
      BY <3>2, <3>3
  <2> QED
    BY <2>2, <2>5, <2>6, <2>7 DEF HandOffExact
<1> QED
  BY <1>3, <1>4

(* Draining hands the whole queue to an empty chain.                       *)
LEMMA DrainKeeps ==
  ASSUME IInv, chain = <<>>, chain' = queue, queue' = <<>>,
         UNCHANGED <<took, done, fate>>
  PROVE  HandOffExact' /\ NewUntaken' /\ QueuedHeld'
<1>1. queue \in Seq(Posts) /\ done \in Seq(Posts)
  BY DEF IInv, TypeOK
<1>2. took' = done' \o (chain' \o queue')
  BY <1>1, ConcatEmpty DEF IInv, HandOffExact
<1>3. HandOffExact'
  BY <1>2 DEF IInv, HandOffExact
<1>4. \A p \in Posts : ~Occurs(p, chain)
  BY DEF Occurs
<1>5. NewUntaken' /\ QueuedHeld'
  BY <1>4 DEF IInv, NewUntaken, QueuedHeld, Occurs
<1> QED
  BY <1>3, <1>5

(* One delivery moves the head of the chain to the end of what is done.    *)
LEMMA DeliverNextKeeps ==
  ASSUME IInv, DeliverNext
  PROVE  HandOffExact' /\ NewUntaken' /\ QueuedHeld'
<1> DEFINE p == Head(chain)
<1>1. /\ queue \in Seq(Posts) /\ chain \in Seq(Posts) /\ took \in Seq(Posts)
      /\ done \in Seq(Posts) /\ fate \in [Posts -> Fates]
  BY DEF IInv, TypeOK
<1>2. /\ chain # <<>> /\ chain' = Tail(chain) /\ done' = Append(done, p)
      /\ queue' = queue /\ took' = took
      /\ fate' = [fate EXCEPT ![p] = IF Found(p) THEN "delivered" ELSE "dropped"]
  BY DEF DeliverNext, Walking, queueVars
<1>3. p \in Posts /\ p = chain[1]
  BY <1>1, <1>2
<1>4. took' = done' \o (chain' \o queue')
  <2>1. took = done \o (chain \o queue)
    BY DEF IInv, HandOffExact
  <2>2. Append(done, p) \o (Tail(chain) \o queue) = done \o (chain \o queue)
    BY <1>1, <1>2, ConcatHead, Zenon
  <2> QED
    BY <1>2, <2>1, <2>2
<1>5. HandOffExact'
  BY <1>2, <1>4 DEF IInv, HandOffExact
<1>6. NewUntaken'
  BY <1>1, <1>2, <1>3 DEF IInv, NewUntaken
<1>7. QueuedHeld'
  <2> SUFFICES ASSUME NEW q \in Posts, fate'[q] = "queued"
               PROVE  Occurs(q, chain') \/ Occurs(q, queue')
    BY DEF QueuedHeld, Occurs
  <2>1. q # p /\ fate[q] = "queued"
    BY <1>1, <1>2, <1>3
  <2>2. Occurs(q, chain) \/ Occurs(q, queue)
    BY <2>1 DEF IInv, QueuedHeld
  <2>3. CASE Occurs(q, chain)
    <3>1. PICK i \in 1 .. Len(chain) : chain[i] = q
      BY <2>3 DEF Occurs
    <3>2. i # 1
      BY <1>3, <2>1, <3>1
    <3>3. i - 1 \in 1 .. Len(chain') /\ chain'[i - 1] = q
      BY <1>1, <1>2, <3>1, <3>2
    <3> QED
      BY <3>3 DEF Occurs
  <2> QED
    BY <1>2, <2>2, <2>3
<1> QED
  BY <1>5, <1>6, <1>7

(* A raise hands the whole chain back.                                     *)
LEMMA DeliverRaisesKeeps ==
  ASSUME IInv, DeliverRaises
  PROVE  HandOffExact' /\ NewUntaken' /\ QueuedHeld'
<1>1. /\ queue \in Seq(Posts) /\ chain \in Seq(Posts) /\ took \in Seq(Posts)
      /\ done \in Seq(Posts) /\ fate \in [Posts -> Fates]
  BY DEF IInv, TypeOK
<1>2. /\ chain # <<>> /\ chain' = <<>> /\ done' = done \o chain
      /\ queue' = queue /\ took' = took
  BY DEF DeliverRaises, Walking, queueVars
<1>3. took' = done' \o (chain' \o queue')
  BY <1>1, <1>2, ConcatAssoc DEF IInv, HandOffExact
<1>4. HandOffExact'
  BY <1>2, <1>3 DEF IInv, HandOffExact
<1>5. \A q \in Posts : \/ fate'[q] \in {"delivered", "dropped"}
                       \/ fate'[q] = fate[q] /\ ~Occurs(q, chain)
  <2> SUFFICES ASSUME NEW q \in Posts
               PROVE  \/ fate'[q] \in {"delivered", "dropped"}
                      \/ fate'[q] = fate[q] /\ ~Occurs(q, chain)
    OBVIOUS
  <2>1. fate'[q] = IF q = Head(chain) THEN "delivered"
                   ELSE IF \E i \in 2 .. Len(chain) : chain[i] = q THEN "dropped"
                   ELSE fate[q]
    BY DEF DeliverRaises
  <2>2. Occurs(q, chain)
          => q = Head(chain) \/ \E i \in 2 .. Len(chain) : chain[i] = q
    BY <1>1, <1>2 DEF Occurs
  <2> QED
    BY <2>1, <2>2
<1>6. NewUntaken'
  <2> SUFFICES ASSUME NEW i \in 1 .. Len(took) PROVE fate'[took[i]] # "new"
    BY <1>2 DEF NewUntaken
  <2>1. took[i] \in Posts
    BY <1>1
  <2>2. fate[took[i]] # "new"
    BY DEF IInv, NewUntaken
  <2> QED
    BY <1>5, <2>1, <2>2
<1>7. QueuedHeld'
  BY <1>2, <1>5 DEF IInv, QueuedHeld, Occurs
<1> QED
  BY <1>4, <1>6, <1>7

(* The wake, step by step: a push leaves its thread owing the eventfd      *)
(* write, and the reactor that reads it drains next.                       *)
LEMMA WakeKept ==
  ASSUME IInv, [Next]_vars
  PROVE  WakePending'
<1> USE DEF queueVars, reactorVars, callerVars, history
<1>0. WakePending /\ TypeOK
  BY DEF IInv
<1>1. ASSUME NEW t \in Threads, NEW p \in Posts, NEW c \in Conns, Push(t, p, c)
      PROVE  WakePending'
  <2>1. at[t] = "idle" /\ UNCHANGED <<wake, pc, running, stopper>>
    BY <1>1 DEF Push
  <2>2. CASE stopped
    <3>1. queue' = queue /\ at' = [at EXCEPT ![t] = "refused"]
      BY <1>1, <2>2 DEF Push
    <3>2. \A u \in Threads : at[u] = "pushed" => at'[u] = "pushed"
      BY <1>0, <2>1, <3>1 DEF TypeOK
    <3> QED
      BY <1>0, <2>1, <3>1, <3>2 DEF WakePending
  <2>3. CASE ~stopped
    <3>1. at'[t] = "pushed"
      BY <1>0, <1>1, <2>3 DEF Push, TypeOK
    <3> QED
      BY <1>0, <2>1, <3>1 DEF WakePending
  <2> QED
    BY <2>2, <2>3
<1>2. ASSUME NEW t \in Threads, HandBack(t) PROVE WakePending'
  <2>1. \A u \in Threads : at[u] = "pushed" => at'[u] = "pushed"
    BY <1>0, <1>2 DEF HandBack, TypeOK
  <2> QED
    BY <1>0, <1>2, <2>1 DEF HandBack, WakePending
<1>3. ASSUME NEW t \in Threads, Wake(t) PROVE WakePending'
  BY <1>3 DEF Wake, WakePending
<1>4. CASE RunStarts
  BY <1>0, <1>4 DEF RunStarts, WakePending, IInv
<1>5. CASE PollWoken
  BY <1>0, <1>5 DEF PollWoken, WakePending
<1>6. CASE PollTraffic
  BY <1>0, <1>6 DEF PollTraffic, WakePending
<1>7. CASE ReadWake
  BY <1>0, <1>7 DEF ReadWake, WakePending
<1>8. CASE Drain
  BY <1>8 DEF Drain, WakePending
<1>9. CASE DeliverNext
  BY <1>0, <1>9 DEF DeliverNext, Walking, WakePending
<1>10. CASE DeliverRaises
  BY <1>0, <1>10 DEF DeliverRaises, Walking, WakePending
<1>11. CASE PostsDone
  BY <1>0, <1>11 DEF PostsDone, WakePending
<1>12. CASE Sweep
  BY <1>12 DEF Sweep, WakePending
<1>13. CASE LoopTest
  BY <1>0, <1>13 DEF LoopTest, WakePending
<1>14. CASE StopFlag
  BY <1>0, <1>14 DEF StopFlag, WakePending
<1>15. CASE StopWake
  BY <1>15 DEF StopWake, WakePending
<1>16. CASE Shutdown
  BY <1>16 DEF Shutdown, WakePending
<1>17. CASE ShutdownDone
  BY <1>0, <1>17 DEF ShutdownDone, WakePending
<1>18. CASE UNCHANGED vars
  BY <1>0, <1>18 DEF vars, WakePending
<1> QED
  BY <1>1, <1>2, <1>3, <1>4, <1>5, <1>6, <1>7, <1>8, <1>9, <1>10, <1>11,
     <1>12, <1>13, <1>14, <1>15, <1>16, <1>17, <1>18 DEF Next

(* Where the reactor may hold a chain, and what being stopped means.       *)
LEMMA PlacesKept ==
  ASSUME IInv, [Next]_vars
  PROVE  ChainPlace' /\ StoppedEmpty' /\ DownStopped'
<1> USE DEF queueVars, reactorVars, callerVars, history
<1>0. ChainPlace /\ StoppedEmpty /\ DownStopped
  BY DEF IInv
<1> USE DEF ChainPlace, StoppedEmpty, DownStopped
<1>1. ASSUME NEW t \in Threads, NEW p \in Posts, NEW c \in Conns, Push(t, p, c)
      PROVE  ChainPlace' /\ StoppedEmpty' /\ DownStopped'
  BY <1>0, <1>1 DEF Push
<1>2. ASSUME NEW t \in Threads, HandBack(t) \/ Wake(t)
      PROVE  ChainPlace' /\ StoppedEmpty' /\ DownStopped'
  BY <1>0, <1>2 DEF HandBack, Wake
<1>3. CASE RunStarts \/ PollWoken \/ PollTraffic \/ ReadWake
  BY <1>0, <1>3 DEF RunStarts, PollWoken, PollTraffic, ReadWake
<1>4. CASE Drain \/ PostsDone \/ Sweep \/ LoopTest
  BY <1>0, <1>4 DEF Drain, PostsDone, Sweep, LoopTest
<1>5. CASE DeliverNext
  BY <1>0, <1>5 DEF DeliverNext, Walking
<1>6. CASE DeliverRaises
  BY <1>0, <1>6 DEF DeliverRaises, Walking
<1>7. CASE StopFlag \/ StopWake
  BY <1>0, <1>7 DEF StopFlag, StopWake
<1>8. CASE Shutdown \/ ShutdownDone
  BY <1>0, <1>8 DEF Shutdown, ShutdownDone
<1>9. CASE UNCHANGED vars
  BY <1>0, <1>9 DEF vars
<1> QED
  BY <1>1, <1>2, <1>3, <1>4, <1>5, <1>6, <1>7, <1>8, <1>9 DEF Next

-----------------------------------------------------------------------------
(* Theorems.                                                               *)

(* The inductive invariant holds in every reachable state.                 *)
THEOREM InductiveInvariant == Spec => []IInv
<1>1. Init => IInv
  <2> SUFFICES ASSUME Init PROVE IInv
    OBVIOUS
  <2>1. TypeOK
    BY InitTyped
  <2>2. HandOffExact
    BY DEF Init, HandOffExact
  <2>3. NewUntaken /\ QueuedHeld
    BY DEF Init, NewUntaken, QueuedHeld
  <2>4. ChainPlace /\ StoppedEmpty /\ DownStopped /\ WakePending
    BY DEF Init, ChainPlace, StoppedEmpty, DownStopped, WakePending
  <2> QED
    BY <2>1, <2>2, <2>3, <2>4 DEF IInv
<1>2. IInv /\ [Next]_vars => IInv'
  <2> SUFFICES ASSUME IInv, [Next]_vars PROVE IInv'
    OBVIOUS
  <2>1. TypeOK'
    BY TypeStep DEF IInv
  <2>2. HandOffExact' /\ NewUntaken' /\ QueuedHeld'
    <3> USE DEF queueVars, reactorVars, callerVars, history
    <3>0. HandOffExact /\ NewUntaken /\ QueuedHeld /\ TypeOK
      BY DEF IInv
    <3>1. ASSUME NEW t \in Threads, NEW p \in Posts, NEW c \in Conns,
                 Push(t, p, c)
          PROVE  HandOffExact' /\ NewUntaken' /\ QueuedHeld'
      BY <3>1, PushKeeps
    <3>2. ASSUME NEW t \in Threads, HandBack(t)
          PROVE  HandOffExact' /\ NewUntaken' /\ QueuedHeld'
      <4>1. /\ UNCHANGED <<queue, chain, took, done>>
            /\ fate' = [fate EXCEPT ![holds[t]] = "dropped"]
        BY <3>2 DEF HandBack
      <4>2. \A p \in Posts : fate'[p] = fate[p] \/ fate'[p] = "dropped"
        BY <3>0, <4>1 DEF TypeOK
      <4>3. \A i \in 1 .. Len(took) : took[i] \in Posts
        BY <3>0 DEF TypeOK
      <4>4. HandOffExact'
        BY <3>0, <4>1 DEF HandOffExact
      <4>5. NewUntaken'
        BY <3>0, <4>1, <4>2, <4>3 DEF NewUntaken
      <4>6. QueuedHeld'
        BY <3>0, <4>1, <4>2 DEF QueuedHeld, Occurs
      <4> QED
        BY <4>4, <4>5, <4>6
    <3>3. ASSUME NEW t \in Threads, Wake(t)
          PROVE  HandOffExact' /\ NewUntaken' /\ QueuedHeld'
      BY <3>0, <3>3, NodesAtRest DEF Wake
    <3>4. CASE RunStarts \/ PollWoken \/ PollTraffic \/ ReadWake
      BY <3>0, <3>4, NodesAtRest DEF RunStarts, PollWoken, PollTraffic, ReadWake
    <3>5. CASE Drain
      BY <3>5, DrainKeeps DEF Drain, IInv, ChainPlace
    <3>6. CASE Sweep
      BY <3>6, DrainKeeps DEF Sweep, IInv, ChainPlace
    <3>7. CASE Shutdown
      BY <3>7, DrainKeeps DEF Shutdown, IInv, ChainPlace
    <3>8. CASE DeliverNext
      BY <3>8, DeliverNextKeeps
    <3>9. CASE DeliverRaises
      BY <3>9, DeliverRaisesKeeps
    <3>10. CASE PostsDone \/ LoopTest \/ StopFlag \/ StopWake \/ ShutdownDone
      BY <3>0, <3>10, NodesAtRest
         DEF PostsDone, LoopTest, StopFlag, StopWake, ShutdownDone
    <3>11. CASE UNCHANGED vars
      BY <3>0, <3>11, NodesAtRest DEF vars
    <3> QED
      BY <3>1, <3>2, <3>3, <3>4, <3>5, <3>6, <3>7, <3>8, <3>9, <3>10, <3>11
         DEF Next
  <2>3. ChainPlace' /\ StoppedEmpty' /\ DownStopped' /\ WakePending'
    BY PlacesKept, WakeKept
  <2> QED
    BY <2>1, <2>2, <2>3 DEF IInv
<1> QED
  BY <1>1, <1>2, PTL DEF Spec

(* SubmitPost, Detach and both kinds of delivery neither lose, duplicate   *)
(* nor reorder a node, for any number of threads and posts.                *)
THEOREM NoNodeLost == Spec => []HandOffExact
<1>1. IInv => HandOffExact
  BY DEF IInv
<1> QED
  BY <1>1, InductiveInvariant, PTL

(* A reactor parked in epoll_wait with work queued is going to be woken.   *)
THEOREM WakeNeverLost == Spec => []NoLostWake
<1>1. IInv => NoLostWake
  BY DEF IInv, WakePending, NoLostWake
<1> QED
  BY <1>1, InductiveInvariant, PTL

(* After Shutdown no accepted envelope is still unsettled.                 *)
THEOREM ShutdownLeaksNothing == Spec => []NothingLeaked
<1>1. IInv => NothingLeaked
  <2> SUFFICES ASSUME IInv, pc = "down", NEW p \in Posts PROVE fate[p] # "queued"
    BY DEF NothingLeaked
  <2>1. chain = <<>> /\ queue = <<>>
    BY DEF IInv, ChainPlace, DownStopped, StoppedEmpty
  <2>2. ~Occurs(p, chain) /\ ~Occurs(p, queue)
    BY <2>1 DEF Occurs
  <2> QED
    BY <2>2 DEF IInv, QueuedHeld
<1> QED
  BY <1>1, InductiveInvariant, PTL

-----------------------------------------------------------------------------
(***************************************************************************)
(* The hand-off of posts implements the mailbox: every step of WSPosts is  *)
(* a step of WSMailbox, or changes nothing that the mailbox sees.          *)
(***************************************************************************)

(* What is taken and not yet done is queued: only a delivery settles it.   *)
PendingQueued ==
  \A i \in Len(done) + 1 .. Len(took) : fate[took[i]] = "queued"

(* A refused post is held by the one call that has to hand it back.        *)
RefusedHeld ==
  \A t \in Threads : at[t] = "refused" =>
    /\ holds[t] \in Posts /\ fate[holds[t]] = "refused"
    /\ \A u \in Threads : at[u] = "refused" /\ holds[u] = holds[t] => u = t

RInv == IInv /\ PendingQueued /\ RefusedHeld

-----------------------------------------------------------------------------
(* The chain is what was taken after what is done. *)

LEMMA Types ==
  ASSUME IInv
  PROVE  /\ queue \in Seq(Posts) /\ chain \in Seq(Posts) /\ took \in Seq(Posts)
         /\ done \in Seq(Posts) /\ fate \in [Posts -> Fates]
         /\ at \in [Threads -> {"idle", "refused", "pushed"}]
         /\ holds \in [Threads -> Posts \union {None}]
  BY DEF IInv, TypeOK

LEMMA ChainNext ==
  ASSUME IInv
  PROVE  /\ Len(took) >= Len(done) + Len(chain)
         /\ \A j \in 1 .. Len(chain) : took[Len(done) + j] = chain[j]
<1>1. took = done \o (chain \o queue)
  BY DEF IInv, HandOffExact
<1>2. queue \in Seq(Posts) /\ chain \in Seq(Posts) /\ done \in Seq(Posts)
  BY Types
<1>3. Len(took) = Len(done) + (Len(chain) + Len(queue))
  BY <1>1, <1>2
<1>4. ASSUME NEW j \in 1 .. Len(chain) PROVE took[Len(done) + j] = chain[j]
  <2>1. (chain \o queue)[j] = chain[j]
    BY <1>2, <1>4
  <2>2. chain \o queue \in Seq(Posts) /\ j \in 1 .. Len(chain \o queue)
    BY <1>2, <1>4
  <2>3. (done \o (chain \o queue))[Len(done) + j] = (chain \o queue)[j]
    BY <1>2, <2>2
  <2> QED
    BY <1>1, <2>1, <2>3
<1>5. Len(took) >= Len(done) + Len(chain)
  BY <1>2, <1>3
<1> QED
  BY <1>4, <1>5

(* A delivery walks posts that are pending.                                *)
LEMMA ChainQueued ==
  ASSUME IInv, PendingQueued
  PROVE  \A j \in 1 .. Len(chain) : fate[chain[j]] = "queued"
<1> SUFFICES ASSUME NEW j \in 1 .. Len(chain) PROVE fate[chain[j]] = "queued"
  OBVIOUS
<1>1. took[Len(done) + j] = chain[j] /\ Len(took) >= Len(done) + Len(chain)
  BY ChainNext
<1>2. Len(done) + j \in Len(done) + 1 .. Len(took)
  BY <1>1, Types
<1> QED
  BY <1>1, <1>2 DEF PendingQueued

-----------------------------------------------------------------------------
(* The invariant of the refinement. *)

(* Who holds a refused post keeps it while others settle queued ones.      *)
LEMMA RefusedKept ==
  ASSUME IInv, RefusedHeld, UNCHANGED <<at, holds>>,
         \A p \in Posts : fate'[p] = fate[p] \/ fate[p] = "queued"
  PROVE  RefusedHeld'
<1> SUFFICES ASSUME NEW t \in Threads, at[t] = "refused"
             PROVE  /\ holds[t] \in Posts /\ fate'[holds[t]] = "refused"
                    /\ \A u \in Threads : at[u] = "refused" /\ holds[u] = holds[t] => u = t
  BY DEF RefusedHeld
<1> QED
  BY DEF RefusedHeld

LEMMA PushR ==
  ASSUME RInv, NEW t \in Threads, NEW p \in Posts, NEW c \in Conns, Push(t, p, c)
  PROVE  PendingQueued' /\ RefusedHeld'
<1>1. /\ took \in Seq(Posts) /\ done \in Seq(Posts) /\ fate \in [Posts -> Fates]
      /\ at \in [Threads -> {"idle", "refused", "pushed"}]
      /\ holds \in [Threads -> Posts \union {None}]
  BY Types DEF RInv
<1>2. at[t] = "idle" /\ fate[p] = "new" /\ done' = done /\ holds' = [holds EXCEPT ![t] = p]
  BY DEF Push
<1>3. \A i \in 1 .. Len(took) : took[i] # p
  BY <1>2 DEF RInv, IInv, NewUntaken
<1>4. \A u \in Threads : at[u] = "refused" =>
        u # t /\ holds[u] \in Posts /\ holds[u] # p
  BY <1>2 DEF RInv, RefusedHeld
<1>5. CASE stopped
  <2>1. /\ took' = took /\ fate' = [fate EXCEPT ![p] = "refused"]
        /\ at' = [at EXCEPT ![t] = "refused"]
    BY <1>5 DEF Push
  <2>2. PendingQueued'
    <3> SUFFICES ASSUME NEW i \in Len(done) + 1 .. Len(took)
                 PROVE  fate'[took[i]] = "queued"
      BY <1>2, <2>1 DEF PendingQueued
    <3>1. i \in 1 .. Len(took)
      BY <1>1
    <3>2. took[i] # p /\ took[i] \in Posts /\ fate[took[i]] = "queued"
      BY <1>1, <1>3, <3>1 DEF RInv, PendingQueued
    <3> QED
      BY <1>1, <2>1, <3>2
  <2>3. RefusedHeld'
    BY <1>1, <1>2, <1>4, <2>1 DEF RInv, RefusedHeld
  <2> QED
    BY <2>2, <2>3
<1>6. CASE ~stopped
  <2>1. /\ took' = Append(took, p) /\ fate' = [fate EXCEPT ![p] = "queued"]
        /\ at' = [at EXCEPT ![t] = "pushed"]
    BY <1>6 DEF Push
  <2>2. PendingQueued'
    <3> SUFFICES ASSUME NEW i \in Len(done) + 1 .. Len(took')
                 PROVE  fate'[took'[i]] = "queued"
      BY <1>2 DEF PendingQueued
    <3>1. Len(took') = Len(took) + 1
      BY <1>1, <2>1
    <3>2. CASE i = Len(took) + 1
      BY <1>1, <2>1, <3>2
    <3>3. CASE i \in Len(done) + 1 .. Len(took)
      <4>1. i \in 1 .. Len(took) /\ took'[i] = took[i]
        BY <1>1, <2>1, <3>3
      <4>2. took[i] # p /\ took[i] \in Posts /\ fate[took[i]] = "queued"
        BY <1>1, <1>3, <3>3, <4>1 DEF RInv, PendingQueued
      <4> QED
        BY <1>1, <2>1, <4>1, <4>2
    <3> QED
      BY <1>1, <3>1, <3>2, <3>3
  <2>3. RefusedHeld'
    BY <1>1, <1>2, <1>4, <2>1 DEF RInv, RefusedHeld
  <2> QED
    BY <2>2, <2>3
<1> QED
  BY <1>5, <1>6

LEMMA HandBackR ==
  ASSUME RInv, NEW t \in Threads, HandBack(t)
  PROVE  PendingQueued' /\ RefusedHeld'
<1>1. /\ took \in Seq(Posts) /\ done \in Seq(Posts) /\ fate \in [Posts -> Fates]
      /\ at \in [Threads -> {"idle", "refused", "pushed"}]
      /\ holds \in [Threads -> Posts \union {None}]
  BY Types DEF RInv
<1>2. /\ at[t] = "refused" /\ at' = [at EXCEPT ![t] = "idle"]
      /\ holds' = [holds EXCEPT ![t] = None]
      /\ fate' = [fate EXCEPT ![holds[t]] = "dropped"]
      /\ took' = took /\ done' = done
  BY DEF HandBack
<1>3. holds[t] \in Posts /\ fate[holds[t]] = "refused"
  BY <1>2 DEF RInv, RefusedHeld
<1>4. PendingQueued'
  <2> SUFFICES ASSUME NEW i \in Len(done) + 1 .. Len(took)
               PROVE  fate'[took[i]] = "queued"
    BY <1>2 DEF PendingQueued
  <2>1. took[i] \in Posts /\ fate[took[i]] = "queued"
    BY <1>1 DEF RInv, PendingQueued
  <2> QED
    BY <1>1, <1>2, <1>3, <2>1
<1>5. RefusedHeld'
  <2> SUFFICES ASSUME NEW u \in Threads, at'[u] = "refused"
               PROVE  /\ holds'[u] \in Posts /\ fate'[holds'[u]] = "refused"
                      /\ \A v \in Threads :
                           at'[v] = "refused" /\ holds'[v] = holds'[u] => v = u
    BY DEF RefusedHeld
  <2>1. u # t /\ at[u] = "refused" /\ holds'[u] = holds[u]
    BY <1>1, <1>2
  <2>2. holds[u] \in Posts /\ fate[holds[u]] = "refused" /\ holds[u] # holds[t]
    BY <1>2, <2>1 DEF RInv, RefusedHeld
  <2>3. fate'[holds[u]] = "refused"
    BY <1>1, <1>2, <1>3, <2>2
  <2>4. \A v \in Threads : at'[v] = "refused" => at[v] = "refused" /\ holds'[v] = holds[v]
    BY <1>1, <1>2
  <2> QED
    BY <2>1, <2>2, <2>3, <2>4 DEF RInv, RefusedHeld
<1> QED
  BY <1>4, <1>5

(* A delivery settles the posts it takes from the chain and no others.     *)
LEMMA DeliverNextR ==
  ASSUME RInv, DeliverNext
  PROVE  PendingQueued' /\ RefusedHeld'
<1>1. /\ took \in Seq(Posts) /\ done \in Seq(Posts) /\ chain \in Seq(Posts)
      /\ fate \in [Posts -> Fates]
  BY Types DEF RInv
<1>2. /\ chain # <<>> /\ done' = Append(done, chain[1]) /\ took' = took
      /\ chain[1] \in Posts /\ UNCHANGED <<at, holds>>
      /\ fate' = [fate EXCEPT ![chain[1]] = IF Found(chain[1]) THEN "delivered" ELSE "dropped"]
  BY <1>1 DEF DeliverNext, Walking, callerVars
<1>3. /\ 1 \in 1 .. Len(chain) /\ Len(done') = Len(done) + 1
      /\ Len(done) \in Nat /\ Len(took) \in Nat
  BY <1>1, <1>2
<1>4. took[Len(done) + 1] = chain[1] /\ Len(done) + 1 <= Len(took)
  BY <1>3, ChainNext DEF RInv
<1>5. PendingQueued'
  <2> SUFFICES ASSUME NEW i \in Len(done) + 2 .. Len(took)
               PROVE  fate'[took[i]] = "queued"
    BY <1>2, <1>3 DEF PendingQueued
  <2>1. took[i] # chain[1]
    <3>1. i \in 1 .. Len(took) /\ Len(done) + 1 \in 1 .. Len(took) /\ i # Len(done) + 1
      BY <1>3, <1>4
    <3> QED
      BY <1>4, <3>1 DEF RInv, IInv, HandOffExact
  <2>2. took[i] \in Posts /\ fate[took[i]] = "queued"
    BY <1>1, <1>3 DEF RInv, PendingQueued
  <2> QED
    BY <1>1, <1>2, <2>1, <2>2
<1>6. fate[chain[1]] = "queued"
  BY <1>3, ChainQueued DEF RInv
<1>7. RefusedHeld'
  BY <1>1, <1>2, <1>6, RefusedKept DEF RInv
<1> QED
  BY <1>5, <1>7

LEMMA DeliverRaisesR ==
  ASSUME RInv, DeliverRaises
  PROVE  PendingQueued' /\ RefusedHeld'
<1>1. /\ took \in Seq(Posts) /\ done \in Seq(Posts) /\ chain \in Seq(Posts)
      /\ fate \in [Posts -> Fates]
  BY Types DEF RInv
<1>2. /\ chain # <<>> /\ done' = done \o chain /\ took' = took /\ UNCHANGED <<at, holds>>
      /\ Head(chain) = chain[1] /\ 1 \in 1 .. Len(chain)
      /\ fate' = [p \in Posts |->
                    IF p = Head(chain) THEN "delivered"
                    ELSE IF \E i \in 2 .. Len(chain) : chain[i] = p THEN "dropped"
                    ELSE fate[p]]
  BY <1>1 DEF DeliverRaises, Walking, callerVars
<1>3. /\ Len(done') = Len(done) + Len(chain) /\ Len(chain) \in Nat
      /\ Len(done) \in Nat /\ Len(took) \in Nat
  BY <1>1, <1>2
<1>4. \A j \in 1 .. Len(chain) :
        took[Len(done) + j] = chain[j] /\ Len(done) + j \in 1 .. Len(took)
  BY <1>3, ChainNext DEF RInv
<1>5. PendingQueued'
  <2> SUFFICES ASSUME NEW i \in Len(done) + Len(chain) + 1 .. Len(took)
               PROVE  fate'[took[i]] = "queued"
    BY <1>2, <1>3 DEF PendingQueued
  <2>1. i \in 1 .. Len(took) /\ i \in Len(done) + 1 .. Len(took)
    BY <1>3
  <2>2. ASSUME NEW j \in 1 .. Len(chain) PROVE took[i] # chain[j]
    <3>1. i # Len(done) + j
      BY <1>3
    <3> QED
      BY <1>4, <2>1, <3>1 DEF RInv, IInv, HandOffExact
  <2>3. took[i] \in Posts /\ fate[took[i]] = "queued"
    BY <1>1, <2>1 DEF RInv, PendingQueued
  <2>4. took[i] # Head(chain) /\ ~ \E j \in 2 .. Len(chain) : chain[j] = took[i]
    BY <1>2, <1>3, <2>2
  <2> QED
    BY <1>2, <2>3, <2>4
<1>6. \A j \in 1 .. Len(chain) : fate[chain[j]] = "queued"
  BY ChainQueued DEF RInv
<1>7. \A p \in Posts : fate'[p] = fate[p] \/ fate[p] = "queued"
  BY <1>2, <1>3, <1>6
<1>8. RefusedHeld'
  BY <1>2, <1>7, RefusedKept DEF RInv
<1> QED
  BY <1>5, <1>8

(* The other steps settle nothing, and at most end a call that was pushed. *)
Elsewhere ==
  \/ \E t \in Threads : Wake(t)
  \/ RunStarts \/ PollWoken \/ PollTraffic \/ ReadWake \/ Drain \/ PostsDone
  \/ Sweep \/ LoopTest \/ StopFlag \/ StopWake \/ Shutdown \/ ShutdownDone
  \/ UNCHANGED vars

LEMMA ElsewhereSame ==
  ASSUME Elsewhere
  PROVE  /\ UNCHANGED <<fate, took, done>>
         /\ \/ UNCHANGED <<at, holds>>
            \/ \E t \in Threads : /\ at[t] = "pushed" /\ at' = [at EXCEPT ![t] = "idle"]
                                  /\ holds' = [holds EXCEPT ![t] = None]
<1> USE DEF queueVars, reactorVars, callerVars, history
<1>1. CASE \E t \in Threads : Wake(t)
  BY <1>1 DEF Wake
<1>2. CASE RunStarts \/ PollWoken \/ PollTraffic \/ ReadWake
  BY <1>2 DEF RunStarts, PollWoken, PollTraffic, ReadWake
<1>3. CASE Drain \/ PostsDone \/ Sweep \/ LoopTest
  BY <1>3 DEF Drain, PostsDone, Sweep, LoopTest
<1>4. CASE StopFlag \/ StopWake \/ Shutdown \/ ShutdownDone
  BY <1>4 DEF StopFlag, StopWake, Shutdown, ShutdownDone
<1>5. CASE UNCHANGED vars
  BY <1>5 DEF vars
<1> QED
  BY <1>1, <1>2, <1>3, <1>4, <1>5 DEF Elsewhere

LEMMA ElsewhereR ==
  ASSUME RInv, Elsewhere
  PROVE  PendingQueued' /\ RefusedHeld'
<1>1. PendingQueued'
  BY ElsewhereSame DEF RInv, PendingQueued
<1>2. CASE UNCHANGED <<at, holds>>
  <2>1. fate' = fate
    BY ElsewhereSame
  <2> QED
    BY <1>1, <1>2, <2>1, RefusedKept DEF RInv
<1>3. ASSUME NEW t \in Threads, at' = [at EXCEPT ![t] = "idle"],
             holds' = [holds EXCEPT ![t] = None]
      PROVE  RefusedHeld'
  <2>1. /\ at \in [Threads -> {"idle", "refused", "pushed"}]
        /\ holds \in [Threads -> Posts \union {None}]
    BY Types DEF RInv
  <2>2. \A u \in Threads : at'[u] = "refused" => at[u] = "refused" /\ holds'[u] = holds[u]
    BY <1>3, <2>1
  <2> QED
    BY <2>2, ElsewhereSame DEF RInv, RefusedHeld
<1> QED
  BY <1>1, <1>2, <1>3, ElsewhereSame

LEMMA NextIs ==
  ASSUME [Next]_vars
  PROVE  \/ \E t \in Threads, p \in Posts, c \in Conns : Push(t, p, c)
         \/ \E t \in Threads : HandBack(t)
         \/ DeliverNext \/ DeliverRaises \/ Elsewhere
  BY DEF Next, Elsewhere

LEMMA StepR ==
  ASSUME RInv, IInv', [Next]_vars
  PROVE  RInv'
<1>1. PendingQueued' /\ RefusedHeld'
  BY NextIs, PushR, HandBackR, DeliverNextR, DeliverRaisesR, ElsewhereR
<1> QED
  BY <1>1 DEF RInv

LEMMA InitR ==
  ASSUME Init, IInv
  PROVE  RInv
<1>1. took = <<>> /\ Len(took) = 0 /\ Len(done) = 0
  BY DEF Init
<1>2. PendingQueued
  BY <1>1 DEF PendingQueued
<1>3. RefusedHeld
  BY DEF Init, RefusedHeld
<1> QED
  BY <1>2, <1>3 DEF RInv

-----------------------------------------------------------------------------
(* Every step is a step of the mailbox. *)

LEMMA InitMaps == Init => Mailbox!Init
  BY DEF Init, Mailbox!Init

LEMMA PushMaps ==
  ASSUME RInv, NEW t \in Threads, NEW p \in Posts, NEW c \in Conns, Push(t, p, c)
  PROVE  Mailbox!Accept(p) \/ Mailbox!Refuse(p)
<1>1. CASE stopped
  BY <1>1 DEF Push, Mailbox!Refuse
<1>2. CASE ~stopped
  BY <1>2 DEF Push, Mailbox!Accept
<1> QED
  BY <1>1, <1>2

LEMMA HandBackMaps ==
  ASSUME RInv, NEW t \in Threads, HandBack(t)
  PROVE  holds[t] \in Posts /\ Mailbox!HandBack(holds[t])
  BY DEF RInv, RefusedHeld, HandBack, Mailbox!HandBack

(* What is settled next is what the reactor walks.                         *)
LEMMA BatchIsChain ==
  ASSUME IInv, NEW n \in 1 .. Len(chain)
  PROVE  /\ n \in 1 .. Len(took) - Len(done)
         /\ SubSeq(took, Len(done) + 1, Len(done) + n) \in Seq(Posts)
         /\ Len(SubSeq(took, Len(done) + 1, Len(done) + n)) = n
         /\ \A i \in 1 .. n : SubSeq(took, Len(done) + 1, Len(done) + n)[i] = chain[i]
<1> DEFINE m == Len(done) + 1
           k == Len(done) + n
<1>1. /\ took \in Seq(Posts) /\ done \in Seq(Posts) /\ chain \in Seq(Posts)
  BY Types
<1>2. Len(took) \in Nat /\ Len(done) \in Nat /\ Len(chain) \in Nat
  BY <1>1
<1>3. Len(took) >= Len(done) + Len(chain) /\ \A j \in 1 .. Len(chain) : took[Len(done) + j] = chain[j]
  BY ChainNext
<1>4. m \in Int /\ k \in Int /\ m <= k /\ k - m + 1 = n
  BY <1>2
<1>5. \A i \in m .. k : took[i] \in Posts
  <2>1. \A i \in m .. k : i \in 1 .. Len(took)
    BY <1>2, <1>3
  <2> QED
    BY <1>1, <2>1
<1>6. /\ SubSeq(took, m, k) \in Seq(Posts) /\ Len(SubSeq(took, m, k)) = n
      /\ \A i \in 1 .. n : SubSeq(took, m, k)[i] = took[m + i - 1]
  <2> HIDE DEF m, k
  <2> QED
    BY <1>4, <1>5, SubSeqProperties
<1>7. \A i \in 1 .. n : m + i - 1 = Len(done) + i /\ i \in 1 .. Len(chain)
  BY <1>2
<1>8. n \in 1 .. Len(took) - Len(done)
  BY <1>2, <1>3
<1> QED
  BY <1>3, <1>6, <1>7, <1>8

LEMMA DeliverNextMaps ==
  ASSUME RInv, DeliverNext
  PROVE  1 \in 1 .. Len(took) - Len(done) /\ Mailbox!Settle(1)
<1> DEFINE batch == SubSeq(took, Len(done) + 1, Len(done) + 1)
           first == IF Found(chain[1]) THEN "delivered" ELSE "dropped"
<1>1. /\ took \in Seq(Posts) /\ done \in Seq(Posts) /\ chain \in Seq(Posts)
      /\ fate \in [Posts -> Fates]
  BY Types DEF RInv
<1>2. /\ chain # <<>> /\ done' = Append(done, chain[1]) /\ took' = took
      /\ fate' = [fate EXCEPT ![chain[1]] = first]
  BY <1>1 DEF DeliverNext, Walking
<1>3. 1 \in 1 .. Len(chain)
  BY <1>1, <1>2
<1>4. /\ 1 \in 1 .. Len(took) - Len(done) /\ batch \in Seq(Posts)
      /\ Len(batch) = 1 /\ batch[1] = chain[1]
  <2>1. 1 \in 1 .. 1 /\ IInv
    BY DEF RInv
  <2>2. /\ 1 \in 1 .. Len(took) - Len(done) /\ batch \in Seq(Posts) /\ Len(batch) = 1
        /\ \A i \in 1 .. 1 : batch[i] = chain[i]
    BY <1>3, <2>1, BatchIsChain, Zenon
  <2> QED
    BY <2>1, <2>2, Zenon
<1> HIDE DEF batch
<1>5. done' = done \o batch
  <2>1. batch = <<chain[1]>>
    BY <1>4
  <2>2. chain[1] \in Posts
    BY <1>1, <1>3
  <2>3. Append(done, chain[1]) = done \o <<chain[1]>>
    BY <1>1, <2>2, AppendIsConcat
  <2> QED
    BY <1>2, <2>1, <2>3, Zenon
<1>6. fate' = [p \in Posts |->
                IF p = batch[1] THEN first
                ELSE IF \E i \in 2 .. 1 : batch[i] = p THEN "dropped"
                ELSE fate[p]]
  <2>1. ~ \E i \in 2 .. 1 : TRUE
    OBVIOUS
  <2>2. [fate EXCEPT ![chain[1]] = first] =
            [p \in Posts |-> IF p = chain[1] THEN first ELSE fate[p]]
    BY <1>1
  <2> QED
    BY <1>2, <1>4, <2>1, <2>2
<1>7. first \in {"delivered", "dropped"}
  OBVIOUS
<1> HIDE DEF first
<1> QED
  BY <1>2, <1>4, <1>5, <1>6, <1>7 DEF Mailbox!Settle, batch

LEMMA DeliverRaisesMaps ==
  ASSUME RInv, DeliverRaises
  PROVE  /\ Len(chain) \in 1 .. Len(took) - Len(done)
         /\ Mailbox!Settle(Len(chain))
<1> DEFINE n == Len(chain)
           batch == SubSeq(took, Len(done) + 1, Len(done) + n)
<1>1. /\ took \in Seq(Posts) /\ done \in Seq(Posts) /\ chain \in Seq(Posts)
      /\ fate \in [Posts -> Fates]
  BY Types DEF RInv
<1>2. /\ chain # <<>> /\ done' = done \o chain /\ took' = took
      /\ fate' = [p \in Posts |->
                    IF p = Head(chain) THEN "delivered"
                    ELSE IF \E i \in 2 .. n : chain[i] = p THEN "dropped"
                    ELSE fate[p]]
  BY DEF DeliverRaises, Walking
<1>3. n \in 1 .. n /\ n \in Nat /\ Head(chain) = chain[1] /\ 1 \in 1 .. n
  BY <1>1, <1>2
<1>4. /\ n \in 1 .. Len(took) - Len(done) /\ batch \in Seq(Posts)
      /\ Len(batch) = n /\ \A i \in 1 .. n : batch[i] = chain[i]
  BY <1>3, BatchIsChain DEF RInv
<1> HIDE DEF batch
<1>5. batch = chain
  BY <1>1, <1>3, <1>4, SeqEqual
<1>6. fate' = [p \in Posts |->
                IF p = batch[1] THEN "delivered"
                ELSE IF \E i \in 2 .. n : batch[i] = p THEN "dropped"
                ELSE fate[p]]
  BY <1>2, <1>3, <1>5
<1>7. \E first \in {"delivered", "dropped"} :
        fate' = [p \in Posts |->
                  IF p = batch[1] THEN first
                  ELSE IF \E i \in 2 .. n : batch[i] = p THEN "dropped"
                  ELSE fate[p]]
  BY <1>6
<1>8. done' = done \o batch
  BY <1>2, <1>5
<1> HIDE DEF n
<1> QED
  BY <1>2, <1>4, <1>7, <1>8 DEF Mailbox!Settle, batch, n

LEMMA StepMaps ==
  ASSUME RInv, [Next]_vars
  PROVE  [Mailbox!Next]_(Mailbox!vars)
<1>1. ASSUME NEW t \in Threads, NEW p \in Posts, NEW c \in Conns, Push(t, p, c)
      PROVE  Mailbox!Next
  BY <1>1, PushMaps DEF Mailbox!Next
<1>2. ASSUME NEW t \in Threads, HandBack(t) PROVE Mailbox!Next
  BY <1>2, HandBackMaps DEF Mailbox!Next
<1>3. CASE DeliverNext
  BY <1>3, DeliverNextMaps DEF Mailbox!Next
<1>4. CASE DeliverRaises
  BY <1>4, DeliverRaisesMaps DEF Mailbox!Next
<1>5. CASE Elsewhere
  BY <1>5, ElsewhereSame DEF Mailbox!vars
<1> QED
  BY <1>1, <1>2, <1>3, <1>4, <1>5, NextIs

(* SubmitPost keeps its promise for any number of threads, connections,    *)
(* envelopes and calls of Run: what became of the posts, as a caller sees  *)
(* it, is a behaviour of the mailbox.                                      *)
THEOREM PostsImplementMailbox == Spec => ExactlyOnceInOrder
<1>1. Spec => []IInv
  BY InductiveInvariant
<1>2. Init /\ IInv => RInv
  BY InitR
<1>3. RInv /\ IInv' /\ [Next]_vars => RInv'
  BY StepR
<1>4. Init => Mailbox!Init
  BY InitMaps
<1>5. RInv /\ [Next]_vars => [Mailbox!Next]_(Mailbox!vars)
  BY StepMaps
<1> QED
  BY <1>1, <1>2, <1>3, <1>4, <1>5, PTL DEF Spec, ExactlyOnceInOrder, Mailbox!Spec
=============================================================================
