------------------------------ MODULE WSPosts ------------------------------
(***************************************************************************)
(* Posts on the epoll transport: the locked FIFO of                        *)
(* WS.Transport.PostQueue.pas, and in WS.Transport.Epoll.pas the           *)
(* SubmitPost that fills it from any thread and wakes the reactor through  *)
(* an eventfd, the Run loop that drains it, Stop, and the Shutdown that    *)
(* stops it.                                                               *)
(*                                                                         *)
(* A step of a thread is what it does between two points where another     *)
(* thread could see the difference: one critical section, one system call  *)
(* or one OnPost.                                                          *)
(***************************************************************************)
EXTENDS Sequences, Naturals

CONSTANTS
  Threads,   \* threads that call SubmitPost
  Conns,     \* connections (by Id) a post may name
  Posts,     \* envelopes
  None,      \* no connection, no envelope
  MaxRuns    \* bound: calls of Run

ASSUME PostsAssumption == None \notin Posts /\ None \notin Conns /\ MaxRuns \in Nat

VARIABLES
  queue,     \* FHead .. FTail
  stopped,   \* FStopped
  wake,      \* the eventfd counter is not zero
  running,   \* FRunning
  pc,        \* where the reactor thread is
  once,      \* Run was called with a timeout: one round only
  chain,     \* the nodes DeliverPosts still has to walk
  tracked,   \* connections in FConns that are not closing
  target,    \* target[p]: the ConnId of envelope p
  at,        \* at[t]: what thread t is inside, for SubmitPost with holds[t]
  holds,     \* holds[t]: the envelope of that call
  stopper,   \* the thread calling Stop: "idle", "wake", "done"
  runs,      \* history: calls of Run
  fate,      \* history: what became of each envelope
  took,      \* history: envelopes Push took, in order
  done       \* history: of those, the ones handed to OnPost, in order

queueVars == <<queue, stopped>>
reactorVars == <<running, pc, once, chain, tracked, runs>>
callerVars == <<target, at, holds>>
history == <<fate, took, done>>
vars == <<queueVars, wake, reactorVars, callerVars, stopper, history>>

(* "out": Run has not been called or has returned; "poll": in epoll_wait;  *)
(* "batch": at its events; "woken": the eventfd has been read; "posts":    *)
(* delivering what the wake event drained; "end": the batch is done;       *)
(* "last": delivering what the end-of-batch sweep drained; "stopping":     *)
(* Shutdown is dropping what was pending; "down": Shutdown returned.       *)
Places == {"out", "poll", "batch", "woken", "posts", "end", "last",
           "stopping", "down"}

Fates == {"new", "refused", "queued", "delivered", "dropped"}

-----------------------------------------------------------------------------
(* SubmitPost, on any thread (the reactor's own handlers included).        *)

(* Mutant: the new node becomes the head.                                  *)
Push_Front(t, p, c) ==
  /\ at[t] = "idle" /\ fate[p] = "new" /\ ~stopped
  /\ target' = [target EXCEPT ![p] = c]
  /\ holds' = [holds EXCEPT ![t] = p]
  /\ at' = [at EXCEPT ![t] = "pushed"]
  /\ queue' = <<p>> \o queue
  /\ took' = Append(took, p)
  /\ fate' = [fate EXCEPT ![p] = "queued"]
  /\ UNCHANGED <<stopped, wake, reactorVars, stopper, done>>

(* Push, under FLock.                                                      *)
Push(t, p, c) ==
  /\ at[t] = "idle" /\ fate[p] = "new"
  /\ target' = [target EXCEPT ![p] = c]
  /\ holds' = [holds EXCEPT ![t] = p]
  /\ IF stopped
       THEN /\ at' = [at EXCEPT ![t] = "refused"]
            /\ fate' = [fate EXCEPT ![p] = "refused"]
            /\ UNCHANGED <<queue, took>>
       ELSE /\ at' = [at EXCEPT ![t] = "pushed"]
            /\ queue' = Append(queue, p)
            /\ took' = Append(took, p)
            /\ fate' = [fate EXCEPT ![p] = "queued"]
  /\ UNCHANGED <<stopped, wake, reactorVars, stopper, done>>

(* OnPost(nil, AData) on the calling thread.                               *)
HandBack(t) ==
  /\ at[t] = "refused"
  /\ at' = [at EXCEPT ![t] = "idle"]
  /\ holds' = [holds EXCEPT ![t] = None]
  /\ fate' = [fate EXCEPT ![holds[t]] = "dropped"]
  /\ UNCHANGED <<queueVars, wake, reactorVars, target, stopper, took, done>>

(* Mutant: nobody is woken.                                                *)
Wake_Silent(t) ==
  /\ at[t] = "pushed"
  /\ at' = [at EXCEPT ![t] = "idle"]
  /\ holds' = [holds EXCEPT ![t] = None]
  /\ UNCHANGED <<queueVars, wake, reactorVars, target, stopper, history>>

(* The eventfd write.                                                      *)
Wake(t) ==
  /\ at[t] = "pushed"
  /\ at' = [at EXCEPT ![t] = "idle"]
  /\ holds' = [holds EXCEPT ![t] = None]
  /\ wake' = TRUE
  /\ UNCHANGED <<queueVars, reactorVars, target, stopper, history>>

-----------------------------------------------------------------------------
(* The reactor thread: Run.                                                *)

RunStarts ==
  /\ pc = "out" /\ runs < MaxRuns
  /\ pc' = "poll" /\ running' = TRUE /\ once' \in BOOLEAN /\ runs' = runs + 1
  /\ UNCHANGED <<queueVars, wake, chain, tracked, callerVars, stopper, history>>

(* epoll_wait returns: for the eventfd, or for traffic or because the time *)
(* of Run is up.  Traffic may close connections, and the eventfd's event   *)
(* may follow it in the same batch.                                        *)
PollWoken ==
  /\ pc = "poll" /\ wake
  /\ pc' = "batch"
  /\ UNCHANGED <<queueVars, wake, running, once, chain, tracked, runs,
                 callerVars, stopper, history>>

PollTraffic ==
  /\ pc = "poll"
  /\ pc' = "end" \/ (wake /\ pc' = "batch")
  /\ tracked' \in SUBSET tracked
  /\ UNCHANGED <<queueVars, wake, running, once, chain, runs, callerVars,
                 stopper, history>>

ReadWake ==
  /\ pc = "batch"
  /\ pc' = "woken" /\ wake' = FALSE
  /\ UNCHANGED <<queueVars, running, once, chain, tracked, runs, callerVars,
                 stopper, history>>

(* Detach: the whole chain changes hands in one critical section.          *)
Drain ==
  /\ pc = "woken"
  /\ pc' = "posts" /\ chain' = queue /\ queue' = <<>>
  /\ UNCHANGED <<stopped, wake, running, once, tracked, runs, callerVars,
                 stopper, history>>

(* One node of the chain: the table is searched for its id, OnPost runs    *)
(* with what was found, and the handler may close any connection.          *)
Walking == pc \in {"posts", "last", "stopping"} /\ chain # <<>>

Found(p) == pc # "stopping" /\ target[p] \in tracked

DeliverNext ==
  LET p == Head(chain) IN
  /\ Walking
  /\ chain' = Tail(chain)
  /\ done' = Append(done, p)
  /\ fate' = [fate EXCEPT ![p] = IF Found(p) THEN "delivered" ELSE "dropped"]
  /\ IF Found(p) THEN tracked' \in SUBSET tracked ELSE UNCHANGED tracked
  /\ UNCHANGED <<queueVars, wake, running, pc, once, runs, callerVars, stopper,
                 took>>

(* An OnPost that raises unwinds Run; the rest of the chain is handed back *)
(* as dropped.                                                             *)
DeliverRaises ==
  /\ Walking /\ Found(Head(chain))
  /\ chain' = <<>>
  /\ done' = done \o chain
  /\ fate' = [p \in Posts |->
                IF p = Head(chain) THEN "delivered"
                ELSE IF \E i \in 2 .. Len(chain) : chain[i] = p THEN "dropped"
                ELSE fate[p]]
  /\ pc' = "out"
  /\ UNCHANGED <<queueVars, wake, running, once, tracked, runs, callerVars,
                 stopper, took>>

PostsDone ==
  /\ pc = "posts" /\ chain = <<>>
  /\ pc' = "end"
  /\ UNCHANGED <<queueVars, wake, running, once, chain, tracked, runs,
                 callerVars, stopper, history>>

(* The backstop at the end of a batch: HasPending, then Drain.             *)
Sweep ==
  /\ pc = "end"
  /\ pc' = "last" /\ chain' = queue /\ queue' = <<>>
  /\ UNCHANGED <<stopped, wake, running, once, tracked, runs, callerVars,
                 stopper, history>>

(* Mutant: the eventfd is read after the last drain.                       *)
LoopTest_ReadsWake ==
  /\ pc = "last" /\ chain = <<>>
  /\ pc' = IF running /\ ~once THEN "poll" ELSE "out"
  /\ wake' = FALSE
  /\ UNCHANGED <<queueVars, running, once, chain, tracked, runs, callerVars,
                 stopper, history>>

LoopTest ==
  /\ pc = "last" /\ chain = <<>>
  /\ pc' = IF running /\ ~once THEN "poll" ELSE "out"
  /\ UNCHANGED <<queueVars, wake, running, once, chain, tracked, runs,
                 callerVars, stopper, history>>

-----------------------------------------------------------------------------
(* Stop, from any thread, and Shutdown, with Run returned.                 *)

StopFlag ==
  /\ stopper = "idle"
  /\ stopper' = "wake" /\ running' = FALSE
  /\ UNCHANGED <<queueVars, wake, pc, once, chain, tracked, runs, callerVars,
                 history>>

StopWake ==
  /\ stopper = "wake"
  /\ stopper' = "done" /\ wake' = TRUE
  /\ UNCHANGED <<queueVars, reactorVars, callerVars, history>>

(* Mutant: the queue is emptied and still takes posts.                     *)
Shutdown_StillOpen ==
  /\ pc = "out"
  /\ pc' = "stopping" /\ chain' = queue /\ queue' = <<>>
  /\ UNCHANGED <<stopped, wake, running, once, tracked, runs, callerVars,
                 stopper, history>>

(* TWSPostQueue.Stop, under FLock.                                         *)
Shutdown ==
  /\ pc = "out"
  /\ pc' = "stopping" /\ stopped' = TRUE /\ chain' = queue /\ queue' = <<>>
  /\ UNCHANGED <<wake, running, once, tracked, runs, callerVars, stopper,
                 history>>

ShutdownDone ==
  /\ pc = "stopping" /\ chain = <<>>
  /\ pc' = "down" /\ tracked' = {}
  /\ UNCHANGED <<queueVars, wake, running, once, chain, runs, callerVars,
                 stopper, history>>

-----------------------------------------------------------------------------

Init ==
  /\ queue = <<>> /\ stopped = FALSE /\ wake = FALSE /\ running = FALSE
  /\ pc = "out" /\ once = FALSE /\ chain = <<>> /\ tracked = Conns /\ runs = 0
  /\ target = [p \in Posts |-> None]
  /\ at = [t \in Threads |-> "idle"]
  /\ holds = [t \in Threads |-> None]
  /\ stopper = "idle"
  /\ fate = [p \in Posts |-> "new"] /\ took = <<>> /\ done = <<>>

Caller(t) == HandBack(t) \/ Wake(t)

(* The reactor thread's own steps, once Run has been called.               *)
Reactor ==
  \/ PollWoken \/ ReadWake \/ Drain \/ DeliverNext \/ PostsDone \/ Sweep
  \/ LoopTest \/ ShutdownDone

Next ==
  \/ \E t \in Threads, p \in Posts, c \in Conns : Push(t, p, c)
  \/ \E t \in Threads : HandBack(t) \/ Wake(t)
  \/ RunStarts \/ PollWoken \/ PollTraffic \/ ReadWake \/ Drain
  \/ DeliverNext \/ DeliverRaises \/ PostsDone \/ Sweep \/ LoopTest
  \/ StopFlag \/ StopWake \/ Shutdown \/ ShutdownDone

Spec == Init /\ [][Next]_vars

(* Every thread that is not blocked takes its next step: posting threads   *)
(* finish their call, the reactor its round.                               *)
FairSpec ==
  /\ Spec
  /\ WF_vars(Reactor)
  /\ WF_vars(StopWake)
  /\ \A t \in Threads : WF_vars(Caller(t))

-----------------------------------------------------------------------------
(* Properties.                                                             *)

Occurs(p, s) == \E i \in 1 .. Len(s) : s[i] = p

(* Every variable of the hand-off keeps its type.                          *)
TypeOK ==
  /\ queue \in Seq(Posts) /\ stopped \in BOOLEAN
  /\ wake \in BOOLEAN /\ running \in BOOLEAN /\ once \in BOOLEAN
  /\ pc \in Places /\ chain \in Seq(Posts) /\ tracked \in SUBSET Conns
  /\ runs \in Nat
  /\ target \in [Posts -> Conns \union {None}]
  /\ at \in [Threads -> {"idle", "refused", "pushed"}]
  /\ holds \in [Threads -> Posts \union {None}]
  /\ stopper \in {"idle", "wake", "done"}
  /\ fate \in [Posts -> Fates]
  /\ took \in Seq(Posts) /\ done \in Seq(Posts)

(* No node is lost, duplicated or reordered by the hand-off: what Push     *)
(* took is what OnPost has had, what the reactor holds and what is still   *)
(* queued, in this order, and no envelope is taken twice.                  *)
HandOffExact ==
  /\ took = done \o (chain \o queue)
  /\ \A i, j \in 1 .. Len(took) : took[i] = took[j] => i = j

(* The wake is never lost: a reactor parked in epoll_wait with a post      *)
(* queued, or told to stop, has a wake in the eventfd or one about to be   *)
(* written.                                                                *)
NoLostWake ==
  pc = "poll" =>
    /\ queue # <<>> => wake \/ \E t \in Threads : at[t] = "pushed"
    /\ ~running => wake \/ stopper = "wake"

(* Once Shutdown has returned nothing is pending and nothing can become    *)
(* so: every envelope went back through OnPost or is going back on the     *)
(* thread that posted it.                                                  *)
NothingLeaked ==
  pc = "down" => \A p \in Posts : fate[p] # "queued"

(* The inductive invariant of the hand-off.  Beside what is to be shown it *)
(* says where a node can be: nothing taken counts as new, a post still     *)
(* queued is in the chain or in the queue, a stopped queue is empty, the   *)
(* reactor holds a chain only where it walks one, and whoever has to be    *)
(* woken for a queued post is still to be.                                 *)
NewUntaken == \A i \in 1 .. Len(took) : fate[took[i]] # "new"

QueuedHeld ==
  \A p \in Posts : fate[p] = "queued" => Occurs(p, chain) \/ Occurs(p, queue)

ChainPlace == pc \notin {"posts", "last", "stopping"} => chain = <<>>

StoppedEmpty == stopped => queue = <<>>

DownStopped == pc \in {"stopping", "down"} => stopped

WakePending ==
  /\ queue # <<>> => \/ wake \/ pc = "woken"
                     \/ \E t \in Threads : at[t] = "pushed"
  /\ pc = "poll" /\ ~running => wake \/ stopper = "wake"

IInv ==
  /\ TypeOK /\ HandOffExact
  /\ NewUntaken /\ QueuedHeld /\ ChainPlace /\ StoppedEmpty /\ DownStopped
  /\ WakePending

(* The exactly-once, per-caller FIFO promise of SubmitPost.                *)
Mailbox == INSTANCE WSMailbox

ExactlyOnceInOrder == Mailbox!Spec

(* An accepted post is settled unless Run returns first (Shutdown settles  *)
(* it then); a refused one always.                                         *)
PostsSettle ==
  \A p \in Posts :
    /\ fate[p] = "queued" ~> fate[p] \in {"delivered", "dropped"} \/ pc = "out"
    /\ fate[p] = "refused" ~> fate[p] = "dropped"

(* "Thread-safe. Unblocks Run" (TWSTransport.Stop, WS.Transport.pas).      *)
StopUnblocksRun ==
  stopper = "done" ~> pc \in {"out", "stopping", "down"}
=============================================================================
