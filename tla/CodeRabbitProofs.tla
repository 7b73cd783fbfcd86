-------------------------- MODULE CodeRabbitProofs --------------------------
(***************************************************************************)
(* Theorems about CodeRabbitRun.                                           *)
(***************************************************************************)
EXTENDS CodeRabbitRun, SequenceTheorems, FiniteSetTheorems, WellFoundedInduction, TLAPS

\* A history of statuses until t: oldest first.
Statuses == [at : Nat, kind : StatusKinds]
History(h, t) ==
    /\ h \in Seq(Statuses)
    /\ \A i \in DOMAIN h : 2 <= h[i].at /\ h[i].at <= t
    /\ \A i, j \in DOMAIN h : i <= j => h[i].at <= h[j].at

\* A pull request until t: only its ready and force-push events have times of their own.
PullRequests ==
    [head : {Sha, OtherSha}, open : BOOLEAN, draft : BOOLEAN, suites : BOOLEAN,
     committed : {1}, pushed : {2}, opened : {1}, ready : Nat, moved : Nat]
PullRequest(p, t) == p \in PullRequests /\ p.ready <= t /\ p.moved <= t

\* What CodeRabbit is doing at t.
CodeRabbit(b, t) ==
    /\ b = [doing |-> b.doing, since |-> b.since, stated |-> b.stated,
            ended |-> b.ended, lost |-> b.lost]
    /\ b.doing \in {"idle", "head", "closing", "earlier", "refusing"}
    /\ b.since \in Nat /\ 1 <= b.since /\ b.since <= t
    /\ b.ended \in Nat /\ b.lost \in BOOLEAN

Typed ==
    /\ world \in Worlds /\ now \in Nat /\ now >= 2
    /\ History(statuses, now) /\ PullRequest(pull, now)
    /\ findings \in Nat /\ findings <= now
    /\ CodeRabbit(bot, now)

Version_ == [at : Nat, busy : BOOLEAN, wait : Nat, full : BOOLEAN, clean : BOOLEAN]
Versions ==
    /\ summary \in Seq(Version_)
    /\ \A i \in DOMAIN summary :
         summary[i].at <= now /\ summary[i].wait \in {0} \union world.waits

\* The trigger commands c until t, each numbered by its place.
Commands(c, t) ==
    /\ c \in Seq(ToSet(c))
    /\ \A i \in DOMAIN c : c[i].id = i /\ c[i].at \in Nat /\ 2 <= c[i].at /\ c[i].at <= t
    /\ \A i, j \in DOMAIN c : i <= j => c[i].at <= c[j].at
Comments == Commands(triggers, now)

Working == {"read", "rest", "post", "sleep"}
Fields == {"pc", "wake", "posted", "pull", "n", "ev", "item", "reviewing", "earlier"}
Process(r) ==
    /\ DOMAIN run[r] = Fields
    /\ run[r].pc \in {"lock", "done", "dead"} \union Working
    /\ run[r].pc \in Working <=> lock = r
    /\ run[r].pc \in {"lock", "sleep", "read", "rest"} => run[r].item.state = "pending"
    /\ run[r].posted \subseteq ToSet(triggers)
    /\ run[r].pc \notin {"done", "dead"} =>
         \A i \in DOMAIN triggers : triggers[i].by = r => triggers[i] \in run[r].posted

\* On a head that others may share: from its newest pending status, set at time
\* at, nothing came that can end the review; and from some pending status since
\* at, nothing that ends it.
InReview(h, at, shared) ==
    \E i \in DOMAIN h :
        /\ h[i].kind = "in-progress" /\ h[i].at = at
        /\ \A j \in i + 1 .. Len(h) : shared /\ h[j].kind = "skipped"
Ends(shared) == {"completed", "paused", "draft-skip"} \union (IF shared THEN {} ELSE {"skipped"})
Unfinished(h, at, shared) ==
    \E i \in DOMAIN h : /\ h[i].kind = "in-progress" /\ h[i].at >= at
                        /\ \A j \in i + 1 .. Len(h) : h[j].kind \notin Ends(shared)

Bot ==
    /\ bot.doing = "earlier" =>
         /\ Len(summary) = 1 /\ summary[1].busy /\ summary[1].at = 1
    /\ bot.ended >= findings
    /\ \A i \in DOMAIN statuses : statuses[i].kind = "completed" => bot.ended >= statuses[i].at
    /\ OwnDraftSkips =>
         /\ bot.doing = "head" => InReview(statuses, bot.since, Shared) /\ findings <= bot.since
         /\ bot.doing = "closing" => ~bot.lost
         /\ bot.lost => Unfinished(statuses, findings, Shared)

Resting(r) ==
    run[r].pc = "rest" =>
        /\ run[r].n \in 0 .. Len(statuses)
        /\ run[r].reviewing \in Nat
        /\ PullRequest(run[r].pull, now)
        /\ OwnDraftSkips /\ run[r].reviewing # 0 =>
             InReview(SubSeq(statuses, 1, run[r].n), run[r].reviewing, Shared)

\* A trigger that something has followed.
Followed(t, h, p) ==
    \/ \E k \in DOMAIN h : t.at < h[k].at
    \/ t.at < p.ready \/ t.at < p.moved

\* Where a trigger is decided, whoever can be seen to have posted one was answered.
Posting(r) ==
    run[r].pc = "post" =>
        \A i \in DOMAIN triggers :
            triggers[i].by \in Run /\ (Lag = 0 \/ triggers[i].by = r) =>
                Followed(triggers[i], statuses, pull)

\* What TriggerWhenIdle says of one process, and NoRepeatedTrigger of two triggers.
Idle(r) ==
    run[r].pc = "post" =>
        /\ OwnDraftSkips => run[r].reviewing = 0
        /\ run[r].earlier => \/ Newest(run[r].ev.history).at >= run[r].ev.start
                             \/ run[r].wake >= run[r].ev.start + InProgress
Answered(a, b, h, p) ==
    \/ \E k \in DOMAIN h : a.at < h[k].at /\ h[k].at <= b.at
    \/ a.at < p.ready \/ a.at < p.moved
Repeats(c, i, j) ==
    i < j /\ c[i].by \in Run /\ c[j].by \in Run /\ (Lag = 0 \/ c[i].by = c[j].by)
Unrepeated ==
    \A i, j \in DOMAIN triggers :
        Repeats(triggers, i, j) => Answered(triggers[i], triggers[j], statuses, pull)

Shown == Typed /\ Versions /\ Comments /\ Bot
Running(r) == Process(r) /\ Resting(r) /\ Posting(r) /\ Idle(r)
CInv == Shown /\ DOMAIN run = Run /\ (\A r \in Run : Running(r)) /\ Unrepeated
-----------------------------------------------------------------------------
(* decide(). *)

LEMMA ResultState == \A state, mode, wake : Result(state, mode, wake).state = state
BY DEF Result

LEMMA PendingState == Result("pending", "", 0).state = "pending"
BY DEF Result

LEMMA BoundedState ==
  \A pending, blocked, since, seconds, mode, t :
    Bounded(pending, blocked, since, seconds, mode, t).state \in {pending, blocked}
BY ResultState DEF Result, Bounded

GateStates == TriggerStates \union
    {"rate-limited-unknown-wait", "blocked-unknown-wait", "blocked-no-capacity", "waiting"}

LEMMA GateState ==
  ASSUME NEW ev, NEW status, NEW mode, NEW t
  PROVE  Gate(ev, status, mode, t).state \in GateStates
<1>1. TriggerState(mode) \in TriggerStates
  BY DEF TriggerState, TriggerStates
<1>2. CASE status.kind = "rate-limited" /\ ~ev.refusal.wait
  BY <1>2, BoundedState DEF Gate, GateStates
<1>3. CASE status.kind = "rate-limited" /\ ev.refusal.wait /\ ev.refusal.full
  BY <1>3, ResultState DEF Result, Gate, GateStates
<1>4. CASE status.kind = "rate-limited" /\ ev.refusal.wait /\ ~ev.refusal.full
           /\ ev.refusal.retryAt > t
  BY <1>4, ResultState DEF Result, Gate, GateStates
<1>5. CASE /\ ~(status.kind = "rate-limited" /\ ~ev.refusal.wait)
           /\ ~(status.kind = "rate-limited" /\ ev.refusal.full)
           /\ ~(status.kind = "rate-limited" /\ ev.refusal.retryAt > t)
  BY <1>1, <1>5, ResultState DEF Result, Gate, GateStates
<1> QED
  BY <1>2, <1>3, <1>4, <1>5

LEMMA StatusState ==
  ASSUME NEW ev, NEW status, NEW T, NEW t
  PROVE  DecideStatus(ev, status, T, t).state \notin CompleteStates
<1> DEFINE d == DecideStatus(ev, status, T, t)
<1>1. \A mode : Gate(ev, status, mode, t).state \notin CompleteStates
  BY GateState DEF CompleteStates, TriggerStates, GateStates
<1>2. CASE status.kind \in {"none", "draft-skip"}
  BY <1>1, <1>2 DEF DecideStatus
<1>3. CASE status.kind = "lock-loss"
  BY <1>1, <1>3, ResultState DEF Result, DecideStatus, CompleteStates
<1>4. CASE status.kind \in {"skipped", "paused"}
  BY <1>4, ResultState DEF Result, DecideStatus, CompleteStates
<1>5. CASE status.kind = "rate-limited"
  BY <1>1, <1>5 DEF DecideStatus
<1>6. CASE status.kind = "completed"
  BY <1>1, <1>6, ResultState DEF Result, DecideStatus, CompleteStates
<1>7. CASE status.kind \notin {"none", "draft-skip", "lock-loss", "skipped", "paused",
                               "rate-limited", "completed"}
  BY <1>7, ResultState DEF Result, DecideStatus, CompleteStates
<1> QED
  BY <1>2, <1>3, <1>4, <1>5, <1>6, <1>7

\* The triggers of this cycle, what the newest says of the status, and how
\* decide() takes its branches: by the first condition that holds.
Cycle(ev) == {u \in ev.triggers : u.at >= ev.start}
TriggerNewer(ev) == Cycle(ev) # {} /\ Latest(Cycle(ev)).at >= CurrentStatus(ev).at
Unreviewed(ev) == CurrentStatus(ev).kind \in {"none", "draft-skip"}
Expecting(ev, t) ==
    (Unreviewed(ev) \/ ev.start > CurrentStatus(ev).at) /\ t < AwaitUntil(ev)

LEMMA Branches ==
  ASSUME NEW ev, NEW x, NEW t
  PROVE  LET d == Decide(ev, x, t)
             status == CurrentStatus(ev)
         IN
         \/ d.state \in {"invalidated", "closed"}
         \/ /\ d.state = "review-complete"
            /\ ev.findings > ReviewedSince(ev)
            /\ status.kind = "in-progress" => ev.findings > status.at
         \/ /\ status.kind = "in-progress" /\ ~TriggerNewer(ev)
            /\ d = Bounded("in-progress", "blocked-stalled",
                           Max({status.at, ev.start}), InProgress, "", t)
         \/ /\ d.state = "clean-complete"
            /\ CompletedAt(ev) > ReviewedSince(ev)
         \/ d.state = "draft"
         \/ /\ TriggerNewer(ev)
            /\ d = Bounded("triggered", "blocked-unanswered", Latest(Cycle(ev)).at,
                           Answer, "", t)
         \/ Expecting(ev, t) /\ d.state = "awaiting-automatic" /\ d.wake = AwaitUntil(ev)
         \/ /\ status.kind # "in-progress" /\ ~TriggerNewer(ev) /\ ~Expecting(ev, t)
            /\ d = DecideStatus(ev, status, Cycle(ev), t)
<1> DEFINE d == Decide(ev, x, t)
           status == CurrentStatus(ev)
           newer == TriggerNewer(ev)
           unreviewed == Unreviewed(ev)
           since == ReviewedSince(ev)
           reviewed == ev.findings > since /\ (status.kind = "in-progress" => ev.findings > status.at)
           clean == ev.clean /\ CompletedAt(ev) > since
           early == Expecting(ev, t)
<1>1. CASE ev.head # x
  BY <1>1, ResultState DEF Result, Decide, TriggerNewer, Unreviewed, Expecting, Cycle
<1>2. CASE ev.head = x /\ ~ev.open
  BY <1>2, ResultState DEF Result, Decide, TriggerNewer, Unreviewed, Expecting, Cycle
<1>3. CASE ev.head = x /\ ev.open /\ reviewed
  BY <1>3, ResultState DEF Result, Decide, TriggerNewer, Unreviewed, Expecting, Cycle
<1>4. CASE ev.head = x /\ ev.open /\ ~reviewed /\ status.kind = "in-progress" /\ ~newer
  BY <1>4 DEF Decide, TriggerNewer, Unreviewed, Expecting, Cycle
<1>5. CASE /\ ev.head = x /\ ev.open /\ ~reviewed /\ ~(status.kind = "in-progress" /\ ~newer)
           /\ clean
  BY <1>5, ResultState DEF Result, Decide, TriggerNewer, Unreviewed, Expecting, Cycle
<1>6. CASE /\ ev.head = x /\ ev.open /\ ~reviewed /\ ~(status.kind = "in-progress" /\ ~newer)
           /\ ~clean /\ unreviewed /\ ev.draft
  BY <1>6, ResultState DEF Result, Decide, TriggerNewer, Unreviewed, Expecting, Cycle
<1>7. CASE /\ ev.head = x /\ ev.open /\ ~reviewed /\ ~(status.kind = "in-progress" /\ ~newer)
           /\ ~clean /\ ~(unreviewed /\ ev.draft) /\ newer
  BY <1>7 DEF Decide, TriggerNewer, Unreviewed, Expecting, Cycle
<1>8. CASE /\ ev.head = x /\ ev.open /\ ~reviewed /\ ~(status.kind = "in-progress" /\ ~newer)
           /\ ~clean /\ ~(unreviewed /\ ev.draft) /\ ~newer /\ early
  BY <1>8, ResultState DEF Result, Decide, TriggerNewer, Unreviewed, Expecting, Cycle
<1>9. CASE /\ ev.head = x /\ ev.open /\ ~reviewed /\ ~(status.kind = "in-progress" /\ ~newer)
           /\ ~clean /\ ~(unreviewed /\ ev.draft) /\ ~newer /\ ~early
  BY <1>9 DEF Decide, TriggerNewer, Unreviewed, Expecting, Cycle
<1> QED
  BY <1>1, <1>2, <1>3, <1>4, <1>5, <1>6, <1>7, <1>8, <1>9

\* What a permitted trigger says of the evidence.
LEMMA TriggerDecided ==
  ASSUME NEW ev, NEW x, NEW t, Decide(ev, x, t).state \in TriggerStates
  PROVE  CurrentStatus(ev).kind # "in-progress" /\ ~TriggerNewer(ev) /\ ~Expecting(ev, t)
<1>1. Decide(ev, x, t).state \notin {"invalidated", "closed", "review-complete", "in-progress",
         "blocked-stalled", "clean-complete", "draft", "triggered", "blocked-unanswered",
         "awaiting-automatic"}
  BY DEF TriggerStates
<1>2. Bounded("in-progress", "blocked-stalled", Max({CurrentStatus(ev).at, ev.start}),
              InProgress, "", t).state \in {"in-progress", "blocked-stalled"}
  BY BoundedState
<1>3. Bounded("triggered", "blocked-unanswered", Latest(Cycle(ev)).at, Answer, "", t).state
        \in {"triggered", "blocked-unanswered"}
  BY BoundedState
<1> QED
  BY <1>1, <1>2, <1>3, Branches

\* What completion says of it.
LEMMA CompleteDecided ==
  ASSUME NEW ev, NEW x, NEW t, Decide(ev, x, t).state \in CompleteStates
  PROVE  \/ ev.findings > ReviewedSince(ev)
         \/ CompletedAt(ev) > ReviewedSince(ev)
<1>1. Decide(ev, x, t).state \notin {"invalidated", "closed", "in-progress", "blocked-stalled",
         "draft", "triggered", "blocked-unanswered", "awaiting-automatic"}
  BY DEF CompleteStates
<1>2. Bounded("in-progress", "blocked-stalled", Max({CurrentStatus(ev).at, ev.start}),
              InProgress, "", t).state \in {"in-progress", "blocked-stalled"}
  BY BoundedState
<1>3. Bounded("triggered", "blocked-unanswered", Latest(Cycle(ev)).at, Answer, "", t).state
        \in {"triggered", "blocked-unanswered"}
  BY BoundedState
<1>4. DecideStatus(ev, CurrentStatus(ev), Cycle(ev), t).state \notin CompleteStates
  BY StatusState
<1> QED
  BY <1>1, <1>2, <1>3, <1>4, Branches

-----------------------------------------------------------------------------
(* Times. *)

LEMMA Least ==
  ASSUME NEW S \in SUBSET Nat, S # {}
  PROVE  Min(S) \in S /\ \A x \in S : Min(S) <= x
<1> DEFINE R == {p \in Nat \X Nat : p[1] < p[2]}
<1>1. IsWellFoundedOn(R, Nat)
  BY NatLessThanWellFounded DEF OpToRel
<1> HIDE DEF R
<1>2. PICK x \in S : \A y \in S : ~(<<y, x>> \in R)
  BY <1>1, WFMin
<1>3. \A y \in S : x <= y
  <2> TAKE y \in S
  <2>1. y < x => <<y, x>> \in R
    BY DEF R
  <2> QED
    BY <1>2, <2>1
<1> QED
  BY <1>3 DEF Min

LEMMA Greatest ==
  ASSUME NEW S \in SUBSET Nat, S # {}, NEW n \in Nat, \A x \in S : x <= n
  PROVE  Max(S) \in S /\ \A x \in S : x <= Max(S)
<1> DEFINE T == {n - x : x \in S}
<1>1. T \in SUBSET Nat /\ T # {}
  <2>1. \A x \in S : n - x \in Nat
    OBVIOUS
  <2> QED
    BY <2>1
<1> DEFINE y == Min(T)
<1>2. y \in T /\ \A z \in T : y <= z
  BY <1>1, Least
<1> HIDE DEF y
<1>3. PICK m \in S : y = n - m
  BY <1>2
<1>4. \A x \in S : m >= x
  BY <1>2, <1>3
<1> QED
  BY <1>4 DEF Max

\* A bounded set of times stays bounded with one more.
LEMMA FiniteBound ==
  ASSUME NEW S \in SUBSET Nat, IsFiniteSet(S)
  PROVE  \E n \in Nat : \A x \in S : x <= n
<1>1. PICK m \in Nat : \E f : f \in Surjection(1 .. m, S)
  BY FS_NatSurjection DEF ExistsSurjection
<1>2. PICK f : f \in Surjection(1 .. m, S)
  BY <1>1
<1>3. f \in [1 .. m -> S] /\ \A x \in S : \E i \in 1 .. m : f[i] = x
  BY <1>2 DEF Surjection
<1>4. \A i \in 1 .. m : f[i] \in Nat
  <2>1. f \in [1 .. m -> Nat]
    BY <1>3
  <2> QED
    BY <2>1
<1> DEFINE B(k) == \E n \in Nat : \A i \in 1 .. k : f[i] <= n
           Bad == {k \in Nat : k <= m /\ ~B(k)}
<1>5. Bad = {}
  <2> SUFFICES ASSUME Bad # {} PROVE FALSE
    OBVIOUS
  <2> DEFINE k == Min(Bad)
  <2>1. k \in Bad /\ \A x \in Bad : k <= x
    <3>1. Bad \in SUBSET Nat
      OBVIOUS
    <3> HIDE DEF Bad
    <3> QED
      BY <3>1, Least
  <2> HIDE DEF k, B
  <2>2. B(0)
    <3>1. \A i \in 1 .. 0 : f[i] <= 0
      OBVIOUS
    <3> QED
      BY <3>1 DEF B
  <2>3. k \in Nat /\ k <= m /\ ~B(k) /\ k # 0 /\ k - 1 \in Nat
    BY <2>1, <2>2
  <2>4. B(k - 1)
    BY <2>1, <2>3
  <2>5. PICK n \in Nat : \A i \in 1 .. k - 1 : f[i] <= n
    BY <2>4 DEF B
  <2>6. \A i \in 1 .. k : f[i] \in Nat
    BY <1>4, <2>3
  <2>7. f[k] \in Nat
    <3>1. k \in 1 .. k
      BY <2>3
    <3> QED
      BY <2>6, <3>1
  <2>8. \A i \in 1 .. k : f[i] <= n + f[k]
    <3> TAKE i \in 1 .. k
    <3>1. i = k \/ i \in 1 .. k - 1
      BY <2>3
    <3> QED
      BY <2>5, <2>6, <2>7, <3>1
  <2> QED
    BY <2>3, <2>8, <2>7 DEF B
<1> HIDE DEF B
<1>6. B(m)
  BY <1>5
<1> QED
  BY <1>3, <1>6 DEF B

\* The latest of some triggers.
LEMMA LatestOf ==
  ASSUME NEW c, NEW t, Commands(c, t), NEW S, S \subseteq ToSet(c), S # {}
  PROVE  Latest(S) \in S /\ \A u \in S : u.at <= Latest(S).at
<1> DEFINE T == {i \in DOMAIN c : c[i] \in S}
           m == Max(T)
<1>1. DOMAIN c = 1 .. Len(c) /\ Len(c) \in Nat
  BY DEF Commands
<1>2. m \in T /\ \A i \in T : i <= m
  <2>1. T \in SUBSET Nat /\ T # {} /\ \A i \in T : i <= Len(c)
    BY <1>1 DEF ToSet
  <2> HIDE DEF T
  <2> QED
    BY <1>1, <2>1, Greatest
<1> HIDE DEF m
<1>3. \A u \in S : \E i \in T : u = c[i]
  BY <1>1 DEF ToSet
<1>4. \A u \in S : u.at < c[m].at \/ (u.at = c[m].at /\ u.id <= c[m].id)
  <2> TAKE u \in S
  <2>1. PICK i \in T : u = c[i]
    BY <1>3
  <2>2. i <= m /\ i \in DOMAIN c /\ m \in DOMAIN c
    BY <1>2, <2>1
  <2> QED
    BY <1>1, <2>1, <2>2 DEF Commands
<1>5. c[m] \in S
  BY <1>2
<1> DEFINE l == Latest(S)
<1>6. l \in S /\ \A u \in S : u.at < l.at \/ (u.at = l.at /\ u.id <= l.id)
  BY <1>4, <1>5 DEF Latest
<1> HIDE DEF l
<1>7. \A u \in S : u.at \in Nat
  BY <1>3 DEF Commands
<1> QED
  BY <1>6, <1>7 DEF l

-----------------------------------------------------------------------------
(* The evidence. *)

LEMMA Greater ==
  ASSUME NEW a \in Nat, NEW b \in Nat
  PROVE  Max({a, b}) = IF a >= b THEN a ELSE b
<1>1. Max({a, b}) \in {a, b} /\ \A x \in {a, b} : x <= Max({a, b})
  <2>1. {a, b} \in SUBSET Nat /\ {a, b} # {} /\ a + b \in Nat /\ \A x \in {a, b} : x <= a + b
    OBVIOUS
  <2> QED
    BY <2>1, Greatest
<1> QED
  BY <1>1

\* When the head arrived and when the automatic review may start, as far as
\* the pull request, its history and its timeline until t say.
Arrived(p, h, tl) == Max({FirstArrival(p, h), tl.moved})
Started(p, h, tl) == Max({Arrived(p, h, tl), 1, tl.ready})

LEMMA Arrival ==
  ASSUME NEW t \in Nat, t >= 2, NEW p, PullRequest(p, t), NEW tl, PullRequest(tl, t),
         NEW h, History(h, t)
  PROVE  /\ Arrived(p, h, tl) \in Nat /\ Started(p, h, tl) \in Nat
         /\ 1 <= Arrived(p, h, tl) /\ Arrived(p, h, tl) <= Started(p, h, tl)
         /\ Started(p, h, tl) <= t
         /\ tl.moved <= Arrived(p, h, tl) /\ tl.ready <= Started(p, h, tl)
         /\ \/ Arrived(p, h, tl) \in {1, 2, tl.moved}
            \/ \E i \in DOMAIN h : Arrived(p, h, tl) = h[i].at
         /\ Started(p, h, tl) \in {Arrived(p, h, tl), 1, tl.ready}
<1> DEFINE f == FirstArrival(p, h)
           a == Arrived(p, h, tl)
<1>1. /\ f \in Nat /\ 1 <= f /\ f <= t
      /\ f \in {1, 2} \/ \E i \in DOMAIN h : f = h[i].at
  <2>1. p.pushed = 2 /\ p.committed = 1 /\ p.suites \in BOOLEAN
    BY DEF PullRequest, PullRequests
  <2>2. CASE p.suites
    BY <2>1, <2>2 DEF FirstArrival
  <2>3. CASE ~p.suites /\ h # <<>>
    <3>1. 1 \in DOMAIN h /\ h[1] \in Statuses
      BY <2>3 DEF History
    <3>2. h[1].at \in Nat
      BY <3>1 DEF Statuses
    <3>3. 2 <= h[1].at /\ h[1].at <= t
      BY <3>1 DEF History
    <3> QED
      BY <2>3, <3>1, <3>2, <3>3 DEF FirstArrival
  <2>4. CASE ~p.suites /\ h = <<>>
    BY <2>1, <2>4 DEF FirstArrival
  <2> QED
    BY <2>1, <2>2, <2>3, <2>4
<1>2. tl.moved \in Nat /\ tl.moved <= t /\ tl.ready \in Nat /\ tl.ready <= t
  BY DEF PullRequest, PullRequests
<1> HIDE DEF f
<1>3. a = IF f >= tl.moved THEN f ELSE tl.moved
  BY <1>1, <1>2, Greater DEF Arrived, f
<1>4. a \in Nat /\ 1 <= a /\ a <= t /\ tl.moved <= a
  BY <1>1, <1>2, <1>3
<1>5. a \in {1, 2, tl.moved} \/ \E i \in DOMAIN h : a = h[i].at
  BY <1>1, <1>3
<1> HIDE DEF a
<1> DEFINE m == Max({a, 1, tl.ready})
<1>6. m \in {a, 1, tl.ready} /\ \A x \in {a, 1, tl.ready} : x <= m
  <2>1. {a, 1, tl.ready} \in SUBSET Nat /\ {a, 1, tl.ready} # {} /\ \A x \in {a, 1, tl.ready} : x <= t
    BY <1>2, <1>4
  <2> QED
    BY <2>1, Greatest
<1> HIDE DEF m
<1>7. m \in Nat /\ a <= m /\ m <= t /\ tl.ready <= m
  BY <1>2, <1>4, <1>6
<1> QED
  BY <1>4, <1>5, <1>6, <1>7 DEF Started, m, a

Evidence(p, h, tl, s, f, listed, shared, posted) ==
    WithPosted(PullEvidence(p, h, tl, s, f, listed, shared), posted)

LEMMA EvidenceFields ==
  ASSUME NEW t, NEW p, PullRequest(p, t), NEW tl, PullRequest(tl, t), NEW h, NEW s, NEW f,
         NEW listed, NEW shared, NEW posted, NEW ev,
         ev = Evidence(p, h, tl, s, f, listed, shared, posted)
  PROVE  /\ ev.history = h /\ ev.findings = f /\ ev.shared = shared
         /\ ev.arrival = Arrived(p, h, tl) /\ ev.start = Started(p, h, tl)
         /\ ev.triggers = HeadTriggers(listed, Arrived(p, h, tl)) \union posted
         /\ ev.clean = CleanReview(s)
         /\ ev.earlier = IF Newest(h).kind = "none" \/ Newest(h).at < Started(p, h, tl)
                         THEN EarlierReview(s, Started(p, h, tl)) ELSE NoEarlier
         /\ ev.refusal = IF Newest(h).kind = "rate-limited"
                         THEN CorrelatedWait(s, Newest(h).at) ELSE NoRefusal
<1> DEFINE dated == [p EXCEPT !.ready = tl.ready, !.moved = tl.moved]
           arrival == HeadArrival(dated, h)
           start == AutomaticStart(dated, arrival)
<1>1. /\ dated.suites = p.suites /\ dated.pushed = p.pushed /\ dated.committed = p.committed
      /\ dated.moved = tl.moved /\ dated.ready = tl.ready /\ dated.opened = 1
  BY DEF PullRequest, PullRequests
<1>2. arrival = Arrived(p, h, tl)
  BY <1>1 DEF HeadArrival, FirstArrival, Arrived
<1>3. start = Started(p, h, tl)
  BY <1>1, <1>2 DEF AutomaticStart, Started
<1> DEFINE e == PullEvidence(p, h, tl, s, f, listed, shared)
<1>4. ev = [e EXCEPT !.triggers = @ \union posted]
  BY DEF Evidence, WithPosted
<1>5. e = [head |-> p.head, open |-> p.open, draft |-> p.draft, shared |-> shared,
           arrival |-> arrival, start |-> start, history |-> h,
           earlier |-> IF Newest(h).kind = "none" \/ Newest(h).at < start
                       THEN EarlierReview(s, start) ELSE NoEarlier,
           findings |-> f, clean |-> CleanReview(s),
           triggers |-> HeadTriggers(listed, arrival),
           refusal |-> IF Newest(h).kind = "rate-limited"
                       THEN CorrelatedWait(s, Newest(h).at) ELSE NoRefusal]
  BY DEF PullEvidence
<1> HIDE DEF e, arrival, start
<1> QED
  BY <1>2, <1>3, <1>4, <1>5

-----------------------------------------------------------------------------
(* The status that counts. *)

LEMMA Places ==
  ASSUME NEW t, NEW h, History(h, t)
  PROVE  /\ Len(h) \in Nat /\ DOMAIN h = 1 .. Len(h)
         /\ \A i \in DOMAIN h : h[i] \in Statuses /\ h[i].at \in Nat /\ h[i].kind \in StatusKinds
         /\ h = <<>> => Newest(h) = NoStatus /\ DOMAIN h = {}
         /\ h # <<>> => Len(h) \in DOMAIN h /\ Newest(h) = h[Len(h)]
<1>1. h \in Seq(Statuses)
  BY DEF History
<1>2. \A i \in DOMAIN h : h[i] \in Statuses
  BY <1>1
<1>3. \A x \in Statuses : x.at \in Nat /\ x.kind \in StatusKinds
  BY DEF Statuses
<1>4. h = <<>> => Newest(h) = NoStatus /\ DOMAIN h = {}
  BY DEF Newest
<1>5. h # <<>> => Len(h) \in DOMAIN h /\ Newest(h) = h[Len(h)]
  BY <1>1 DEF Newest, Last
<1> QED
  BY <1>1, <1>2, <1>3, <1>4, <1>5

LEMMA CurrentIn ==
  ASSUME NEW t, NEW ev, History(ev.history, t)
  PROVE  /\ CurrentStatus(ev).at \in Nat /\ CurrentStatus(ev).at <= Newest(ev.history).at
         /\ \/ \E i \in DOMAIN ev.history : CurrentStatus(ev) = ev.history[i]
            \/ ev.history = <<>> /\ CurrentStatus(ev) = NoStatus
<1> DEFINE h == ev.history
           answered == {i \in DOMAIN h : h[i].kind # "skipped"}
           m == Max(answered)
<1>1. /\ Len(h) \in Nat /\ DOMAIN h = 1 .. Len(h)
      /\ \A i \in DOMAIN h : h[i].at \in Nat
      /\ h = <<>> => Newest(h) = NoStatus
      /\ h # <<>> => Len(h) \in DOMAIN h /\ Newest(h) = h[Len(h)]
  BY Places
<1>2. answered # {} => m \in DOMAIN h
  <2>1. answered \in SUBSET Nat /\ \A i \in answered : i <= Len(h)
    BY <1>1
  <2> HIDE DEF answered
  <2>2. answered # {} => m \in answered
    BY <1>1, <2>1, Greatest
  <2> QED
    BY <2>2 DEF answered
<1>3. CurrentStatus(ev) = Newest(h) \/ (answered # {} /\ CurrentStatus(ev) = h[m])
  BY DEF CurrentStatus
<1> HIDE DEF m, answered
<1>4. CASE h = <<>>
  <2>1. answered = {}
    BY <1>4 DEF answered
  <2> QED
    BY <1>1, <1>3, <1>4, <2>1 DEF NoStatus
<1>5. CASE h # <<>>
  <2>1. PICK i \in DOMAIN h : CurrentStatus(ev) = h[i]
    BY <1>1, <1>2, <1>3, <1>5
  <2>2. i <= Len(h) /\ Len(h) \in DOMAIN h
    BY <1>1, <1>5
  <2>3. h[i].at <= h[Len(h)].at
    BY <2>1, <2>2 DEF History
  <2> QED
    BY <1>1, <1>5, <2>1, <2>3
<1> QED
  BY <1>4, <1>5

\* A review still running is the status that counts.
LEMMA ReviewCounts ==
  ASSUME NEW t, NEW ev, History(ev.history, t),
         NEW at, InReview(ev.history, at, ev.shared)
  PROVE  CurrentStatus(ev).kind = "in-progress" /\ CurrentStatus(ev).at = at
<1> DEFINE h == ev.history
           answered == {i \in DOMAIN h : h[i].kind # "skipped"}
           m == Max(answered)
<1>1. /\ Len(h) \in Nat /\ DOMAIN h = 1 .. Len(h)
      /\ h # <<>> => Len(h) \in DOMAIN h /\ Newest(h) = h[Len(h)]
  BY Places
<1>2. PICK i \in DOMAIN h : /\ h[i].kind = "in-progress" /\ h[i].at = at
                            /\ \A j \in i + 1 .. Len(h) : ev.shared /\ h[j].kind = "skipped"
  BY DEF InReview
<1>3. h # <<>>
  BY <1>1, <1>2
<1>4. CASE i = Len(h)
  BY <1>1, <1>2, <1>3, <1>4 DEF CurrentStatus
<1>5. CASE i # Len(h)
  <2>1. Len(h) \in i + 1 .. Len(h)
    BY <1>1, <1>2, <1>5
  <2>2. ev.shared /\ Newest(h).kind = "skipped"
    BY <1>1, <1>2, <1>3, <2>1
  <2>3. i \in answered
    BY <1>2
  <2>4. \A j \in answered : j <= i
    <3> TAKE j \in answered
    <3>1. j > i => j \in i + 1 .. Len(h)
      BY <1>1, <1>2
    <3> QED
      BY <1>1, <1>2, <3>1
  <2>5. answered \in SUBSET Nat /\ i \in Nat
    BY <1>1, <1>2
  <2> HIDE DEF answered
  <2>6. m \in answered /\ \A j \in answered : j <= m
    BY <2>3, <2>4, <2>5, Greatest
  <2>7. m = i
    BY <2>3, <2>4, <2>5, <2>6
  <2> QED
    BY <1>2, <2>2, <2>3, <2>7 DEF CurrentStatus, answered
<1> QED
  BY <1>4, <1>5

-----------------------------------------------------------------------------
(* What completes a head. *)

\* Evidence whose times are at most t.
Dated(ev, t) ==
    /\ t \in Nat /\ History(ev.history, t)
    /\ ev.arrival \in Nat /\ ev.arrival <= t
    /\ \A u \in ev.triggers : u.at \in Nat /\ u.at <= t

LEMMA Since ==
  ASSUME NEW t, NEW ev, Dated(ev, t)
  PROVE  /\ ReviewedSince(ev) \in Nat /\ ev.arrival <= ReviewedSince(ev)
         /\ \A u \in ev.triggers : u.at <= ReviewedSince(ev)
         /\ \A i \in DOMAIN ev.history :
              /\ ev.history[i].kind = "in-progress"
              /\ \A j \in i + 1 .. Len(ev.history) : ev.history[j].kind \notin Ending(ev)
              => ev.history[i].at <= ReviewedSince(ev)
<1> DEFINE h == ev.history
           pending == {i \in DOMAIN h : h[i].kind = "in-progress"}
           newer == {i \in pending :
                       /\ i = Max(pending)
                       /\ \A j \in i + 1 .. Len(h) : h[j].kind \notin Ending(ev)}
           S == {ev.arrival} \union {u.at : u \in ev.triggers} \union {h[i].at : i \in newer}
           m == Max(pending)
<1>1. /\ Len(h) \in Nat /\ DOMAIN h = 1 .. Len(h)
      /\ \A i \in DOMAIN h : h[i].at \in Nat /\ h[i].at <= t
  BY Places DEF Dated, History
<1>2. ReviewedSince(ev) = Max(S)
  BY DEF ReviewedSince
<1>3. S \in SUBSET Nat /\ S # {} /\ t \in Nat /\ \A x \in S : x <= t
  <2>1. newer \subseteq DOMAIN h
    OBVIOUS
  <2> HIDE DEF newer
  <2> QED
    BY <1>1, <2>1 DEF Dated
<1> HIDE DEF S
<1>4. Max(S) \in S /\ \A x \in S : x <= Max(S)
  BY <1>3, Greatest
<1>5. Max(S) \in Nat /\ ev.arrival <= Max(S) /\ \A u \in ev.triggers : u.at <= Max(S)
  BY <1>3, <1>4 DEF S
<1>6. ASSUME NEW i \in DOMAIN h, h[i].kind = "in-progress",
             \A j \in i + 1 .. Len(h) : h[j].kind \notin Ending(ev)
      PROVE  h[i].at <= Max(S)
  <2>1. i \in pending
    BY <1>6
  <2>2. pending \in SUBSET Nat /\ pending \subseteq DOMAIN h /\ \A j \in pending : j <= Len(h)
    BY <1>1
  <2>3. m \in pending /\ i <= m
    <3> HIDE DEF pending
    <3> QED
      BY <1>1, <2>1, <2>2, Greatest
  <2>4. \A j \in m + 1 .. Len(h) : j \in i + 1 .. Len(h)
    BY <1>1, <2>2, <2>3
  <2>5. m \in newer
    BY <1>6, <2>3, <2>4
  <2>6. h[m].at \in S
    BY <2>5 DEF S
  <2>7. h[i].at <= h[m].at /\ m \in DOMAIN h
    BY <2>2, <2>3 DEF Dated, History
  <2> HIDE DEF m
  <2> QED
    BY <1>1, <1>4, <1>5, <2>6, <2>7
<1> QED
  BY <1>2, <1>5, <1>6

LEMMA Completed ==
  ASSUME NEW t, NEW ev, t \in Nat, History(ev.history, t)
  PROVE  \/ CompletedAt(ev) = 0
         \/ \E i \in DOMAIN ev.history :
              ev.history[i].kind = "completed" /\ CompletedAt(ev) = ev.history[i].at
<1> DEFINE h == ev.history
           S == {0} \union {h[i].at : i \in {i \in DOMAIN h : h[i].kind = "completed"}}
<1>1. \A i \in DOMAIN h : h[i].at \in Nat /\ h[i].at <= t
  BY Places DEF History
<1>2. S \in SUBSET Nat /\ S # {} /\ \A x \in S : x <= t
  BY <1>1
<1>3. Max(S) \in S
  <2> HIDE DEF S
  <2> QED
    BY <1>2, Greatest
<1>4. CompletedAt(ev) = Max(S)
  BY DEF CompletedAt
<1> QED
  BY <1>3, <1>4

\* A review that nothing ended and no findings followed keeps its head incomplete.
LEMMA NotComplete ==
  ASSUME NEW t, NEW ev, Dated(ev, t), NEW i \in DOMAIN ev.history,
         ev.history[i].kind = "in-progress",
         \A j \in i + 1 .. Len(ev.history) :
           ev.history[j].kind \notin Ending(ev) \union {"completed"},
         ev.findings \in Nat, ev.findings <= ev.history[i].at, NEW x, NEW time
  PROVE  Decide(ev, x, time).state \notin CompleteStates
<1> DEFINE h == ev.history
<1>1. /\ Len(h) \in Nat /\ DOMAIN h = 1 .. Len(h)
      /\ \A j \in DOMAIN h : h[j].at \in Nat
  BY Places DEF Dated
<1>2. ReviewedSince(ev) \in Nat /\ h[i].at <= ReviewedSince(ev)
  BY Since
<1>3. CompletedAt(ev) \in Nat /\ CompletedAt(ev) <= h[i].at
  <2>1. CASE CompletedAt(ev) = 0
    BY <1>1, <2>1
  <2>2. ASSUME NEW k \in DOMAIN h, h[k].kind = "completed", CompletedAt(ev) = h[k].at
        PROVE  CompletedAt(ev) \in Nat /\ CompletedAt(ev) <= h[i].at
    <3>1. k <= i
      <4>1. k > i => k \in i + 1 .. Len(h)
        BY <1>1
      <4> QED
        BY <1>1, <2>2, <4>1
    <3> QED
      BY <1>1, <2>2, <3>1 DEF Dated, History
  <2> QED
    BY <2>1, <2>2, Completed DEF Dated
<1> QED
  BY <1>1, <1>2, <1>3, CompleteDecided

-----------------------------------------------------------------------------
(* Histories that grow. *)

LEMMA LaterHistory ==
  ASSUME NEW t \in Nat, NEW u \in Nat, t <= u, NEW h, History(h, t)
  PROVE  History(h, u)
<1>1. \A i \in DOMAIN h : h[i].at \in Nat
  BY Places
<1> QED
  BY <1>1 DEF History

LEMMA Posted ==
  ASSUME NEW t \in Nat, t >= 2, NEW h, History(h, t), NEW kind \in StatusKinds
  PROVE  LET g == Append(h, [at |-> t, kind |-> kind]) IN
         /\ History(g, t) /\ Len(g) = Len(h) + 1
         /\ DOMAIN g = 1 .. Len(h) + 1
         /\ \A i \in DOMAIN h : g[i] = h[i]
         /\ g[Len(h) + 1] = [at |-> t, kind |-> kind]
<1> DEFINE e == [at |-> t, kind |-> kind]
           g == Append(h, e)
<1>1. e \in Statuses /\ e.at = t
  BY DEF Statuses
<1>2. h \in Seq(Statuses) /\ Len(h) \in Nat /\ DOMAIN h = 1 .. Len(h)
  BY DEF History
<1> HIDE DEF e
<1>3. /\ g \in Seq(Statuses) /\ Len(g) = Len(h) + 1 /\ DOMAIN g = 1 .. Len(h) + 1
      /\ \A i \in DOMAIN h : g[i] = h[i]
      /\ g[Len(h) + 1] = e
  BY <1>1, <1>2, AppendProperties DEF e
<1> HIDE DEF g
<1>4. \A i \in DOMAIN h : h[i].at \in Nat /\ 2 <= h[i].at /\ h[i].at <= t
  BY Places DEF History
<1>5. \A i \in DOMAIN g : i \in DOMAIN h \/ i = Len(h) + 1
  BY <1>2, <1>3
<1>6. \A i \in DOMAIN g : 2 <= g[i].at /\ g[i].at <= t
  BY <1>1, <1>3, <1>4, <1>5
<1>7. ASSUME NEW i \in DOMAIN g, NEW j \in DOMAIN g, i <= j
      PROVE  g[i].at <= g[j].at
  <2>1. CASE j \in DOMAIN h
    <3>1. i \in DOMAIN h
      BY <1>2, <1>3, <1>7, <2>1
    <3> QED
      BY <1>3, <1>7, <2>1, <3>1 DEF History
  <2>2. CASE j = Len(h) + 1
    BY <1>1, <1>3, <1>6, <2>2
  <2> QED
    BY <1>5, <2>1, <2>2
<1>8. History(g, t)
  BY <1>3, <1>6, <1>7 DEF History
<1> QED
  BY <1>3, <1>8 DEF e, g

\* One more status leaves a review running, or a lost one unfinished, unless
\* it ends it.
LEMMA StillInReview ==
  ASSUME NEW h, Len(h) \in Nat, DOMAIN h = 1 .. Len(h), NEW g, Len(g) = Len(h) + 1,
         DOMAIN g = 1 .. Len(h) + 1, \A i \in DOMAIN h : g[i] = h[i],
         NEW at, NEW shared,
         InReview(h, at, shared), shared, g[Len(h) + 1].kind = "skipped"
  PROVE  InReview(g, at, shared)
<1>1. PICK i \in DOMAIN h : /\ h[i].kind = "in-progress" /\ h[i].at = at
                            /\ \A j \in i + 1 .. Len(h) : shared /\ h[j].kind = "skipped"
  BY DEF InReview
<1>2. i \in DOMAIN g /\ g[i] = h[i]
  BY <1>1
<1>3. \A j \in i + 1 .. Len(g) : (j \in DOMAIN h /\ j \in i + 1 .. Len(h)) \/ j = Len(h) + 1
  BY <1>1
<1>4. \A j \in i + 1 .. Len(g) : shared /\ g[j].kind = "skipped"
  BY <1>1, <1>3
<1> QED
  BY <1>1, <1>2, <1>4 DEF InReview

LEMMA StillUnfinished ==
  ASSUME NEW h, Len(h) \in Nat, DOMAIN h = 1 .. Len(h), NEW g, Len(g) = Len(h) + 1,
         DOMAIN g = 1 .. Len(h) + 1, \A i \in DOMAIN h : g[i] = h[i],
         NEW at, NEW shared,
         Unfinished(h, at, shared), g[Len(h) + 1].kind \notin Ends(shared)
  PROVE  Unfinished(g, at, shared)
<1>1. PICK i \in DOMAIN h : /\ h[i].kind = "in-progress" /\ h[i].at >= at
                            /\ \A j \in i + 1 .. Len(h) : h[j].kind \notin Ends(shared)
  BY DEF Unfinished
<1>2. i \in DOMAIN g /\ g[i] = h[i]
  BY <1>1
<1>3. \A j \in i + 1 .. Len(g) : (j \in DOMAIN h /\ j \in i + 1 .. Len(h)) \/ j = Len(h) + 1
  BY <1>1
<1>4. \A j \in i + 1 .. Len(g) : g[j].kind \notin Ends(shared)
  BY <1>1, <1>3
<1> QED
  BY <1>1, <1>2, <1>4 DEF Unfinished

\* A running review with no findings since its pending status is unfinished.
LEMMA ReviewUnfinished ==
  ASSUME NEW t, NEW h, History(h, t), NEW at \in Nat, NEW since \in Nat, since <= at,
         NEW shared, InReview(h, at, shared)
  PROVE  Unfinished(h, since, shared)
<1>1. PICK i \in DOMAIN h : /\ h[i].kind = "in-progress" /\ h[i].at = at
                            /\ \A j \in i + 1 .. Len(h) : shared /\ h[j].kind = "skipped"
  BY DEF InReview
<1> QED
  BY <1>1 DEF Unfinished, Ends

\* What a process read stays what it was.
LEMMA Prefix ==
  ASSUME NEW t, NEW h, History(h, t), NEW n \in 0 .. Len(h)
  PROVE  /\ History(SubSeq(h, 1, n), t) /\ Len(SubSeq(h, 1, n)) = n
         /\ DOMAIN SubSeq(h, 1, n) = 1 .. n
         /\ \A i \in 1 .. n : i \in DOMAIN h /\ SubSeq(h, 1, n)[i] = h[i]
<1>1. h \in Seq(Statuses) /\ Len(h) \in Nat /\ DOMAIN h = 1 .. Len(h)
  BY DEF History
<1> DEFINE g == SubSeq(h, 1, n)
<1>2. g \in Seq(Statuses) /\ Len(g) = n /\ \A i \in 1 .. n : g[i] = h[i]
  <2>1. \A i \in 1 .. n : h[i] \in Statuses
    BY <1>1
  <2>2. n \in Int /\ 1 \in Int /\ (IF 1 <= n THEN n - 1 + 1 ELSE 0) = n
    OBVIOUS
  <2>3. \A i \in 1 .. n - 1 + 1 : g[i] = h[1 + i - 1]
    BY <2>1, <2>2, SubSeqProperties
  <2> QED
    BY <2>1, <2>2, <2>3, SubSeqProperties
<1> HIDE DEF g
<1>3. DOMAIN g = 1 .. n /\ \A i \in 1 .. n : i \in DOMAIN h
  BY <1>1, <1>2
<1>4. History(g, t)
  BY <1>2, <1>3 DEF History
<1> QED
  BY <1>2, <1>3, <1>4 DEF g

LEMMA SamePrefix ==
  ASSUME NEW t, NEW h, History(h, t), NEW u, NEW g, History(g, u), NEW n \in 0 .. Len(h),
         Len(h) <= Len(g), \A i \in DOMAIN h : g[i] = h[i]
  PROVE  n \in 0 .. Len(g) /\ SubSeq(g, 1, n) = SubSeq(h, 1, n)
<1>1. Len(h) \in Nat /\ Len(g) \in Nat /\ n \in 0 .. Len(g)
  BY DEF History
<1> DEFINE a == SubSeq(g, 1, n)
           b == SubSeq(h, 1, n)
<1>2. /\ a \in Seq(Statuses) /\ Len(a) = n /\ \A i \in 1 .. n : a[i] = g[i]
      /\ b \in Seq(Statuses) /\ Len(b) = n /\ \A i \in 1 .. n : b[i] = h[i] /\ i \in DOMAIN h
  BY <1>1, Prefix DEF History
<1> HIDE DEF a, b
<1>3. a = b
  BY <1>2
<1> QED
  BY <1>1, <1>3 DEF a, b

LEMMA LaterPull ==
  ASSUME NEW t \in Nat, NEW u \in Nat, t <= u, NEW p, PullRequest(p, t)
  PROVE  PullRequest(p, u)
<1>1. p.ready \in Nat /\ p.moved \in Nat
  BY DEF PullRequest, PullRequests
<1> QED
  BY <1>1 DEF PullRequest

LEMMA LaterCommands ==
  ASSUME NEW t \in Nat, NEW u \in Nat, t <= u, NEW c, Commands(c, t)
  PROVE  Commands(c, u)
BY DEF Commands

LEMMA Commented ==
  ASSUME NEW t \in Nat, t >= 2, NEW c, Commands(c, t), NEW mode, NEW by
  PROVE  LET d == Append(c, [id |-> Len(c) + 1, at |-> t, mode |-> mode, by |-> by]) IN
         /\ Commands(d, t) /\ Len(c) \in Nat /\ DOMAIN c = 1 .. Len(c)
         /\ DOMAIN d = 1 .. Len(c) + 1 /\ Len(d) = Len(c) + 1
         /\ \A i \in DOMAIN c : d[i] = c[i]
         /\ d[Len(c) + 1] = [id |-> Len(c) + 1, at |-> t, mode |-> mode, by |-> by]
         /\ ToSet(d) = ToSet(c) \union {d[Len(c) + 1]}
         /\ Last(d) = d[Len(c) + 1]
<1> DEFINE e == [id |-> Len(c) + 1, at |-> t, mode |-> mode, by |-> by]
           d == Append(c, e)
           X == ToSet(c) \union {e}
<1>1. c \in Seq(ToSet(c)) /\ Len(c) \in Nat /\ DOMAIN c = 1 .. Len(c)
  BY DEF Commands
<1>2. e.id = Len(c) + 1 /\ e.at = t
  OBVIOUS
<1> HIDE DEF e
<1>3. c \in Seq(X) /\ e \in X
  <2>1. c \in [1 .. Len(c) -> X]
    BY <1>1
  <2> QED
    BY <1>1, <2>1
<1> HIDE DEF X
<1>4. /\ d \in Seq(X) /\ Len(d) = Len(c) + 1 /\ DOMAIN d = 1 .. Len(c) + 1
      /\ \A i \in DOMAIN c : d[i] = c[i]
      /\ d[Len(c) + 1] = e
  BY <1>1, <1>3, AppendProperties DEF e
<1> HIDE DEF d
<1>5. \A i \in DOMAIN d : i \in DOMAIN c \/ i = Len(c) + 1
  BY <1>1, <1>4
<1>6. ToSet(d) = ToSet(c) \union {e}
  BY <1>1, <1>4, <1>5 DEF ToSet
<1>7. d \in Seq(ToSet(d))
  BY <1>4, <1>6 DEF X
<1>8. \A i \in DOMAIN d : d[i].id = i /\ d[i].at \in Nat /\ 2 <= d[i].at /\ d[i].at <= t
  BY <1>2, <1>4, <1>5 DEF Commands
<1>9. ASSUME NEW i \in DOMAIN d, NEW j \in DOMAIN d, i <= j
      PROVE  d[i].at <= d[j].at
  <2>1. CASE j \in DOMAIN c
    <3>1. i \in DOMAIN c
      BY <1>1, <1>4, <1>9, <2>1
    <3> QED
      BY <1>4, <1>9, <2>1, <3>1 DEF Commands
  <2>2. CASE j = Len(c) + 1
    BY <1>2, <1>4, <1>8, <2>2
  <2> QED
    BY <1>5, <2>1, <2>2
<1>10. Last(d) = e
  BY <1>4 DEF Last
<1> QED
  BY <1>1, <1>4, <1>6, <1>7, <1>8, <1>9, <1>10 DEF Commands, d, e

-----------------------------------------------------------------------------
(* CodeRabbit and people. *)

Grows ==
    /\ Len(statuses) <= Len(statuses')
    /\ \A i \in DOMAIN statuses : i \in DOMAIN statuses' /\ statuses'[i] = statuses[i]
    /\ pull.ready <= pull'.ready /\ pull.moved <= pull'.moved

LEMMA World ==
  ASSUME Typed
  PROVE  Shared \in BOOLEAN /\ world.waits \in SUBSET Nat /\ IsFiniteSet(world.waits)
BY RunAssumption DEF Typed, Shared

LEMMA PostKeeps ==
  ASSUME Typed, now' = now, NEW kind \in StatusKinds, Post(kind)
  PROVE  /\ History(statuses', now') /\ Len(statuses) \in Nat /\ DOMAIN statuses = 1 .. Len(statuses)
         /\ Len(statuses') = Len(statuses) + 1 /\ DOMAIN statuses' = 1 .. Len(statuses) + 1
         /\ \A i \in DOMAIN statuses : i \in DOMAIN statuses' /\ statuses'[i] = statuses[i]
         /\ statuses'[Len(statuses) + 1].at = now /\ statuses'[Len(statuses) + 1].kind = kind
         /\ Len(statuses) <= Len(statuses')
<1>1. History(statuses, now) /\ now \in Nat /\ now >= 2
  BY DEF Typed
<1>2. Len(statuses) \in Nat /\ DOMAIN statuses = 1 .. Len(statuses)
  BY <1>1 DEF History
<1>3. statuses' = Append(statuses, [at |-> now, kind |-> kind])
  BY DEF Post
<1> DEFINE g == Append(statuses, [at |-> now, kind |-> kind])
<1>4. /\ History(g, now) /\ Len(g) = Len(statuses) + 1
      /\ DOMAIN g = 1 .. Len(statuses) + 1
      /\ \A i \in DOMAIN statuses : g[i] = statuses[i]
      /\ g[Len(statuses) + 1] = [at |-> now, kind |-> kind]
  BY <1>1, Posted
<1> HIDE DEF g
<1>5. statuses' = g
  BY <1>3 DEF g
<1> QED
  BY <1>2, <1>4, <1>5

LEMMA EditKeeps ==
  ASSUME Typed, Versions, now' = now, world' = world, NEW busy \in BOOLEAN, NEW full \in BOOLEAN,
         NEW clean \in BOOLEAN, NEW wait \in {0} \union world.waits,
         Edit(Version(busy, wait, full, clean))
  PROVE  Versions' /\ Len(summary') = Len(summary) + 1
<1> DEFINE v == Version(busy, wait, full, clean)
<1>1. now \in Nat /\ wait \in Nat
  BY World DEF Typed
<1>2. v \in Version_ /\ v.at = now /\ v.wait = wait
  BY <1>1 DEF Version, Version_
<1>3. summary' = Append(summary, v)
  BY DEF Edit
<1> HIDE DEF v
<1>4. summary \in Seq(Version_) /\ Len(summary) \in Nat
  BY DEF Versions
<1>5. /\ summary' \in Seq(Version_) /\ Len(summary') = Len(summary) + 1
      /\ \A i \in 1 .. Len(summary) : summary'[i] = summary[i]
      /\ summary'[Len(summary) + 1] = v
  BY <1>2, <1>3, <1>4, AppendProperties
<1>6. \A i \in DOMAIN summary' : i \in 1 .. Len(summary) \/ i = Len(summary) + 1
  BY <1>4, <1>5
<1>7. \A i \in DOMAIN summary' :
        summary'[i].at <= now' /\ summary'[i].wait \in {0} \union world'.waits
  BY <1>1, <1>2, <1>4, <1>5, <1>6 DEF Versions
<1> QED
  BY <1>5, <1>7 DEF Versions

LEMMA CleanOrNot == Versions => WasClean \in BOOLEAN
<1> SUFFICES ASSUME Versions PROVE WasClean \in BOOLEAN
  OBVIOUS
<1>1. CASE summary # <<>>
  <2>1. summary[Len(summary)] \in Version_
    BY <1>1 DEF Versions
  <2>2. \A v \in Version_ : v.clean \in BOOLEAN
    BY DEF Version_
  <2>3. Last(summary).clean \in BOOLEAN
    BY <2>1, <2>2 DEF Last
  <2>4. WasClean = Last(summary).clean
    BY <1>1, <2>3 DEF WasClean, CleanReview
  <2> QED
    BY <2>3, <2>4
<1>2. CASE summary = <<>>
  BY <1>2 DEF WasClean, CleanReview
<1> QED
  BY <1>1, <1>2

LEMMA BotStartKeeps ==
  ASSUME Shown, BotStart, UNCHANGED <<world, now>>
  PROVE  Shown' /\ Grows /\ UNCHANGED triggers
<1> USE DEF Shown
<1>1. /\ bot.doing = "idle" /\ Post("in-progress") /\ Edit(Version(TRUE, 0, FALSE, WasClean))
      /\ bot' = [bot EXCEPT !.doing = "head", !.since = now, !.stated = {}]
      /\ UNCHANGED <<pull, findings, triggers, world, now>>
  BY DEF BotStart
<1>2. /\ History(statuses', now') /\ Len(statuses) \in Nat /\ DOMAIN statuses = 1 .. Len(statuses)
      /\ Len(statuses') = Len(statuses) + 1 /\ DOMAIN statuses' = 1 .. Len(statuses) + 1
      /\ \A i \in DOMAIN statuses : i \in DOMAIN statuses' /\ statuses'[i] = statuses[i]
      /\ statuses'[Len(statuses) + 1].at = now
      /\ statuses'[Len(statuses) + 1].kind = "in-progress"
      /\ Len(statuses) <= Len(statuses')
  <2>1. "in-progress" \in StatusKinds
    BY DEF StatusKinds
  <2> QED
    BY <1>1, <2>1, PostKeeps
<1>3. Versions'
  BY <1>1, CleanOrNot, EditKeeps
<1>4. /\ bot' = [doing |-> "head", since |-> now, stated |-> {}, ended |-> bot.ended,
                 lost |-> bot.lost]
  BY <1>1 DEF Typed, CodeRabbit
<1>5. Typed'
  <2>1. CodeRabbit(bot', now)
    BY <1>4 DEF Typed, CodeRabbit
  <2> QED
    BY <1>1, <1>2, <2>1 DEF Typed
<1>6. Comments'
  BY <1>1 DEF Comments
<1>7. Bot'
  <2>1. OwnDraftSkips' = OwnDraftSkips /\ Shared' = Shared
    BY <1>1 DEF OwnDraftSkips, Shared, May
  <2>2. \A i \in DOMAIN statuses' : statuses'[i].kind = "completed" => bot'.ended >= statuses'[i].at
    BY <1>2, <1>4 DEF Bot
  <2>3. InReview(statuses', bot'.since, Shared')
    BY <1>2, <1>4 DEF InReview
  <2>4. findings' <= bot'.since
    BY <1>1, <1>4 DEF Typed
  <2>5. OwnDraftSkips /\ bot.lost => Unfinished(statuses', findings', Shared')
    BY <1>1, <1>2, <2>1, StillUnfinished DEF Bot, Ends
  <2> QED
    BY <1>1, <1>4, <2>1, <2>2, <2>3, <2>4, <2>5 DEF Bot
<1>8. Grows
  BY <1>1, <1>2 DEF Grows, Typed, PullRequest, PullRequests
<1> QED
  BY <1>1, <1>3, <1>5, <1>6, <1>7, <1>8

LEMMA BotPublishKeeps ==
  ASSUME Shown, BotPublish, UNCHANGED <<world, now>>
  PROVE  Shown' /\ Grows /\ UNCHANGED triggers
<1> USE DEF Shown
<1>1. /\ bot.doing = "head" /\ findings' \in {now, findings}
      /\ bot' = [bot EXCEPT !.doing = "closing", !.ended = now, !.lost = FALSE]
      /\ UNCHANGED <<pull, statuses, triggers, world, now>>
  BY DEF BotPublish
<1>2. Versions'
  <2>1. PICK clean \in BOOLEAN : Edit(Version(FALSE, 0, FALSE, clean))
    BY CleanOrNot DEF BotPublish
  <2> QED
    BY <1>1, <2>1, EditKeeps
<1>3. bot' = [doing |-> "closing", since |-> bot.since, stated |-> bot.stated, ended |-> now,
              lost |-> FALSE]
  BY <1>1 DEF Typed, CodeRabbit
<1>4. Typed'
  <2>1. CodeRabbit(bot', now)
    BY <1>3 DEF Typed, CodeRabbit
  <2> QED
    BY <1>1, <2>1 DEF Typed
<1>5. Comments'
  BY <1>1 DEF Comments
<1>6. Bot'
  <2>1. \A i \in DOMAIN statuses' : bot'.ended >= statuses'[i].at
    BY <1>1, <1>3 DEF Typed, History
  <2>2. bot'.ended >= findings'
    BY <1>1, <1>3 DEF Typed
  <2> QED
    BY <1>3, <2>1, <2>2 DEF Bot
<1>7. Grows
  BY <1>1 DEF Grows, Typed, PullRequest, PullRequests, History
<1> QED
  BY <1>1, <1>2, <1>4, <1>5, <1>6, <1>7

LEMMA BotCompleteKeeps ==
  ASSUME Shown, BotComplete, UNCHANGED <<world, now>>
  PROVE  Shown' /\ Grows /\ UNCHANGED triggers
<1> USE DEF Shown
<1> DEFINE kind == "completed"
<1>1. /\ bot.doing = "closing" /\ Post("completed")
      /\ bot' = [bot EXCEPT !.doing = "idle", !.ended = now]
      /\ UNCHANGED <<pull, summary, findings, triggers, world, now>>
  BY DEF BotComplete
<1>2. /\ History(statuses', now') /\ Len(statuses) \in Nat /\ DOMAIN statuses = 1 .. Len(statuses)
      /\ Len(statuses') = Len(statuses) + 1 /\ DOMAIN statuses' = 1 .. Len(statuses) + 1
      /\ \A i \in DOMAIN statuses : i \in DOMAIN statuses' /\ statuses'[i] = statuses[i]
      /\ statuses'[Len(statuses) + 1].at = now
      /\ statuses'[Len(statuses) + 1].kind = kind
      /\ Len(statuses) <= Len(statuses')
  <2>1. "completed" \in StatusKinds
    BY DEF StatusKinds
  <2> QED
    BY <1>1, <2>1, PostKeeps
<1>3. bot' = [doing |-> "idle", since |-> bot.since, stated |-> bot.stated, ended |-> now,
              lost |-> bot.lost]
  BY <1>1 DEF Typed, CodeRabbit
<1>4. Typed'
  <2>1. CodeRabbit(bot', now)
    BY <1>3 DEF Typed, CodeRabbit
  <2> QED
    BY <1>1, <1>2, <2>1 DEF Typed
<1>5. Versions' /\ Comments'
  BY <1>1 DEF Versions, Comments
<1>6. Bot'
  <2>1. \A i \in DOMAIN statuses' : bot'.ended >= statuses'[i].at
    BY <1>1, <1>2, <1>3 DEF History
  <2>2. bot'.ended >= findings'
    BY <1>1, <1>3 DEF Typed
  <2>3. OwnDraftSkips' = OwnDraftSkips
    BY <1>1 DEF OwnDraftSkips, Shared, May
  <2>4. OwnDraftSkips => ~bot'.lost
    BY <1>1, <1>3 DEF Bot
  <2> QED
    BY <1>3, <2>1, <2>2, <2>3, <2>4 DEF Bot
<1>7. Grows
  BY <1>1, <1>2 DEF Grows, Typed, PullRequest, PullRequests
<1> QED
  BY <1>1, <1>4, <1>5, <1>6, <1>7

LEMMA BotStopKeeps ==
  ASSUME Shown, BotStop, UNCHANGED <<world, now>>
  PROVE  Shown' /\ Grows /\ UNCHANGED triggers
<1> USE DEF Shown
<1>1. /\ bot.doing = "head" /\ Edit(Version(FALSE, 0, FALSE, WasClean))
      /\ UNCHANGED <<pull, findings, triggers, world, now>>
  BY DEF BotStop
<1>2. PICK kind \in {"lock-loss", "paused"} :
        Post(kind) /\ bot' = [bot EXCEPT !.doing = "idle", !.lost = kind = "lock-loss"]
  BY DEF BotStop
<1>3. /\ History(statuses', now') /\ Len(statuses) \in Nat /\ DOMAIN statuses = 1 .. Len(statuses)
      /\ Len(statuses') = Len(statuses) + 1 /\ DOMAIN statuses' = 1 .. Len(statuses) + 1
      /\ \A i \in DOMAIN statuses : i \in DOMAIN statuses' /\ statuses'[i] = statuses[i]
      /\ statuses'[Len(statuses) + 1].at = now
      /\ statuses'[Len(statuses) + 1].kind = kind
      /\ Len(statuses) <= Len(statuses')
  <2>1. kind \in StatusKinds
    BY DEF StatusKinds
  <2> QED
    BY <1>2, <1>1, <2>1, PostKeeps
<1>4. Versions'
  BY <1>1, CleanOrNot, EditKeeps
<1>5. bot' = [doing |-> "idle", since |-> bot.since, stated |-> bot.stated, ended |-> bot.ended,
              lost |-> (kind = "lock-loss")]
  BY <1>2 DEF Typed, CodeRabbit
<1>6. Typed'
  <2>1. CodeRabbit(bot', now)
    BY <1>5 DEF Typed, CodeRabbit
  <2> QED
    BY <1>1, <1>3, <2>1 DEF Typed
<1>7. Comments'
  BY <1>1 DEF Comments
<1>8. Bot'
  <2>1. OwnDraftSkips' = OwnDraftSkips /\ Shared' = Shared
    BY <1>1 DEF OwnDraftSkips, Shared, May
  <2>2. \A i \in DOMAIN statuses' : statuses'[i].kind = "completed" => bot'.ended >= statuses'[i].at
    BY <1>3, <1>5 DEF Bot
  <2>3. OwnDraftSkips /\ kind = "lock-loss" => Unfinished(statuses', findings', Shared')
    <3> SUFFICES ASSUME OwnDraftSkips, kind = "lock-loss"
                 PROVE  Unfinished(statuses', findings', Shared')
      OBVIOUS
    <3>1. Unfinished(statuses, findings, Shared)
      BY <1>1, ReviewUnfinished DEF Bot, Typed, CodeRabbit
    <3>2. kind \notin Ends(Shared)
      BY DEF Ends
    <3> QED
      BY <1>1, <1>3, <2>1, <3>1, <3>2, StillUnfinished
  <2>4. bot'.ended >= findings'
    BY <1>1, <1>5 DEF Bot
  <2> QED
    BY <1>5, <2>1, <2>2, <2>3, <2>4 DEF Bot
<1>9. Grows
  BY <1>1, <1>3 DEF Grows, Typed, PullRequest, PullRequests
<1> QED
  BY <1>1, <1>4, <1>6, <1>7, <1>8, <1>9

LEMMA BotEarlierEndsKeeps ==
  ASSUME Shown, BotEarlierEnds, UNCHANGED <<world, now>>
  PROVE  Shown' /\ Grows /\ UNCHANGED triggers
<1> USE DEF Shown
<1>1. /\ bot.doing = "earlier" /\ Edit(Version(FALSE, 0, FALSE, FALSE))
      /\ bot' = [bot EXCEPT !.doing = "idle"]
      /\ UNCHANGED <<pull, statuses, findings, triggers, world, now>>
  BY DEF BotEarlierEnds
<1>2. Versions'
  BY <1>1, EditKeeps
<1>3. bot' = [doing |-> "idle", since |-> bot.since, stated |-> bot.stated, ended |-> bot.ended,
              lost |-> bot.lost]
  BY <1>1 DEF Typed, CodeRabbit
<1>4. Typed'
  <2>1. CodeRabbit(bot', now)
    BY <1>3 DEF Typed, CodeRabbit
  <2> QED
    BY <1>1, <2>1 DEF Typed
<1>5. Comments'
  BY <1>1 DEF Comments
<1>6. Bot'
  <2>1. OwnDraftSkips' = OwnDraftSkips /\ Shared' = Shared
    BY <1>1 DEF OwnDraftSkips, Shared, May
  <2> QED
    BY <1>1, <1>3, <2>1 DEF Bot
<1>7. Grows
  BY <1>1 DEF Grows, Typed, PullRequest, PullRequests, History
<1> QED
  BY <1>1, <1>2, <1>4, <1>5, <1>6, <1>7

LEMMA BotStateWaitKeeps ==
  ASSUME Shown, BotStateWait, UNCHANGED <<world, now>>
  PROVE  Shown' /\ Grows /\ UNCHANGED triggers
<1> USE DEF Shown
<1>1. /\ bot.doing \in {"idle", "refusing"}
      /\ UNCHANGED <<pull, statuses, findings, triggers, world, now>>
  BY DEF BotStateWait
<1>2. Versions'
  <2>1. PICK wait \in world.waits, full \in BOOLEAN : Edit(Version(FALSE, wait, full, WasClean))
    BY DEF BotStateWait
  <2> QED
    BY <1>1, <2>1, CleanOrNot, EditKeeps
<1>3. PICK since \in {now, bot.since} :
        bot' = [doing |-> "refusing", since |-> since, stated |-> bot'.stated,
                ended |-> bot.ended, lost |-> bot.lost]
  <2>1. PICK since \in {now, bot.since} :
          \E stated : bot' = [bot EXCEPT !.doing = "refusing", !.since = since, !.stated = stated]
    BY DEF BotStateWait
  <2> QED
    BY <2>1 DEF Typed, CodeRabbit
<1>4. Typed'
  <2>1. CodeRabbit(bot', now)
    BY <1>3 DEF Typed, CodeRabbit
  <2> QED
    BY <1>1, <2>1 DEF Typed
<1>5. Comments'
  BY <1>1 DEF Comments
<1>6. Bot'
  <2>1. OwnDraftSkips' = OwnDraftSkips /\ Shared' = Shared
    BY <1>1 DEF OwnDraftSkips, Shared, May
  <2> QED
    BY <1>1, <1>3, <2>1 DEF Bot
<1>7. Grows
  BY <1>1 DEF Grows, Typed, PullRequest, PullRequests, History
<1> QED
  BY <1>1, <1>2, <1>4, <1>5, <1>6, <1>7

LEMMA BotRefuseKeeps ==
  ASSUME Shown, BotRefuse, UNCHANGED <<world, now>>
  PROVE  Shown' /\ Grows /\ UNCHANGED triggers
<1> USE DEF Shown
<1> DEFINE kind == "rate-limited"
<1>1. /\ bot.doing \in {"idle", "refusing"} /\ Post("rate-limited")
      /\ UNCHANGED <<pull, summary, findings, triggers, world, now>>
  BY DEF BotRefuse
<1>2. /\ History(statuses', now') /\ Len(statuses) \in Nat /\ DOMAIN statuses = 1 .. Len(statuses)
      /\ Len(statuses') = Len(statuses) + 1 /\ DOMAIN statuses' = 1 .. Len(statuses) + 1
      /\ \A i \in DOMAIN statuses : i \in DOMAIN statuses' /\ statuses'[i] = statuses[i]
      /\ statuses'[Len(statuses) + 1].at = now
      /\ statuses'[Len(statuses) + 1].kind = kind
      /\ Len(statuses) <= Len(statuses')
  <2>1. "rate-limited" \in StatusKinds
    BY DEF StatusKinds
  <2> QED
    BY <1>1, <2>1, PostKeeps
<1>3. PICK stated : bot' = [doing |-> "idle", since |-> bot.since, stated |-> stated,
                           ended |-> bot.ended, lost |-> bot.lost]
  <2>1. PICK stated : bot' = [bot EXCEPT !.doing = "idle", !.stated = stated]
    BY DEF BotRefuse
  <2> QED
    BY <2>1 DEF Typed, CodeRabbit
<1>4. Typed'
  <2>1. CodeRabbit(bot', now)
    BY <1>3 DEF Typed, CodeRabbit
  <2> QED
    BY <1>1, <1>2, <2>1 DEF Typed
<1>5. Versions' /\ Comments'
  BY <1>1 DEF Versions, Comments
<1>6. Bot'
  <2>1. OwnDraftSkips' = OwnDraftSkips /\ Shared' = Shared
    BY <1>1 DEF OwnDraftSkips, Shared, May
  <2>2. \A i \in DOMAIN statuses' : statuses'[i].kind = "completed" => bot'.ended >= statuses'[i].at
    BY <1>2, <1>3 DEF Bot
  <2>3. OwnDraftSkips /\ bot.lost => Unfinished(statuses', findings', Shared')
    BY <1>1, <1>2, <2>1, StillUnfinished DEF Bot, Ends
  <2> QED
    BY <1>1, <1>3, <2>1, <2>2, <2>3 DEF Bot
<1>7. Grows
  BY <1>1, <1>2 DEF Grows, Typed, PullRequest, PullRequests
<1> QED
  BY <1>1, <1>4, <1>5, <1>6, <1>7

LEMMA BotSkipKeeps ==
  ASSUME Shown, BotSkip, UNCHANGED <<world, now>>
  PROVE  Shown' /\ Grows /\ UNCHANGED triggers
<1> USE DEF Shown
<1>1. /\ bot.doing = "idle"
      /\ UNCHANGED <<pull, summary, findings, triggers, world, now>>
  BY DEF BotSkip
<1>2. PICK kind \in {"skipped", "paused", "unrecognized", "draft-skip"} :
        /\ Post(kind)
        /\ bot' = [bot EXCEPT
                     !.lost = @ /\ (kind = "unrecognized" \/ (Shared /\ kind = "skipped"))]
  BY DEF BotSkip
<1>3. /\ History(statuses', now') /\ Len(statuses) \in Nat /\ DOMAIN statuses = 1 .. Len(statuses)
      /\ Len(statuses') = Len(statuses) + 1 /\ DOMAIN statuses' = 1 .. Len(statuses) + 1
      /\ \A i \in DOMAIN statuses : i \in DOMAIN statuses' /\ statuses'[i] = statuses[i]
      /\ statuses'[Len(statuses) + 1].at = now
      /\ statuses'[Len(statuses) + 1].kind = kind
      /\ Len(statuses) <= Len(statuses')
  <2>1. kind \in StatusKinds
    BY DEF StatusKinds
  <2> QED
    BY <1>2, <1>1, <2>1, PostKeeps
<1>4. PICK lost \in BOOLEAN :
        /\ bot' = [doing |-> "idle", since |-> bot.since, stated |-> bot.stated,
                   ended |-> bot.ended, lost |-> lost]
        /\ lost => bot.lost /\ (kind = "unrecognized" \/ (Shared /\ kind = "skipped"))
  <2>1. PICK lost \in BOOLEAN :
          /\ lost <=> bot.lost /\ (kind = "unrecognized" \/ (Shared /\ kind = "skipped"))
          /\ bot' = [bot EXCEPT !.lost = lost]
    BY <1>2
  <2> QED
    BY <1>1, <2>1 DEF Typed, CodeRabbit
<1>5. Typed'
  <2>1. CodeRabbit(bot', now)
    BY <1>4 DEF Typed, CodeRabbit
  <2> QED
    BY <1>1, <1>3, <2>1 DEF Typed
<1>6. Versions' /\ Comments'
  BY <1>1 DEF Versions, Comments
<1>7. Bot'
  <2>1. OwnDraftSkips' = OwnDraftSkips /\ Shared' = Shared
    BY <1>1 DEF OwnDraftSkips, Shared, May
  <2>2. \A i \in DOMAIN statuses' : statuses'[i].kind = "completed" => bot'.ended >= statuses'[i].at
    BY <1>3, <1>4 DEF Bot
  <2>3. OwnDraftSkips /\ lost => Unfinished(statuses', findings', Shared')
    <3> SUFFICES ASSUME OwnDraftSkips, lost PROVE Unfinished(statuses', findings', Shared')
      OBVIOUS
    <3>1. Unfinished(statuses, findings, Shared)
      BY <1>4 DEF Bot
    <3>2. kind \notin Ends(Shared)
      BY <1>4 DEF Ends
    <3> QED
      BY <1>1, <1>3, <2>1, <3>1, <3>2, StillUnfinished
  <2> QED
    BY <1>1, <1>4, <2>1, <2>2, <2>3 DEF Bot
<1>8. Grows
  BY <1>1, <1>3 DEF Grows, Typed, PullRequest, PullRequests
<1> QED
  BY <1>1, <1>5, <1>6, <1>7, <1>8

LEMMA BotSkipOtherKeeps ==
  ASSUME Shown, BotSkipOther, UNCHANGED <<world, now>>
  PROVE  Shown' /\ Grows /\ UNCHANGED triggers
<1> USE DEF Shown
<1>1. Shared /\ UNCHANGED <<pull, summary, findings, triggers, bot, world, now>>
  BY DEF BotSkipOther
<1>2. PICK kind \in {"skipped"} \union (world.steps \intersect {"draft-skip"}) : Post(kind)
  BY DEF BotSkipOther
<1>3. /\ History(statuses', now') /\ Len(statuses) \in Nat /\ DOMAIN statuses = 1 .. Len(statuses)
      /\ Len(statuses') = Len(statuses) + 1 /\ DOMAIN statuses' = 1 .. Len(statuses) + 1
      /\ \A i \in DOMAIN statuses : i \in DOMAIN statuses' /\ statuses'[i] = statuses[i]
      /\ statuses'[Len(statuses) + 1].at = now
      /\ statuses'[Len(statuses) + 1].kind = kind
      /\ Len(statuses) <= Len(statuses')
  <2>1. kind \in StatusKinds
    BY DEF StatusKinds
  <2> QED
    BY <1>2, <1>1, <2>1, PostKeeps
<1>4. OwnDraftSkips => kind = "skipped"
  BY <1>2, <1>1 DEF OwnDraftSkips, May
<1>5. Typed'
  BY <1>1, <1>3 DEF Typed
<1>6. Versions' /\ Comments'
  BY <1>1 DEF Versions, Comments
<1>7. Bot'
  <2>1. OwnDraftSkips' = OwnDraftSkips /\ Shared' = Shared
    BY <1>1 DEF OwnDraftSkips, Shared, May
  <2>2. \A i \in DOMAIN statuses' : statuses'[i].kind = "completed" => bot'.ended >= statuses'[i].at
    BY <1>2, <1>1, <1>3 DEF Bot
  <2>3. OwnDraftSkips /\ bot.lost => Unfinished(statuses', findings', Shared')
    <3>1. kind = "skipped" => kind \notin Ends(Shared)
      BY <1>1 DEF Ends
    <3> QED
      BY <1>1, <1>3, <1>4, <2>1, <3>1, StillUnfinished DEF Bot
  <2>4. OwnDraftSkips /\ bot.doing = "head" => InReview(statuses', bot'.since, Shared')
    BY <1>1, <1>3, <1>4, <2>1, StillInReview DEF Bot
  <2> QED
    BY <1>1, <2>1, <2>2, <2>3, <2>4 DEF Bot
<1>8. Grows
  BY <1>1, <1>3 DEF Grows, Typed, PullRequest, PullRequests
<1> QED
  BY <1>1, <1>5, <1>6, <1>7, <1>8

LEMMA PullLater ==
  ASSUME NEW t \in Nat, NEW p, PullRequest(p, t), NEW moved \in {p.moved, t},
         NEW q, q \in {[p EXCEPT !.draft = FALSE, !.ready = t],
                       [p EXCEPT !.head = OtherSha, !.moved = t],
                       [p EXCEPT !.head = Sha, !.moved = moved],
                       [p EXCEPT !.open = FALSE]}
  PROVE  PullRequest(q, t) /\ p.ready <= q.ready /\ p.moved <= q.moved
<1>1. p \in PullRequests /\ p.ready \in Nat /\ p.moved \in Nat /\ p.ready <= t /\ p.moved <= t
  BY DEF PullRequest, PullRequests
<1>2. moved \in Nat /\ p.moved <= moved /\ moved <= t
  BY <1>1
<1>3. q \in PullRequests
  BY <1>1, <1>2 DEF PullRequests
<1>4. q.ready \in {p.ready, t} /\ q.moved \in {p.moved, moved, t}
  BY <1>1 DEF PullRequests
<1> QED
  BY <1>1, <1>2, <1>3, <1>4 DEF PullRequest

LEMMA PullKeeps ==
  ASSUME Shown, MarkReady \/ ForcePushAway \/ ComeBack \/ Close, UNCHANGED <<world, now>>
  PROVE  Shown' /\ Grows /\ UNCHANGED triggers
<1> USE DEF Shown
<1>1. UNCHANGED <<statuses, summary, findings, triggers, bot, world, now>>
  BY DEF MarkReady, ForcePushAway, ComeBack, Close
<1>2. PullRequest(pull, now) /\ now \in Nat
  BY DEF Typed
<1>3. PullRequest(pull', now) /\ pull.ready <= pull'.ready /\ pull.moved <= pull'.moved
  <2>1. CASE MarkReady
    <3>1. pull' = [pull EXCEPT !.draft = FALSE, !.ready = now]
      BY <2>1 DEF MarkReady
    <3> QED
      BY <1>2, <3>1, PullLater
  <2>2. CASE ForcePushAway
    <3>1. pull' = [pull EXCEPT !.head = OtherSha, !.moved = now]
      BY <2>2 DEF ForcePushAway
    <3> QED
      BY <1>2, <3>1, PullLater
  <2>3. CASE ComeBack
    <3>1. PICK moved \in {pull.moved, now} : pull' = [pull EXCEPT !.head = Sha, !.moved = moved]
      BY <2>3 DEF ComeBack
    <3> QED
      BY <1>2, <3>1, PullLater
  <2>4. CASE Close
    <3>1. pull' = [pull EXCEPT !.open = FALSE]
      BY <2>4 DEF Close
    <3> QED
      BY <1>2, <3>1, PullLater
  <2> QED
    BY <2>1, <2>2, <2>3, <2>4
<1>4. Typed' /\ Versions' /\ Comments'
  BY <1>1, <1>3 DEF Typed, Versions, Comments
<1>5. Bot'
  BY <1>1 DEF Bot, OwnDraftSkips, Shared, May
<1>6. Grows
  BY <1>1, <1>3 DEF Grows, Typed, History
<1> QED
  BY <1>1, <1>4, <1>5, <1>6

LEMMA CommentKeeps ==
  ASSUME Shown, NEW mode, NEW by, Comment(mode, by),
         UNCHANGED <<world, now, pull, statuses, summary, findings, bot>>
  PROVE  /\ Shown' /\ Grows
         /\ Len(triggers) \in Nat /\ DOMAIN triggers = 1 .. Len(triggers)
         /\ DOMAIN triggers' = 1 .. Len(triggers) + 1
         /\ \A i \in DOMAIN triggers : i \in DOMAIN triggers' /\ triggers'[i] = triggers[i]
         /\ triggers'[Len(triggers) + 1].by = by /\ triggers'[Len(triggers) + 1].at = now
         /\ ToSet(triggers') = ToSet(triggers) \union {triggers'[Len(triggers) + 1]}
         /\ Last(triggers') = triggers'[Len(triggers) + 1]
<1> USE DEF Shown
<1>1. Commands(triggers, now) /\ now \in Nat /\ now >= 2
  BY DEF Comments, Typed
<1> DEFINE d == Append(triggers, [id |-> Len(triggers) + 1, at |-> now, mode |-> mode, by |-> by])
<1>2. /\ Commands(d, now) /\ Len(triggers) \in Nat /\ DOMAIN triggers = 1 .. Len(triggers)
      /\ DOMAIN d = 1 .. Len(triggers) + 1
      /\ \A i \in DOMAIN triggers : d[i] = triggers[i]
      /\ d[Len(triggers) + 1] =
           [id |-> Len(triggers) + 1, at |-> now, mode |-> mode, by |-> by]
      /\ ToSet(d) = ToSet(triggers) \union {d[Len(triggers) + 1]}
      /\ Last(d) = d[Len(triggers) + 1]
  BY <1>1, Commented
<1> HIDE DEF d
<1>3. triggers' = d
  BY DEF Comment, d
<1>4. Typed' /\ Versions' /\ Comments'
  BY <1>2, <1>3 DEF Typed, Versions, Comments
<1>5. Bot'
  BY DEF Bot, OwnDraftSkips, Shared, May
<1>6. Grows
  BY DEF Grows, Typed, PullRequest, PullRequests, History
<1> QED
  BY <1>2, <1>3, <1>4, <1>5, <1>6

LEMMA ExternalKeeps ==
  ASSUME Shown, External
  PROVE  /\ Shown' /\ Grows /\ UNCHANGED <<world, now, lock, run>>
         /\ \A i \in DOMAIN triggers : i \in DOMAIN triggers' /\ triggers'[i] = triggers[i]
         /\ \A i \in DOMAIN triggers' : i \in DOMAIN triggers \/ triggers'[i].by = "person"
<1>1. UNCHANGED <<world, now, lock, run>>
  BY DEF External
<1>2. UNCHANGED <<world, now>>
  BY <1>1
<1>3. CASE PersonTriggers
  <2>1. PICK mode \in Modes : Comment(mode, "person")
    BY <1>3 DEF PersonTriggers
  <2>2. UNCHANGED <<pull, statuses, summary, findings, bot>>
    BY <1>3 DEF PersonTriggers
  <2>3. /\ Shown' /\ Grows
        /\ Len(triggers) \in Nat /\ DOMAIN triggers = 1 .. Len(triggers)
        /\ DOMAIN triggers' = 1 .. Len(triggers) + 1
        /\ \A i \in DOMAIN triggers : i \in DOMAIN triggers' /\ triggers'[i] = triggers[i]
        /\ triggers'[Len(triggers) + 1].by = "person"
    BY <1>2, <2>1, <2>2, CommentKeeps
  <2>4. \A i \in DOMAIN triggers' : i \in DOMAIN triggers \/ i = Len(triggers) + 1
    BY <2>3
  <2> QED
    BY <1>1, <2>3, <2>4
<1>4. ASSUME Shown', Grows, UNCHANGED triggers
      PROVE  /\ Shown' /\ Grows /\ UNCHANGED <<world, now, lock, run>>
             /\ \A i \in DOMAIN triggers : i \in DOMAIN triggers' /\ triggers'[i] = triggers[i]
             /\ \A i \in DOMAIN triggers' : i \in DOMAIN triggers \/ triggers'[i].by = "person"
  BY <1>1, <1>4
<1>5. CASE \/ BotStart \/ BotPublish \/ BotComplete \/ BotStop \/ BotEarlierEnds
           \/ BotStateWait \/ BotRefuse \/ BotSkip \/ BotSkipOther
           \/ MarkReady \/ ForcePushAway \/ ComeBack \/ Close
  <2>1. Shown' /\ Grows /\ UNCHANGED triggers
    BY <1>2, <1>5, BotStartKeeps, BotPublishKeeps, BotCompleteKeeps, BotStopKeeps,
       BotEarlierEndsKeeps, BotStateWaitKeeps, BotRefuseKeeps, BotSkipKeeps, BotSkipOtherKeeps,
       PullKeeps
  <2> QED
    BY <1>4, <2>1
<1> QED
  BY <1>3, <1>5 DEF External

-----------------------------------------------------------------------------
(* The processes that do not move. *)

LEMMA OtherKeeps ==
  ASSUME CInv, Shown', Grows, UNCHANGED world, now <= now',
         NEW s \in Run, run'[s] = run[s], lock' = s <=> lock = s,
         \A i \in DOMAIN triggers : i \in DOMAIN triggers' /\ triggers'[i] = triggers[i],
         \A i \in DOMAIN triggers' : \/ i \in DOMAIN triggers
                                     \/ /\ triggers'[i].by # s
                                        /\ triggers'[i].by \in Run => run[s].pc # "post"
  PROVE  Running(s)'
<1>1. Running(s) /\ Typed /\ Typed'
  BY DEF CInv, Shown
<1>2. Shared' = Shared /\ Lag' = Lag /\ OwnDraftSkips' = OwnDraftSkips
  BY DEF Shared, Lag, OwnDraftSkips, May
<1>3. Process(s)'
  <2>1. ToSet(triggers) \subseteq ToSet(triggers')
    BY DEF ToSet
  <2>2. \A i \in DOMAIN triggers' : triggers'[i].by = s =>
          i \in DOMAIN triggers /\ triggers'[i] = triggers[i]
    OBVIOUS
  <2> QED
    BY <1>1, <2>1, <2>2 DEF Running, Process
<1>4. Resting(s)'
  <2> SUFFICES ASSUME run[s].pc = "rest"
               PROVE  /\ run[s].n \in 0 .. Len(statuses')
                      /\ run[s].reviewing \in Nat
                      /\ PullRequest(run[s].pull, now')
                      /\ OwnDraftSkips /\ run[s].reviewing # 0 =>
                           InReview(SubSeq(statuses', 1, run[s].n), run[s].reviewing, Shared)
    BY <1>2 DEF Resting
  <2>1. /\ run[s].n \in 0 .. Len(statuses) /\ run[s].reviewing \in Nat
        /\ PullRequest(run[s].pull, now)
        /\ OwnDraftSkips /\ run[s].reviewing # 0 =>
             InReview(SubSeq(statuses, 1, run[s].n), run[s].reviewing, Shared)
    BY <1>1 DEF Running, Resting
  <2>2. /\ run[s].n \in 0 .. Len(statuses')
        /\ SubSeq(statuses', 1, run[s].n) = SubSeq(statuses, 1, run[s].n)
    BY <1>1, <2>1, SamePrefix DEF Typed, Grows
  <2>3. PullRequest(run[s].pull, now')
    BY <1>1, <2>1, LaterPull DEF Typed
  <2> QED
    BY <2>1, <2>2, <2>3
<1>5. Posting(s)'
  <2> SUFFICES ASSUME run[s].pc = "post", NEW i \in DOMAIN triggers', triggers'[i].by \in Run,
                      Lag = 0 \/ triggers'[i].by = s
               PROVE  Followed(triggers'[i], statuses', pull')
    BY <1>2 DEF Posting
  <2>1. i \in DOMAIN triggers /\ triggers'[i] = triggers[i] /\ triggers[i].at \in Nat
    BY DEF CInv, Shown, Comments, Commands
  <2>2. Followed(triggers[i], statuses, pull)
    BY <1>1, <2>1 DEF Running, Posting
  <2>3. pull.ready \in Nat /\ pull.moved \in Nat /\ pull'.ready \in Nat /\ pull'.moved \in Nat
    BY <1>1 DEF Typed, PullRequest, PullRequests
  <2> QED
    BY <2>1, <2>2, <2>3 DEF Followed, Grows
<1>6. Idle(s)'
  BY <1>1, <1>2 DEF Running, Idle
<1> QED
  BY <1>3, <1>4, <1>5, <1>6 DEF Running

\* A new trigger repeats none that something followed.
LEMMA StillUnrepeated ==
  ASSUME CInv, Shown', Grows, UNCHANGED world,
         \A i \in DOMAIN triggers : i \in DOMAIN triggers' /\ triggers'[i] = triggers[i],
         \A i \in DOMAIN triggers' :
           \/ i \in DOMAIN triggers \/ triggers'[i].by \notin Run
           \/ /\ triggers'[i].at = now /\ \A j \in DOMAIN triggers' : j <= i
              /\ \A j \in DOMAIN triggers :
                   triggers[j].by \in Run /\ (Lag = 0 \/ triggers[j].by = triggers'[i].by) =>
                     Followed(triggers[j], statuses, pull)
  PROVE  Unrepeated'
<1>1. Lag' = Lag
  BY DEF Lag
<1>2. Typed /\ Typed' /\ Comments
  BY DEF CInv, Shown
<1>3. pull.ready \in Nat /\ pull.moved \in Nat /\ pull'.ready \in Nat /\ pull'.moved \in Nat
  BY <1>2 DEF Typed, PullRequest, PullRequests
<1>4. \A k \in DOMAIN statuses : statuses[k].at \in Nat /\ statuses[k].at <= now
  BY <1>2, Places DEF Typed, History
<1>5. \A i \in DOMAIN triggers : triggers[i].at \in Nat
  BY <1>2 DEF Comments, Commands
<1> SUFFICES ASSUME NEW i \in DOMAIN triggers', NEW j \in DOMAIN triggers',
                    Repeats(triggers', i, j)
             PROVE  Answered(triggers'[i], triggers'[j], statuses', pull')
  BY <1>1 DEF Unrepeated, Repeats
<1>6. /\ i < j /\ triggers'[i].by \in Run /\ triggers'[j].by \in Run
      /\ Lag = 0 \/ triggers'[i].by = triggers'[j].by
  BY DEF Repeats
<1>7. i \in DOMAIN triggers
  <2>1. DOMAIN triggers' = 1 .. Len(triggers') /\ Len(triggers') \in Nat
    BY DEF Shown, Comments, Commands
  <2> QED
    BY <1>6, <2>1
<1>8. CASE j \in DOMAIN triggers
  <2>1. Answered(triggers[i], triggers[j], statuses, pull)
    BY <1>6, <1>7, <1>8 DEF CInv, Unrepeated, Repeats
  <2> QED
    BY <1>3, <1>5, <1>7, <1>8, <2>1 DEF Answered, Grows
<1>9. CASE j \notin DOMAIN triggers
  <2>1. Followed(triggers[i], statuses, pull) /\ triggers'[j].at = now
    BY <1>6, <1>7, <1>9
  <2> QED
    BY <1>3, <1>4, <1>5, <1>7, <2>1 DEF Answered, Followed, Grows
<1> QED
  BY <1>8, <1>9

-----------------------------------------------------------------------------
(* What a process concludes. *)

\* The evidence process r may have at hand when it decides.
Judged(r, seen) ==
    Evidence(run[r].pull, SubSeq(statuses, 1, run[r].n), pull, summary, findings, seen,
             Shared, run[r].posted)

LEMMA JudgedEvidence ==
  ASSUME CInv, NEW r \in Run, run[r].pc = "rest", NEW seen \in Listed, NEW ev, ev = Judged(r, seen)
  PROVE  LET h == SubSeq(statuses, 1, run[r].n) IN
         /\ Dated(ev, now) /\ ev.history = h /\ ev.shared = Shared /\ ev.findings = findings
         /\ run[r].n \in 0 .. Len(statuses) /\ Len(statuses) \in Nat
         /\ ev.start \in Nat /\ 1 <= ev.start /\ ev.start <= now
         /\ ev.arrival \in Nat /\ 1 <= ev.arrival /\ pull.moved <= ev.arrival
         /\ ev.triggers = HeadTriggers(seen, ev.arrival) \union run[r].posted
         /\ ev.triggers \subseteq ToSet(triggers)
         /\ ev.earlier = IF Newest(h).kind = "none" \/ Newest(h).at < ev.start
                         THEN EarlierReview(summary, ev.start) ELSE NoEarlier
         /\ ev.refusal = IF Newest(h).kind = "rate-limited"
                         THEN CorrelatedWait(summary, Newest(h).at) ELSE NoRefusal
         /\ \A t \in Nat : 2 <= t /\ t < ev.start =>
              t < pull.ready \/ t < pull.moved \/ \E i \in DOMAIN h : t < h[i].at
         /\ \A t \in Nat : 2 <= t /\ t < ev.arrival =>
              t < pull.moved \/ \E i \in DOMAIN h : t < h[i].at
<1> DEFINE h == SubSeq(statuses, 1, run[r].n)
           p == run[r].pull
<1>1. Typed /\ Comments /\ Process(r) /\ Resting(r)
  BY DEF CInv, Shown, Running
<1>2. now \in Nat /\ now >= 2 /\ History(statuses, now) /\ PullRequest(pull, now)
  BY <1>1 DEF Typed
<1>3. run[r].n \in 0 .. Len(statuses) /\ PullRequest(p, now) /\ Len(statuses) \in Nat
  BY <1>1, <1>2 DEF Resting, History
<1>4. History(h, now)
  BY <1>2, <1>3, Prefix
<1>5. ev = Evidence(p, h, pull, summary, findings, seen, Shared, run[r].posted)
  BY DEF Judged
<1> HIDE DEF h, p
<1>6. /\ ev.history = h /\ ev.findings = findings /\ ev.shared = Shared
      /\ ev.arrival = Arrived(p, h, pull) /\ ev.start = Started(p, h, pull)
      /\ ev.triggers = HeadTriggers(seen, Arrived(p, h, pull)) \union run[r].posted
      /\ ev.earlier = IF Newest(h).kind = "none" \/ Newest(h).at < Started(p, h, pull)
                      THEN EarlierReview(summary, Started(p, h, pull)) ELSE NoEarlier
      /\ ev.refusal = IF Newest(h).kind = "rate-limited"
                      THEN CorrelatedWait(summary, Newest(h).at) ELSE NoRefusal
  BY <1>2, <1>3, <1>5, EvidenceFields
<1>7. /\ ev.arrival \in Nat /\ ev.start \in Nat /\ 1 <= ev.arrival /\ ev.arrival <= ev.start
      /\ ev.start <= now /\ pull.moved <= ev.arrival
      /\ \/ ev.arrival \in {1, 2, pull.moved}
         \/ \E i \in DOMAIN h : ev.arrival = h[i].at
      /\ ev.start \in {ev.arrival, 1, pull.ready}
  BY <1>2, <1>3, <1>4, <1>6, Arrival
<1>8. ev.triggers \subseteq ToSet(triggers)
  BY <1>1, <1>6 DEF HeadTriggers, Listed, Process
<1>9. \A u \in ToSet(triggers) : u.at \in Nat /\ u.at <= now
  BY <1>1 DEF Comments, Commands, ToSet
<1>10. Dated(ev, now)
  BY <1>2, <1>4, <1>6, <1>7, <1>8, <1>9 DEF Dated
<1>11. \A t \in Nat : 2 <= t /\ t < ev.arrival =>
         t < pull.moved \/ \E i \in DOMAIN h : t < h[i].at
  BY <1>7
<1>12. \A t \in Nat : 2 <= t /\ t < ev.start =>
         t < pull.ready \/ t < pull.moved \/ \E i \in DOMAIN h : t < h[i].at
  BY <1>7, <1>11
<1> QED
  BY <1>3, <1>6, <1>7, <1>8, <1>10, <1>11, <1>12 DEF h

\* A review of an earlier head that has not ended may run for an hour.
LEMMA EarlierRuns ==
  ASSUME NEW start \in Nat, 1 <= start, NEW s, Len(s) = 1, DOMAIN s = 1 .. Len(s), s[1].busy,
         s[1].at = 1
  PROVE  EarlierReview(s, start) = [found |-> TRUE, ended |-> 0]
<1> DEFINE old == {i \in DOMAIN s : s[i].at <= start}
           last == CHOOSE i \in old : \A j \in old \ {i} : Before(s, j, i)
           shown == ShownFrom(s, start)
           busy == {i \in shown : s[i].busy}
           after == {i \in shown \ busy : \A b \in busy : s[b].at < s[i].at}
<1>1. DOMAIN s = {1}
  OBVIOUS
<1>2. old = {1}
  BY <1>1
<1>3. last = 1
  BY <1>2
<1>4. shown = (DOMAIN s \ old) \union (IF old = {} THEN {} ELSE {last})
  BY DEF ShownFrom
<1>5. shown = {1}
  <2> HIDE DEF old, last, shown
  <2> QED
    BY <1>1, <1>2, <1>3, <1>4
<1> HIDE DEF shown
<1>6. busy = {1}
  BY <1>5
<1>7. after = {}
  BY <1>5, <1>6
<1>8. EarlierReview(s, start) =
        IF busy = {} THEN NoEarlier
        ELSE [found |-> TRUE,
              ended |-> IF after = {} THEN 0 ELSE Min({s[i].at : i \in after})]
  BY DEF EarlierReview, shown
<1> QED
  BY <1>6, <1>7, <1>8

LEMMA TriggerSound ==
  ASSUME CInv, NEW r \in Run, run[r].pc = "rest", NEW seen \in Listed, NEW ev, ev = Judged(r, seen),
         Decide(ev, Sha, now).state \in TriggerStates
  PROVE  /\ OwnDraftSkips /\ StillReviewing(r) => bot.since = 0
         /\ bot.doing = "earlier" => \/ Newest(ev.history).at >= ev.start
                                     \/ now >= ev.start + InProgress
         /\ \A i \in DOMAIN triggers :
              triggers[i].by \in Run /\ (Lag = 0 \/ triggers[i].by = r) =>
                Followed(triggers[i], statuses, pull)
<1> DEFINE h == SubSeq(statuses, 1, run[r].n)
           status == CurrentStatus(ev)
<1>1. /\ Typed /\ Versions /\ Comments /\ Bot /\ Process(r) /\ Resting(r)
      /\ now \in Nat /\ History(statuses, now)
  BY DEF CInv, Shown, Running, Typed
<1>2. /\ Dated(ev, now) /\ ev.history = h /\ ev.shared = Shared
      /\ run[r].n \in 0 .. Len(statuses) /\ Len(statuses) \in Nat
      /\ ev.start \in Nat /\ 1 <= ev.start
      /\ ev.triggers = HeadTriggers(seen, ev.arrival) \union run[r].posted
      /\ ev.triggers \subseteq ToSet(triggers) /\ ev.arrival \in Nat
      /\ ev.earlier = IF Newest(h).kind = "none" \/ Newest(h).at < ev.start
                      THEN EarlierReview(summary, ev.start) ELSE NoEarlier
      /\ \A t \in Nat : 2 <= t /\ t < ev.start =>
           t < pull.ready \/ t < pull.moved \/ \E i \in DOMAIN h : t < h[i].at
      /\ \A t \in Nat : 2 <= t /\ t < ev.arrival =>
           t < pull.moved \/ \E i \in DOMAIN h : t < h[i].at
  BY JudgedEvidence
<1>3. History(h, now) /\ \A i \in DOMAIN h : i \in DOMAIN statuses /\ h[i] = statuses[i]
  <2>1. History(statuses, now) /\ run[r].n \in 0 .. Len(statuses)
    BY <1>1, <1>2
  <2>2. /\ History(h, now) /\ DOMAIN h = 1 .. run[r].n
        /\ \A i \in 1 .. run[r].n : i \in DOMAIN statuses /\ h[i] = statuses[i]
    BY ONLY <2>1, Prefix
  <2> QED
    BY <2>2
<1> HIDE DEF h
<1>4. status.kind # "in-progress" /\ ~TriggerNewer(ev) /\ ~Expecting(ev, now)
  BY TriggerDecided
<1>5. /\ status.at \in Nat /\ status.at <= Newest(h).at
      /\ (\E i \in DOMAIN h : status = h[i]) \/ (h = <<>> /\ status = NoStatus)
  <2>1. ev.history = h /\ History(ev.history, now)
    BY <1>2, <1>3
  <2> QED
    BY <2>1, CurrentIn
<1> HIDE DEF status
<1>6. OwnDraftSkips /\ StillReviewing(r) => bot.since = 0
  <2> SUFFICES ASSUME OwnDraftSkips, StillReviewing(r), bot.since # 0 PROVE FALSE
    OBVIOUS
  <2>1. InReview(h, bot.since, Shared)
    BY <1>1 DEF Resting, StillReviewing, h
  <2>2. History(ev.history, now) /\ InReview(ev.history, bot.since, ev.shared)
    BY <1>2, <1>3, <2>1
  <2>3. status.kind = "in-progress"
    BY <2>2, ReviewCounts DEF status
  <2> QED
    BY <1>4, <2>3
<1>7. ASSUME bot.doing = "earlier", ~(Newest(h).at >= ev.start)
      PROVE  now >= ev.start + InProgress
  <2>1. Len(summary) = 1 /\ summary[1].busy /\ summary[1].at = 1
    BY <1>1, <1>7 DEF Bot
  <2>2. DOMAIN summary = 1 .. Len(summary)
    BY <1>1 DEF Versions
  <2>3. Newest(h).at \in Nat
    BY <1>3, Places DEF NoStatus
  <2>4. Newest(h).at < ev.start
    BY <1>2, <1>7, <2>3
  <2>5. ev.earlier = EarlierReview(summary, ev.start)
    BY <1>2, <2>4
  <2>6. ev.earlier = [found |-> TRUE, ended |-> 0]
    BY <1>2, <2>2, <2>1, <2>5, EarlierRuns
  <2>7. AwaitUntil(ev) = ev.start + InProgress
    BY <2>6 DEF AwaitUntil
  <2>8. ev.start > status.at
    BY <1>2, <1>5, <1>7, <2>3
  <2>9. ~(now < AwaitUntil(ev))
    BY <1>4, <2>8 DEF Expecting, status
  <2> QED
    BY <1>1, <1>2, <2>7, <2>9, BoundsAssumption
<1>8. ASSUME NEW i \in DOMAIN triggers, triggers[i].by \in Run, Lag = 0 \/ triggers[i].by = r
      PROVE  Followed(triggers[i], statuses, pull)
  <2> DEFINE t == triggers[i]
  <2>1. t \in ToSet(triggers) /\ t.at \in Nat /\ 2 <= t.at /\ t.at <= now
    BY <1>1 DEF Comments, Commands, ToSet
  <2>2. t \in seen \/ t \in run[r].posted
    <3>1. CASE t.by = r
      BY <1>1, <3>1 DEF Process
    <3>2. CASE Lag = 0
      BY <1>1, <2>1, <3>2 DEF Listed
    <3> QED
      BY <1>8, <3>1, <3>2
  <2> HIDE DEF t
  <2>3. (\E j \in DOMAIN h : t.at < h[j].at) => \E k \in DOMAIN statuses : t.at < statuses[k].at
    BY <1>3
  <2>4. CASE t.at < ev.start
    <3>1. t.at < pull.ready \/ t.at < pull.moved \/ \E j \in DOMAIN h : t.at < h[j].at
      BY <1>2, <2>1, <2>4
    <3> QED
      BY <2>3, <3>1 DEF Followed, t
  <2>5. CASE t.at < ev.arrival
    <3>1. t.at < pull.moved \/ \E j \in DOMAIN h : t.at < h[j].at
      BY <1>2, <2>1, <2>5
    <3> QED
      BY <2>3, <3>1 DEF Followed, t
  <2>6. CASE ~(t.at < ev.start) /\ ~(t.at < ev.arrival)
    <3>1. t \in Cycle(ev)
      BY <1>2, <2>1, <2>2, <2>6 DEF Cycle, HeadTriggers
    <3>2. Cycle(ev) \subseteq ToSet(triggers) /\ Cycle(ev) # {}
      BY <1>2, <3>1 DEF Cycle
    <3>3. Latest(Cycle(ev)) \in ToSet(triggers) /\ t.at <= Latest(Cycle(ev)).at
      BY <1>1, <3>1, <3>2, LatestOf DEF Comments
    <3>4. Latest(Cycle(ev)).at \in Nat
      BY <1>1, <3>3 DEF Comments, Commands, ToSet
    <3>5. t.at < status.at
      BY <1>4, <1>5, <2>1, <3>2, <3>3, <3>4 DEF TriggerNewer, status
    <3>6. \E k \in DOMAIN h : t.at < h[k].at
      BY <1>5, <2>1, <3>5 DEF NoStatus
    <3> QED
      BY <1>3, <3>6 DEF Followed, t
  <2> QED
    BY <2>4, <2>5, <2>6
<1> QED
  BY <1>2, <1>6, <1>7, <1>8

LEMMA CompleteSound ==
  ASSUME CInv, OwnDraftSkips, NEW r \in Run, run[r].pc = "rest", NEW seen \in Listed,
         NEW ev, ev = Judged(r, seen), Decide(ev, Sha, now).state \in CompleteStates
  PROVE  /\ ~StillReviewing(r)
         /\ bot.lost => run[r].n < Len(statuses)
         /\ bot.ended > pull.moved /\ bot.ended >= pull.pushed
         /\ \A t \in run[r].posted : bot.ended > t.at
<1> DEFINE h == SubSeq(statuses, 1, run[r].n)
<1>1. /\ Typed /\ Comments /\ Bot /\ Process(r) /\ Resting(r)
      /\ now \in Nat /\ History(statuses, now) /\ findings \in Nat /\ findings <= now
      /\ CodeRabbit(bot, now) /\ PullRequest(pull, now)
  BY DEF CInv, Shown, Running, Typed
<1>2. /\ Dated(ev, now) /\ ev.history = h /\ ev.shared = Shared /\ ev.findings = findings
      /\ run[r].n \in 0 .. Len(statuses) /\ Len(statuses) \in Nat
      /\ 1 <= ev.arrival /\ pull.moved <= ev.arrival /\ ev.arrival \in Nat
      /\ ev.triggers = HeadTriggers(seen, ev.arrival) \union run[r].posted
      /\ ev.triggers \subseteq ToSet(triggers)
  BY JudgedEvidence
<1>3. History(h, now) /\ \A i \in DOMAIN h : i \in DOMAIN statuses /\ h[i] = statuses[i]
  <2>1. History(statuses, now) /\ run[r].n \in 0 .. Len(statuses)
    BY <1>1, <1>2
  <2>2. /\ History(h, now) /\ DOMAIN h = 1 .. run[r].n
        /\ \A i \in 1 .. run[r].n : i \in DOMAIN statuses /\ h[i] = statuses[i]
    BY ONLY <2>1, Prefix
  <2> QED
    BY <2>2
<1> HIDE DEF h
<1>4. ~StillReviewing(r)
  <2> SUFFICES ASSUME StillReviewing(r) PROVE FALSE
    OBVIOUS
  <2>1. bot.since \in Nat /\ 1 <= bot.since /\ bot.doing = "head" /\ run[r].reviewing = bot.since
    BY <1>1 DEF CodeRabbit, StillReviewing
  <2>2. InReview(h, bot.since, Shared) /\ findings <= bot.since
    BY <1>1, <2>1 DEF Resting, Bot, h
  <2>3. PICK i \in DOMAIN h : /\ h[i].kind = "in-progress" /\ h[i].at = bot.since
                              /\ \A j \in i + 1 .. Len(h) : Shared /\ h[j].kind = "skipped"
    BY <2>2 DEF InReview
  <2>4. \A j \in i + 1 .. Len(h) : h[j].kind \notin Ending(ev) \union {"completed"}
    BY <1>2, <2>3 DEF Ending
  <2> QED
    BY <1>1, <1>2, <2>2, <2>3, <2>4, NotComplete
<1>5. ASSUME bot.lost, ~(run[r].n < Len(statuses)) PROVE FALSE
  <2>1. run[r].n = Len(statuses)
    BY <1>2, <1>5
  <2>2. h = statuses
    <3>1. Len(h) = Len(statuses) /\ h \in Seq(Statuses) /\ statuses \in Seq(Statuses)
      BY <1>1, <1>2, <1>3, <2>1, Prefix DEF History, h
    <3>2. \A i \in DOMAIN h : h[i] = statuses[i]
      BY <1>3
    <3> QED
      BY <3>1, <3>2
  <2>3. Unfinished(h, findings, Shared)
    BY <1>1, <1>5, <2>2 DEF Bot
  <2>4. PICK i \in DOMAIN h : /\ h[i].kind = "in-progress" /\ h[i].at >= findings
                              /\ \A j \in i + 1 .. Len(h) : h[j].kind \notin Ends(Shared)
    BY <2>3 DEF Unfinished
  <2>5. \A j \in i + 1 .. Len(h) : h[j].kind \notin Ending(ev) \union {"completed"}
    BY <1>2, <2>4 DEF Ending, Ends
  <2>6. h[i].at \in Nat
    BY <1>3, Places
  <2> QED
    BY <1>1, <1>2, <2>4, <2>5, <2>6, NotComplete
<1>6. /\ bot.ended \in Nat /\ bot.ended > ReviewedSince(ev) /\ ReviewedSince(ev) \in Nat
  <2>1. ReviewedSince(ev) \in Nat
    BY <1>2, Since
  <2>2. bot.ended \in Nat /\ bot.ended >= findings
    BY <1>1 DEF Bot, CodeRabbit
  <2>3. CASE ev.findings > ReviewedSince(ev)
    BY <1>1, <1>2, <2>1, <2>2, <2>3
  <2>4. CASE CompletedAt(ev) > ReviewedSince(ev)
    <3>1. CompletedAt(ev) # 0
      BY <2>1, <2>4
    <3>2. ev.history = h /\ History(ev.history, now) /\ now \in Nat
      BY <1>1, <1>2, <1>3
    <3>3. PICK i \in DOMAIN h : h[i].kind = "completed" /\ CompletedAt(ev) = h[i].at
      BY <3>1, <3>2, Completed
    <3>4. bot.ended >= h[i].at /\ h[i].at \in Nat
      BY <1>1, <1>3, <3>3, Places DEF Bot
    <3> QED
      BY <2>1, <2>2, <2>4, <3>3, <3>4
  <2> QED
    BY <2>3, <2>4, CompleteDecided
<1>7. bot.ended > pull.moved /\ bot.ended >= pull.pushed
  <2>1. ev.arrival <= ReviewedSince(ev)
    BY <1>2, Since
  <2>2. pull.moved \in Nat /\ pull.pushed = 2
    BY <1>1 DEF PullRequest, PullRequests
  <2> QED
    BY <1>2, <1>6, <2>1, <2>2
<1>8. ASSUME NEW t \in run[r].posted PROVE bot.ended > t.at
  <2>1. t \in ev.triggers /\ t.at <= ReviewedSince(ev)
    BY <1>2, Since
  <2>2. t.at \in Nat
    BY <1>2, <2>1 DEF Dated
  <2> QED
    BY <1>6, <2>1, <2>2
<1> QED
  BY <1>4, <1>5, <1>7, <1>8

-----------------------------------------------------------------------------
(* The process that moves. *)

LEMMA StepKeeps ==
  ASSUME CInv, Shown', Grows, UNCHANGED world, now <= now', NEW r \in Run, DOMAIN run' = Run,
         \A s \in Run \ {r} : run'[s] = run[s] /\ (lock' = s <=> lock = s),
         Running(r)', Unrepeated',
         \A i \in DOMAIN triggers : i \in DOMAIN triggers' /\ triggers'[i] = triggers[i],
         \A i \in DOMAIN triggers' :
           i \in DOMAIN triggers \/ (triggers'[i].by = r /\ run[r].pc = "post")
  PROVE  CInv'
<1>1. ASSUME NEW s \in Run \ {r} PROVE Running(s)'
  <2>1. run[r].pc = "post" => run[s].pc # "post"
    BY DEF CInv, Running, Process, Working
  <2>2. \A i \in DOMAIN triggers' : \/ i \in DOMAIN triggers
                                    \/ /\ triggers'[i].by # s
                                       /\ triggers'[i].by \in Run => run[s].pc # "post"
    BY <2>1
  <2> QED
    BY <2>2, OtherKeeps
<1> QED
  BY <1>1 DEF CInv

LEMMA SilentShown ==
  ASSUME CInv, UNCHANGED <<world, github>>, now' \in Nat, now <= now'
  PROVE  Shown' /\ Grows /\ Unrepeated'
<1>1. UNCHANGED <<world, pull, statuses, summary, findings, triggers, bot>>
  BY DEF github
<1>2. Typed /\ Versions /\ Comments /\ Bot /\ now \in Nat
  BY DEF CInv, Shown, Typed
<1>3. Typed'
  <2>1. History(statuses, now') /\ PullRequest(pull, now')
    BY <1>2, LaterHistory, LaterPull DEF Typed
  <2>2. CodeRabbit(bot, now')
    BY <1>2 DEF Typed, CodeRabbit
  <2> QED
    BY <1>1, <1>2, <2>1, <2>2 DEF Typed
<1>4. Versions'
  <2>1. \A i \in DOMAIN summary : summary[i].at \in Nat
    <3>1. \A i \in DOMAIN summary : summary[i] \in Version_
      BY <1>2 DEF Versions
    <3> QED
      BY <3>1 DEF Version_
  <2> QED
    BY <1>1, <1>2, <2>1 DEF Versions
<1>5. Comments'
  BY <1>1, <1>2, LaterCommands DEF Comments
<1>6. Bot'
  BY <1>1, <1>2 DEF Bot, OwnDraftSkips, Shared, May
<1>7. Grows
  BY <1>1, <1>2 DEF Grows, Typed, History, PullRequest, PullRequests
<1>8. Unrepeated'
  BY <1>1 DEF CInv, Unrepeated, Repeats, Lag
<1> QED
  BY <1>3, <1>4, <1>5, <1>6, <1>7, <1>8 DEF Shown

\* A process that neither observes nor decides.
LEMMA QuietStep ==
  ASSUME CInv, NEW r \in Run, UNCHANGED <<world, now, github>>, NEW f, run' = [run EXCEPT ![r] = f],
         \A s \in Run \ {r} : lock' = s <=> lock = s,
         DOMAIN f = Fields, f.pc \in {"lock", "done", "dead", "read", "sleep"},
         f.pc \in Working <=> lock' = r,
         f.pc \in {"lock", "sleep", "read"} => f.item.state = "pending",
         f.posted \subseteq run[r].posted,
         f.pc \notin {"done", "dead"} =>
           run[r].pc \notin {"done", "dead"} /\ f.posted = run[r].posted
  PROVE  CInv'
<1>1. UNCHANGED triggers
  BY DEF github
<1>2. Shown' /\ Grows /\ Unrepeated'
  BY SilentShown DEF CInv, Shown, Typed
<1>3. DOMAIN run = Run /\ Process(r)
  BY DEF CInv, Running
<1>4. /\ DOMAIN run' = Run /\ run'[r] = f
      /\ \A s \in Run \ {r} : run'[s] = run[s]
  BY <1>3
<1>5. Process(r)'
  <2>1. f.posted \subseteq ToSet(triggers)
    BY <1>3 DEF Process
  <2>2. f.pc \notin {"done", "dead"} =>
          \A i \in DOMAIN triggers : triggers[i].by = r => triggers[i] \in f.posted
    BY <1>3 DEF Process
  <2>3. f.pc \in {"lock", "done", "dead"} \union Working
    BY DEF Working
  <2> QED
    BY <1>1, <1>4, <2>1, <2>2, <2>3 DEF Process
<1>6. Resting(r)' /\ Posting(r)' /\ Idle(r)'
  BY <1>4 DEF Resting, Posting, Idle
<1>7. now <= now'
  BY DEF CInv, Shown, Typed
<1> QED
  BY <1>1, <1>2, <1>4, <1>5, <1>6, <1>7, StepKeeps DEF Running

LEMMA FinishKeeps ==
  ASSUME CInv, NEW r \in Run, NEW item, Finish(r, item), run[r].pc \in Working,
         UNCHANGED <<world, now, github>>
  PROVE  CInv'
<1> DEFINE f == [Fresh EXCEPT !.pc = "done", !.item = item]
<1>1. lock' = Free /\ run' = [run EXCEPT ![r] = f]
  BY DEF Finish
<1>2. DOMAIN f = Fields /\ f.pc = "done" /\ f.posted = {}
  BY DEF Fresh, Fields
<1> HIDE DEF f
<1>3. lock = r /\ \A s \in Run : Free # s
  BY RunAssumption DEF Free, CInv, Running, Process
<1> QED
  BY <1>1, <1>2, <1>3, QuietStep DEF Working

LEMMA SleepKeeps ==
  ASSUME CInv, NEW r \in Run, NEW wakes, Sleep(r, run[r].posted, wakes), run[r].pc \in Working,
         UNCHANGED <<world, now, github, lock>>
  PROVE  CInv'
<1> DEFINE f == [Fresh EXCEPT !.pc = "sleep", !.posted = run[r].posted,
                              !.wake = Min(wakes \union {now + Interval})]
<1>1. run' = [run EXCEPT ![r] = f]
  BY DEF Sleep
<1>2. DOMAIN f = Fields /\ f.pc = "sleep" /\ f.posted = run[r].posted
      /\ f.item = Result("pending", "", 0)
  BY DEF Fresh, Fields
<1> HIDE DEF f
<1>3. lock = r /\ run[r].pc \notin {"done", "dead"}
  BY DEF CInv, Running, Process, Working
<1>4. f.item.state = "pending"
  BY <1>2, PendingState
<1>5. f.pc \in Working
  BY <1>2 DEF Working
<1> QED
  <2>1. f.pc \in {"lock", "done", "dead", "read", "sleep"} /\ f.pc \notin {"done", "dead"}
    BY <1>2
  <2>2. f.posted \subseteq run[r].posted /\ f.posted = run[r].posted /\ DOMAIN f = Fields
    BY <1>2
  <2>3. (f.pc \in Working <=> lock' = r) /\ \A s \in Run \ {r} : lock' = s <=> lock = s
    BY <1>3, <1>5
  <2> QED
    BY <1>1, <1>3, <1>4, <2>1, <2>2, <2>3, QuietStep

LEMMA AcquireKeeps == ASSUME CInv, NEW r \in Run, Acquire(r) PROVE CInv'
<1>1. run[r].pc = "lock" /\ UNCHANGED <<world, now, github>>
  BY DEF Acquire
<1>2. /\ DOMAIN run[r] = Fields /\ lock # r /\ run[r].item.state = "pending"
      /\ DOMAIN run = Run
  BY <1>1 DEF CInv, Running, Process, Working
<1>3. CASE Available
  <2>1. lock' = r /\ run' = [run EXCEPT ![r].pc = "read"]
    BY <1>3 DEF Acquire
  <2> DEFINE f == [run[r] EXCEPT !.pc = "read"]
  <2>2. run' = [run EXCEPT ![r] = f]
    BY <1>2, <2>1
  <2>3. DOMAIN f = Fields /\ f.pc = "read" /\ f.posted = run[r].posted /\ f.item = run[r].item
    BY <1>2 DEF Fields
  <2> HIDE DEF f
  <2>4. \A s \in Run \ {r} : lock' = s <=> lock = s
    BY <1>3, <2>1, RunAssumption DEF Available, Free
  <2>5. f.item.state = "pending" /\ f.pc \in Working
    BY <1>2, <2>3 DEF Working
  <2> QED
    BY <1>1, <1>2, <2>1, <2>2, <2>3, <2>4, <2>5, QuietStep
<1>4. CASE ~Available /\ OutOfTime
  <2> DEFINE i == Result("lock-held", "", 0)
             f == [run[r] EXCEPT !.pc = "done", !.item = i]
  <2>1. lock' = lock /\ run' = [run EXCEPT ![r] = [@ EXCEPT !.pc = "done", !.item = i]]
    BY <1>4 DEF Acquire
  <2> HIDE DEF i
  <2>2. run' = [run EXCEPT ![r] = f]
    BY <1>2, <2>1
  <2>3. DOMAIN f = Fields /\ f.pc = "done" /\ f.posted = run[r].posted
    BY <1>2 DEF Fields
  <2> HIDE DEF f
  <2> QED
    BY <1>1, <1>2, <2>1, <2>2, <2>3, QuietStep DEF Working
<1>5. CASE ~Available /\ ~OutOfTime
  <2> DEFINE w == Min({now + Interval, Deadline})
             f == [run[r] EXCEPT !.wake = w]
  <2>1. lock' = lock /\ run' = [run EXCEPT ![r].wake = w]
    BY <1>5 DEF Acquire
  <2> HIDE DEF w
  <2>2. run' = [run EXCEPT ![r] = f]
    BY <1>2, <2>1
  <2>3. DOMAIN f = Fields /\ f.pc = "lock" /\ f.posted = run[r].posted /\ f.item = run[r].item
    BY <1>1, <1>2 DEF Fields
  <2> HIDE DEF f
  <2>4. f.item.state = "pending" /\ f.pc \notin Working
    BY <1>2, <2>3 DEF Working
  <2> QED
    BY <1>1, <1>2, <2>1, <2>2, <2>3, <2>4, QuietStep
<1> QED
  BY <1>3, <1>4, <1>5

LEMMA WakeKeeps == ASSUME CInv, NEW r \in Run, Wake(r) PROVE CInv'
<1>1. /\ run[r].pc = "sleep" /\ UNCHANGED <<world, now, github, lock>>
      /\ run' = [run EXCEPT ![r].pc = "read"]
  BY DEF Wake
<1>2. /\ DOMAIN run[r] = Fields /\ lock = r /\ run[r].item.state = "pending"
      /\ DOMAIN run = Run
  BY <1>1 DEF CInv, Running, Process, Working
<1> DEFINE f == [run[r] EXCEPT !.pc = "read"]
<1>3. run' = [run EXCEPT ![r] = f]
  BY <1>1, <1>2
<1>4. DOMAIN f = Fields /\ f.pc = "read" /\ f.posted = run[r].posted /\ f.item = run[r].item
  BY <1>2 DEF Fields
<1> HIDE DEF f
<1>5. f.item.state = "pending" /\ f.pc \in Working
  BY <1>2, <1>4 DEF Working
<1> QED
  BY <1>1, <1>2, <1>3, <1>4, <1>5, QuietStep

LEMMA DieKeeps == ASSUME CInv, NEW r \in Run, Die(r) PROVE CInv'
<1> DEFINE f == [Fresh EXCEPT !.pc = "dead"]
<1>1. /\ UNCHANGED <<world, now, github>> /\ run' = [run EXCEPT ![r] = f]
      /\ lock' = IF lock = r THEN Free ELSE lock
  BY DEF Die
<1>2. DOMAIN f = Fields /\ f.pc = "dead" /\ f.posted = {}
  BY DEF Fresh, Fields
<1> HIDE DEF f
<1>3. \A s \in Run : Free # s
  BY RunAssumption DEF Free
<1> QED
  BY <1>1, <1>2, <1>3, QuietStep DEF Working

LEMMA ReadFailsKeeps == ASSUME CInv, NEW r \in Run, ReadFails(r) PROVE CInv'
<1>1. run[r].pc \in Working /\ UNCHANGED <<world, now, github>>
  BY DEF ReadFails, Working
<1>2. CASE OutOfTime
  BY <1>1, <1>2, FinishKeeps DEF ReadFails
<1>3. CASE ~OutOfTime
  <2>1. UNCHANGED lock /\ Sleep(r, run[r].posted, {Deadline})
    BY <1>3 DEF ReadFails
  <2> QED
    BY <1>1, <2>1, SleepKeeps
<1> QED
  BY <1>2, <1>3

LEMMA ReadHeadKeeps == ASSUME CInv, NEW r \in Run, ReadHead(r) PROVE CInv'
<1> DEFINE since == IF bot.doing = "head" THEN bot.since ELSE 0
           f == [run[r] EXCEPT !.pc = "rest", !.pull = pull, !.n = Len(statuses),
                               !.reviewing = since]
<1>1. /\ run[r].pc = "read" /\ UNCHANGED <<world, now, github, lock>>
      /\ run' = [run EXCEPT ![r] = [@ EXCEPT !.pc = "rest", !.pull = pull, !.n = Len(statuses),
                                             !.reviewing = since]]
  BY DEF ReadHead
<1>2. /\ DOMAIN run[r] = Fields /\ lock = r /\ run[r].item.state = "pending" /\ Process(r)
      /\ DOMAIN run = Run /\ Typed /\ Bot /\ now \in Nat
  BY <1>1 DEF CInv, Shown, Running, Process, Working, Typed
<1>3. /\ since \in Nat
      /\ OwnDraftSkips /\ since # 0 => InReview(statuses, since, Shared)
  BY <1>2 DEF Typed, CodeRabbit, Bot
<1> HIDE DEF since
<1>4. run' = [run EXCEPT ![r] = f]
  BY <1>1, <1>2
<1>5. /\ DOMAIN f = Fields /\ f.pc = "rest" /\ f.posted = run[r].posted /\ f.item = run[r].item
      /\ f.pull = pull /\ f.n = Len(statuses) /\ f.reviewing = since
  BY <1>2 DEF Fields
<1> HIDE DEF f
<1>6. /\ DOMAIN run' = Run /\ run'[r] = f
      /\ \A s \in Run \ {r} : run'[s] = run[s]
  BY <1>2, <1>4
<1>7. UNCHANGED <<triggers, statuses, pull, bot, world, now, lock>>
  BY <1>1 DEF github
<1>8. Shown' /\ Grows /\ Unrepeated'
  BY <1>1, <1>2, SilentShown
<1>9. Process(r)'
  BY <1>1, <1>2, <1>5, <1>6, <1>7 DEF Process, Working
<1>10. Resting(r)'
  <2>1. /\ Len(statuses) \in Nat /\ SubSeq(statuses, 1, Len(statuses)) = statuses
    BY <1>2, SubSeqFull DEF Typed, History
  <2>2. Shared' = Shared /\ OwnDraftSkips' = OwnDraftSkips
    BY <1>7 DEF Shared, OwnDraftSkips, May
  <2>3. Len(statuses) \in 0 .. Len(statuses) /\ PullRequest(pull, now)
    BY <1>2, <2>1 DEF Typed
  <2> QED
    BY <1>3, <1>5, <1>6, <1>7, <2>1, <2>2, <2>3 DEF Resting
<1>11. Posting(r)' /\ Idle(r)'
  BY <1>5, <1>6 DEF Posting, Idle
<1> QED
  BY <1>2, <1>6, <1>7, <1>8, <1>9, <1>10, <1>11, StepKeeps DEF Running

LEMMA ReadRestKeeps == ASSUME CInv, NEW r \in Run, ReadRest(r) PROVE CInv'
<1>1. run[r].pc = "rest" /\ UNCHANGED <<world, now, github>>
  BY DEF ReadRest
<1>2. PICK seen \in Listed :
        LET ev == Judged(r, seen)
            item == Decide(ev, Sha, now)
        IN  IF item.state \in TriggerStates /\ ~OutOfTime
            THEN /\ run' = [run EXCEPT ![r] =
                      [@ EXCEPT !.pc = "post", !.ev = ev, !.item = item, !.wake = now,
                                !.reviewing = IF StillReviewing(r) THEN bot.since ELSE 0,
                                !.earlier = (bot.doing = "earlier")]]
                 /\ UNCHANGED lock
            ELSE Settle(r, ev, item)
  BY DEF ReadRest, Judged, Evidence
<1> DEFINE ev == Judged(r, seen)
           item == Decide(ev, Sha, now)
<1>3. run[r].pc \in Working /\ lock = r /\ DOMAIN run[r] = Fields /\ DOMAIN run = Run
  BY <1>1 DEF CInv, Running, Process, Working
<1>4. CASE ~(item.state \in TriggerStates /\ ~OutOfTime)
  <2>1. Settle(r, ev, item)
    BY <1>2, <1>4
  <2> HIDE DEF item
  <2>2. \/ Finish(r, item)
        \/ UNCHANGED lock /\ Sleep(r, run[r].posted, {Deadline, item.wake} \ {0})
    BY <2>1 DEF Settle
  <2> QED
    BY <1>1, <1>3, <2>2, FinishKeeps, SleepKeeps
<1>5. CASE item.state \in TriggerStates /\ ~OutOfTime
  <2> DEFINE since == IF StillReviewing(r) THEN bot.since ELSE 0
             early == (bot.doing = "earlier")
             f == [run[r] EXCEPT !.pc = "post", !.ev = ev, !.item = item, !.wake = now,
                                 !.reviewing = since, !.earlier = early]
  <2>1. /\ run' = [run EXCEPT ![r] =
                     [@ EXCEPT !.pc = "post", !.ev = ev, !.item = item, !.wake = now,
                               !.reviewing = since, !.earlier = early]]
        /\ UNCHANGED lock
    BY <1>2, <1>5
  <2>2. /\ OwnDraftSkips => since = 0
        /\ early => \/ Newest(ev.history).at >= ev.start
                    \/ now >= ev.start + InProgress
        /\ \A i \in DOMAIN triggers :
             triggers[i].by \in Run /\ (Lag = 0 \/ triggers[i].by = r) =>
               Followed(triggers[i], statuses, pull)
    BY <1>1, <1>5, TriggerSound
  <2> HIDE DEF ev, item, since, early
  <2>3. run' = [run EXCEPT ![r] = f]
    BY <1>3, <2>1
  <2>4. /\ DOMAIN f = Fields /\ f.pc = "post" /\ f.posted = run[r].posted /\ f.ev = ev
        /\ f.reviewing = since /\ f.wake = now
    BY <1>3 DEF Fields
  <2>5. f.earlier = early
    BY <1>3 DEF Fields
  <2> HIDE DEF f
  <2>6. /\ DOMAIN run' = Run /\ run'[r] = f
        /\ \A s \in Run \ {r} : run'[s] = run[s]
    BY <1>3, <2>3
  <2>7. UNCHANGED <<triggers, statuses, pull, bot, world, now, lock>>
    BY <1>1, <2>1 DEF github
  <2>8. Shown' /\ Grows /\ Unrepeated' /\ now \in Nat
    BY <1>1, SilentShown DEF CInv, Shown, Typed
  <2>9. Process(r)'
    BY <1>1, <1>3, <2>4, <2>6, <2>7 DEF CInv, Running, Process, Working
  <2>10. Resting(r)'
    BY <2>4, <2>6 DEF Resting
  <2>11. Posting(r)'
    BY <2>2, <2>6, <2>7 DEF Posting, Lag
  <2>12. Idle(r)'
    BY <2>2, <2>4, <2>5, <2>6, <2>7 DEF Idle, OwnDraftSkips, Shared, May
  <2> QED
    BY <2>6, <2>7, <2>8, <2>9, <2>10, <2>11, <2>12, StepKeeps DEF Running
<1> QED
  BY <1>4, <1>5

\* A comment of process r at its post.
LEMMA CommentStep ==
  ASSUME CInv, NEW r \in Run, run[r].pc = "post", NEW mode, Comment(mode, r),
         UNCHANGED <<world, now, pull, statuses, summary, findings, bot>>,
         NEW f, run' = [run EXCEPT ![r] = f], lock' \in {lock, Free},
         DOMAIN f = Fields, f.pc \in {"sleep", "done"}, f.pc = "sleep" <=> lock' = r,
         f.pc = "sleep" => /\ f.item.state = "pending"
                           /\ f.posted = run[r].posted \union {Last(triggers')},
         f.pc = "done" => f.posted = {}
  PROVE  CInv'
<1>1. Shown /\ Process(r) /\ Posting(r) /\ DOMAIN run = Run /\ now \in Nat
  BY DEF CInv, Running, Shown, Typed
<1>2. /\ Shown' /\ Grows
      /\ Len(triggers) \in Nat /\ DOMAIN triggers = 1 .. Len(triggers)
      /\ DOMAIN triggers' = 1 .. Len(triggers) + 1
      /\ \A i \in DOMAIN triggers : i \in DOMAIN triggers' /\ triggers'[i] = triggers[i]
      /\ triggers'[Len(triggers) + 1].by = r /\ triggers'[Len(triggers) + 1].at = now
      /\ ToSet(triggers') = ToSet(triggers) \union {triggers'[Len(triggers) + 1]}
      /\ Last(triggers') = triggers'[Len(triggers) + 1]
  BY <1>1, CommentKeeps
<1>3. /\ DOMAIN run' = Run /\ run'[r] = f
      /\ \A s \in Run \ {r} : run'[s] = run[s]
  BY <1>1
<1>4. \A i \in DOMAIN triggers' : i \in DOMAIN triggers \/ i = Len(triggers) + 1
  BY <1>2
<1>5. lock = r /\ \A s \in Run : s # Free
  BY <1>1, RunAssumption DEF Process, Working, Free
<1>6. Unrepeated'
  <2>1. \A j \in DOMAIN triggers :
          triggers[j].by \in Run /\ (Lag = 0 \/ triggers[j].by = r) =>
            Followed(triggers[j], statuses, pull)
    BY <1>1 DEF Posting
  <2>2. \A i \in DOMAIN triggers' :
          \/ i \in DOMAIN triggers \/ triggers'[i].by \notin Run
          \/ /\ triggers'[i].at = now /\ \A j \in DOMAIN triggers' : j <= i
             /\ \A j \in DOMAIN triggers :
                  triggers[j].by \in Run /\ (Lag = 0 \/ triggers[j].by = triggers'[i].by) =>
                    Followed(triggers[j], statuses, pull)
    BY <1>2, <1>4, <2>1
  <2> QED
    BY <1>2, <2>2, StillUnrepeated
<1>7. Process(r)'
  <2>1. f.posted \subseteq ToSet(triggers')
    BY <1>1, <1>2 DEF Process
  <2>2. ASSUME f.pc = "sleep", NEW i \in DOMAIN triggers', triggers'[i].by = r
        PROVE  triggers'[i] \in f.posted
    <3>1. CASE i \in DOMAIN triggers
      BY <1>1, <1>2, <2>2, <3>1 DEF Process
    <3>2. CASE i = Len(triggers) + 1
      BY <1>2, <2>2, <3>2
    <3> QED
      BY <1>4, <3>1, <3>2
  <2>3. /\ f.pc \in {"lock", "done", "dead"} \union Working
        /\ f.pc \in Working <=> lock' = r
    BY DEF Working
  <2>4. f.pc \notin {"done", "dead"} => f.pc = "sleep"
    OBVIOUS
  <2>5. f.pc \in {"lock", "sleep", "read", "rest"} => f.item.state = "pending"
    BY <2>4
  <2> QED
    BY <1>3, <2>1, <2>2, <2>3, <2>4, <2>5 DEF Process
<1>8. Resting(r)' /\ Posting(r)' /\ Idle(r)'
  BY <1>3 DEF Resting, Posting, Idle
<1>9. \A s \in Run \ {r} : lock' = s <=> lock = s
  BY <1>5
<1>10. \A i \in DOMAIN triggers' :
         i \in DOMAIN triggers \/ (triggers'[i].by = r /\ run[r].pc = "post")
  BY <1>2, <1>4
<1>11. now <= now'
  BY <1>1
<1> QED
  BY <1>2, <1>3, <1>6, <1>7, <1>8, <1>9, <1>10, <1>11, StepKeeps DEF Running

LEMMA PostTriggerKeeps == ASSUME CInv, NEW r \in Run, PostTrigger(r) PROVE CInv'
<1> DEFINE posted == run[r].posted \union {Last(triggers')}
           ev == WithPosted(run[r].ev, posted)
           item == Decide(ev, Sha, now)
           wakes == {Deadline, item.wake}
           f == [Fresh EXCEPT !.pc = "done", !.item = item]
           g == [Fresh EXCEPT !.pc = "sleep", !.posted = posted,
                              !.wake = Min(wakes \union {now + Interval})]
<1>1. /\ run[r].pc = "post" /\ Comment(run[r].item.mode, r)
      /\ UNCHANGED <<world, now, pull, statuses, summary, findings, bot>>
      /\ \/ lock' = Free /\ run' = [run EXCEPT ![r] = f]
         \/ UNCHANGED lock /\ run' = [run EXCEPT ![r] = g]
  BY DEF PostTrigger, Finish, Sleep
<1>2. DOMAIN f = Fields /\ f.pc = "done" /\ f.posted = {}
  <2> HIDE DEF item
  <2> QED
    BY DEF Fresh, Fields
<1>3. DOMAIN g = Fields /\ g.pc = "sleep" /\ g.posted = posted /\ g.item.state = "pending"
  <2> HIDE DEF item, posted, wakes
  <2>1. /\ DOMAIN g = Fields /\ g.pc = "sleep" /\ g.posted = posted
        /\ g.item = Result("pending", "", 0)
    BY DEF Fresh, Fields
  <2> HIDE DEF g
  <2> QED
    BY <2>1, PendingState
<1> HIDE DEF f, g
<1>4. lock = r /\ Free # r
  BY <1>1, RunAssumption DEF CInv, Running, Process, Working, Free
<1>5. CASE lock' = Free /\ run' = [run EXCEPT ![r] = f]
  BY <1>1, <1>2, <1>4, <1>5, CommentStep
<1>6. CASE UNCHANGED lock /\ run' = [run EXCEPT ![r] = g]
  BY <1>1, <1>3, <1>4, <1>6, CommentStep
<1> QED
  BY <1>1, <1>5, <1>6

LEMMA PostFailsKeeps == ASSUME CInv, NEW r \in Run, PostFails(r) PROVE CInv'
<1> DEFINE item == Result("operational-error", "", 0)
           f == [Fresh EXCEPT !.pc = "done", !.item = item]
<1>1. /\ run[r].pc = "post" /\ Finish(r, item)
      /\ UNCHANGED <<world, now, pull, statuses, summary, findings, bot>>
      /\ UNCHANGED triggers \/ Comment(run[r].item.mode, r)
  BY DEF PostFails
<1> HIDE DEF item
<1>2. CASE UNCHANGED triggers
  <2>1. UNCHANGED <<world, now, github>>
    BY <1>1, <1>2 DEF github
  <2> QED
    BY <1>1, <2>1, FinishKeeps DEF Working
<1>3. CASE Comment(run[r].item.mode, r)
  <2>1. lock' = Free /\ run' = [run EXCEPT ![r] = f]
    BY <1>1 DEF Finish
  <2>2. DOMAIN f = Fields /\ f.pc = "done" /\ f.posted = {}
    BY DEF Fresh, Fields
  <2> HIDE DEF f
  <2>3. Free # r
    BY RunAssumption DEF Free
  <2> QED
    BY <1>1, <1>3, <2>1, <2>2, <2>3, CommentStep
<1> QED
  BY <1>1, <1>2, <1>3

-----------------------------------------------------------------------------
(* The theorems. *)

LEMMA CInvInit == Init => CInv
<1> SUFFICES ASSUME Init PROVE CInv
  OBVIOUS
<1>1. /\ world \in Worlds /\ now = 2 /\ statuses = <<>> /\ findings = 0 /\ triggers = <<>>
      /\ lock = Free
      /\ run = [r \in Run |-> IF r \in world.runs THEN Fresh ELSE [Fresh EXCEPT !.pc = "done"]]
  BY DEF Init
<1>2. PICK draft \in BOOLEAN, suites \in BOOLEAN, earlier \in BOOLEAN :
        /\ pull = [head |-> Sha, open |-> TRUE, draft |-> draft,
                   suites |-> suites, committed |-> 1, pushed |-> 2,
                   opened |-> 1, ready |-> 0, moved |-> 0]
        /\ bot = [doing |-> IF earlier THEN "earlier" ELSE "idle",
                  since |-> 1, stated |-> {}, ended |-> 0, lost |-> FALSE]
        /\ summary = IF earlier
                     THEN <<[at |-> 1, busy |-> TRUE, wait |-> 0,
                             full |-> FALSE, clean |-> FALSE]>>
                     ELSE <<>>
  BY DEF Init
<1>3. Typed
  <2>1. History(statuses, now)
    BY <1>1 DEF History
  <2>2. PullRequest(pull, now)
    BY <1>1, <1>2 DEF PullRequest, PullRequests
  <2>3. CodeRabbit(bot, now)
    BY <1>1, <1>2 DEF CodeRabbit
  <2> QED
    BY <1>1, <2>1, <2>2, <2>3 DEF Typed
<1>4. Versions
  <2> DEFINE v == [at |-> 1, busy |-> TRUE, wait |-> 0, full |-> FALSE, clean |-> FALSE]
  <2>1. v \in Version_ /\ v.at = 1 /\ v.wait = 0
    BY DEF Version_
  <2>2. summary \in {<<>>, <<v>>}
    BY <1>2
  <2> HIDE DEF v
  <2>3. /\ summary \in Seq(Version_)
        /\ \A i \in DOMAIN summary : summary[i].at = 1 /\ summary[i].wait = 0
    <3>1. CASE summary = <<>>
      BY <3>1
    <3>2. CASE summary = <<v>>
      <4>1. DOMAIN <<v>> = {1} /\ <<v>>[1] = v /\ <<v>> \in Seq(Version_)
        BY <2>1
      <4> QED
        BY <2>1, <3>2, <4>1
    <3> QED
      BY <2>2, <3>1, <3>2
  <2> QED
    BY <1>1, <2>3 DEF Versions
<1>5. Comments
  BY <1>1 DEF Comments, Commands
<1>6. Bot
  <2>1. bot.ended = 0 /\ bot.lost = FALSE /\ bot.doing \notin {"head", "closing"}
    BY <1>2
  <2>2. bot.doing = "earlier" => Len(summary) = 1 /\ summary[1].busy /\ summary[1].at = 1
    BY <1>2
  <2> QED
    BY <1>1, <2>1, <2>2 DEF Bot
<1>7. ASSUME NEW r \in Run PROVE Running(r)
  <2>1. DOMAIN Fresh = Fields /\ Fresh.pc = "lock" /\ Fresh.posted = {}
        /\ Fresh.item = Result("pending", "", 0)
    BY DEF Fresh, Fields
  <2> DEFINE f == [Fresh EXCEPT !.pc = "done"]
  <2>2. DOMAIN f = Fields /\ f.pc = "done" /\ f.posted = {} /\ f.item = Result("pending", "", 0)
    BY DEF Fresh, Fields
  <2>3. run[r] \in {Fresh, f}
    BY <1>1
  <2> HIDE DEF f
  <2>4. DOMAIN run[r] = Fields /\ run[r].pc \in {"lock", "done"} /\ run[r].posted = {}
        /\ run[r].item.state = "pending"
    BY <2>1, <2>2, <2>3, PendingState
  <2>5. lock # r /\ DOMAIN triggers = {}
    BY <1>1, RunAssumption DEF Free
  <2> QED
    BY <2>4, <2>5 DEF Running, Process, Resting, Posting, Idle, Working
<1>8. DOMAIN run = Run /\ Unrepeated
  BY <1>1 DEF Unrepeated
<1> QED
  BY <1>3, <1>4, <1>5, <1>6, <1>7, <1>8 DEF CInv, Shown

LEMMA CInvNext == CInv /\ [Next]_vars => CInv'
<1> SUFFICES ASSUME CInv, [Next]_vars PROVE CInv'
  OBVIOUS
<1>1. CASE Tick
  <2>1. UNCHANGED <<world, github, lock, run>> /\ now' = now + 1
    BY <1>1 DEF Tick
  <2>2. now \in Nat /\ now' \in Nat /\ now <= now'
    BY <2>1 DEF CInv, Shown, Typed
  <2>3. Shown' /\ Grows /\ Unrepeated' /\ UNCHANGED triggers
    BY <2>1, <2>2, SilentShown DEF github
  <2>4. \A s \in Run : Running(s)'
    BY <2>1, <2>2, <2>3, OtherKeeps
  <2> QED
    BY <2>1, <2>3, <2>4 DEF CInv
<1>2. CASE External
  <2>1. /\ Shown' /\ Grows /\ UNCHANGED <<world, now, lock, run>>
        /\ \A i \in DOMAIN triggers : i \in DOMAIN triggers' /\ triggers'[i] = triggers[i]
        /\ \A i \in DOMAIN triggers' : i \in DOMAIN triggers \/ triggers'[i].by = "person"
    BY <1>2, ExternalKeeps DEF CInv
  <2>2. "person" \notin Run /\ now \in Nat
    BY RunAssumption DEF CInv, Shown, Typed
  <2>3. \A s \in Run : Running(s)'
    BY <2>1, <2>2, OtherKeeps
  <2>4. Unrepeated'
    BY <2>1, <2>2, StillUnrepeated
  <2> QED
    BY <2>1, <2>3, <2>4 DEF CInv
<1>3. ASSUME NEW r \in Run, Step(r) \/ Die(r) PROVE CInv'
  BY <1>3, AcquireKeeps, ReadHeadKeeps, ReadRestKeeps, PostTriggerKeeps, WakeKeeps, ReadFailsKeeps,
     PostFailsKeeps, DieKeeps DEF Step
<1>4. CASE UNCHANGED vars
  <2>1. UNCHANGED <<world, now, github, lock, run, triggers>> /\ now \in Nat
    BY <1>4 DEF vars, github, CInv, Shown, Typed
  <2>2. Shown' /\ Grows /\ Unrepeated'
    BY <2>1, SilentShown
  <2>3. \A s \in Run : Running(s)'
    BY <2>1, <2>2, OtherKeeps
  <2> QED
    BY <2>1, <2>2, <2>3 DEF CInv
<1> QED
  BY <1>1, <1>2, <1>3, <1>4 DEF Next

\* The inductive invariant: what GitHub shows has its types and its order in time,
\* CodeRabbit's review is what its statuses say, each process at work holds the
\* lock and knows its own triggers, and every trigger of the adapter that precedes
\* another has been answered.
THEOREM ReviewsInductive == Spec => []CInv
<1> QED
  BY CInvInit, CInvNext, PTL DEF Spec

\* Whatever CodeRabbit and people do between the reads of an observation,
\* decide() permits a trigger only while CodeRabbit is idle.
THEOREM TriggersWhenIdle == Spec => []TriggerWhenIdle
<1>1. CInv => TriggerWhenIdle
  BY DEF CInv, Running, Idle, TriggerWhenIdle
<1> QED
  BY <1>1, ReviewsInductive, PTL

\* No trigger repeats an unanswered one of the same cycle, for any number of
\* processes that take the owner's lock in turn, die or fail to post.
THEOREM TriggersOnce == Spec => []NoRepeatedTrigger
<1>1. CInv => NoRepeatedTrigger
  <2> SUFFICES ASSUME CInv, NEW i \in DOMAIN triggers, NEW j \in DOMAIN triggers,
                      i < j /\ {triggers[i].by, triggers[j].by} \subseteq Run,
                      Lag = 0 \/ triggers[i].by = triggers[j].by
               PROVE  \/ \E k \in DOMAIN statuses : /\ triggers[i].at < statuses[k].at
                                                    /\ statuses[k].at <= triggers[j].at
                      \/ \E t \in {pull.ready, pull.moved} : triggers[i].at < t
    BY DEF NoRepeatedTrigger
  <2>1. Answered(triggers[i], triggers[j], statuses, pull)
    BY DEF CInv, Unrepeated, Repeats
  <2> QED
    BY <2>1 DEF Answered
<1> QED
  BY <1>1, ReviewsInductive, PTL

LEMMA OtherProcesses ==
  ASSUME DOMAIN run = Run, NEW r \in Run, NEW s \in Run \ {r}, Step(s) \/ Die(s)
  PROVE  run'[r] = run[r]
<1>1. ASSUME NEW f, run' = [run EXCEPT ![s] = f] PROVE run'[r] = run[r]
  BY <1>1
<1>2. CASE Acquire(s)
  BY <1>2 DEF Acquire
<1>3. CASE ReadHead(s)
  BY <1>3 DEF ReadHead
<1>4. CASE ReadRest(s)
  BY <1>4 DEF ReadRest, Settle, Finish, Sleep
<1>5. CASE PostTrigger(s)
  BY <1>5 DEF PostTrigger, Finish, Sleep
<1>6. CASE Wake(s)
  BY <1>6 DEF Wake
<1>7. CASE ReadFails(s)
  BY <1>7 DEF ReadFails, Finish, Sleep
<1>8. CASE PostFails(s)
  BY <1>8 DEF PostFails, Finish
<1>9. CASE Die(s)
  BY <1>9 DEF Die
<1> QED
  BY <1>2, <1>3, <1>4, <1>5, <1>6, <1>7, <1>8, <1>9 DEF Step

\* A process that read the head reports it complete only by decide()'s word.
LEMMA ReportSound ==
  ASSUME CInv, NEW r \in Run, run[r].pc = "rest", Step(r) \/ Die(r),
         run'[r].item.state \in CompleteStates
  PROVE  \E seen \in Listed : Decide(Judged(r, seen), Sha, now).state \in CompleteStates
<1>1. DOMAIN run = Run /\ DOMAIN run[r] = Fields /\ run[r].item.state = "pending"
  BY DEF CInv, Running, Process
<1>2. \A f : run' = [run EXCEPT ![r] = f] => run'[r] = f
  BY <1>1
<1>3. "pending" \notin CompleteStates
  BY DEF CompleteStates
<1>4. ReadRest(r) \/ ReadFails(r) \/ Die(r)
  BY DEF Step, Acquire, ReadHead, PostTrigger, Wake, PostFails
<1>5. ASSUME NEW f, run' = [run EXCEPT ![r] = f], f.item = Result("pending", "", 0)
      PROVE  FALSE
  BY <1>2, <1>3, <1>5, PendingState
<1>6. ASSUME NEW posted, NEW wakes, Sleep(r, posted, wakes) PROVE FALSE
  <2> DEFINE f == [Fresh EXCEPT !.pc = "sleep", !.posted = posted,
                                !.wake = Min(wakes \union {now + Interval})]
  <2>1. run' = [run EXCEPT ![r] = f]
    BY <1>6 DEF Sleep
  <2>2. f.item = Result("pending", "", 0)
    BY DEF Fresh
  <2> QED
    BY <1>5, <2>1, <2>2
<1>7. ASSUME NEW item, Finish(r, item) PROVE run'[r].item = item
  <2> DEFINE f == [Fresh EXCEPT !.pc = "done", !.item = item]
  <2>1. run' = [run EXCEPT ![r] = f]
    BY <1>7 DEF Finish
  <2>2. f.item = item
    BY DEF Fresh
  <2> HIDE DEF f
  <2> QED
    BY <1>2, <2>1, <2>2
<1>8. ~Die(r)
  <2> DEFINE f == [Fresh EXCEPT !.pc = "dead"]
  <2>1. Die(r) => run' = [run EXCEPT ![r] = f]
    BY DEF Die
  <2>2. f.item = Result("pending", "", 0)
    BY DEF Fresh
  <2> QED
    BY <1>5, <2>1, <2>2
<1>9. ~ReadFails(r)
  <2>1. ReadFails(r) => \/ Finish(r, Result("pending", "", 0))
                        \/ Sleep(r, run[r].posted, {Deadline})
    BY DEF ReadFails
  <2> QED
    BY <1>3, <1>6, <1>7, <2>1, PendingState
<1>10. PICK seen \in Listed :
        LET ev == Judged(r, seen)
            item == Decide(ev, Sha, now)
        IN  IF item.state \in TriggerStates /\ ~OutOfTime
            THEN /\ run' = [run EXCEPT ![r] =
                      [@ EXCEPT !.pc = "post", !.ev = ev, !.item = item, !.wake = now,
                                !.reviewing = IF StillReviewing(r) THEN bot.since ELSE 0,
                                !.earlier = (bot.doing = "earlier")]]
                 /\ UNCHANGED lock
            ELSE Settle(r, ev, item)
  BY <1>4, <1>8, <1>9 DEF ReadRest, Judged, Evidence
<1> DEFINE ev == Judged(r, seen)
           item == Decide(ev, Sha, now)
<1>11. item.state \in CompleteStates
  <2>1. CASE item.state \in TriggerStates /\ ~OutOfTime
    <3> DEFINE since == IF StillReviewing(r) THEN bot.since ELSE 0
               f == [run[r] EXCEPT !.pc = "post", !.ev = ev, !.item = item, !.wake = now,
                                   !.reviewing = since, !.earlier = (bot.doing = "earlier")]
    <3>1. run' = [run EXCEPT ![r] = f]
      BY <1>1, <1>10, <2>1
    <3> HIDE DEF ev, item, since
    <3>2. f.item = item
      BY <1>1 DEF Fields
    <3> HIDE DEF f
    <3>3. run'[r].item = item
      BY <1>2, <3>1, <3>2
    <3> QED
      BY <3>3
  <2>2. CASE ~(item.state \in TriggerStates /\ ~OutOfTime)
    <3>1. Settle(r, ev, item)
      BY <1>10, <2>2
    <3> HIDE DEF ev, item
    <3>2. Finish(r, item)
      BY <1>6, <3>1 DEF Settle
    <3>3. run'[r].item = item
      BY <1>7, <3>2
    <3> QED
      BY <3>3
  <2> QED
    BY <2>1, <2>2
<1> QED
  BY <1>11

\* Where no draft skip answers for the other pull request, a run reports a head
\* complete only for a pass that ended after its arrival and its triggers, and
\* never while a newer review runs or after it was lost.
THEOREM CompletesCurrent == Spec => CompleteIsCurrent
<1> DEFINE Current(r) ==
      OwnDraftSkips /\ run[r].pc = "rest" /\ run'[r].item.state \in CompleteStates =>
        /\ ~StillReviewing(r)
        /\ bot.lost => run[r].n < Len(statuses)
        /\ bot.ended > pull.moved /\ bot.ended >= pull.pushed
        /\ \A t \in run[r].posted : bot.ended > t.at
<1>1. CInv /\ [Next]_vars => \A r \in Run : Current(r)
  <2> SUFFICES ASSUME CInv, [Next]_vars, NEW r \in Run, OwnDraftSkips, run[r].pc = "rest",
                      run'[r].item.state \in CompleteStates
               PROVE  /\ ~StillReviewing(r)
                      /\ bot.lost => run[r].n < Len(statuses)
                      /\ bot.ended > pull.moved /\ bot.ended >= pull.pushed
                      /\ \A t \in run[r].posted : bot.ended > t.at
    OBVIOUS
  <2>1. run'[r] # run[r]
    <3>1. run[r].item.state = "pending"
      BY DEF CInv, Running, Process
    <3> QED
      BY <3>1 DEF CompleteStates
  <2>2. Step(r) \/ Die(r)
    <3>1. PICK s \in Run : Step(s) \/ Die(s)
      BY <2>1 DEF Next, Tick, External, vars
    <3> QED
      BY <2>1, <3>1, OtherProcesses DEF CInv
  <2>3. PICK seen \in Listed : Decide(Judged(r, seen), Sha, now).state \in CompleteStates
    BY <2>2, ReportSound
  <2> QED
    BY <2>3, CompleteSound
<1>2. CInv /\ [Next]_vars => [\A r \in Run : Current(r)]_vars
  BY <1>1
<1> QED
  BY <1>2, ReviewsInductive, PTL DEF Spec, CompleteIsCurrent

-----------------------------------------------------------------------------
(* The waiting states end. *)

LEMMA Horizon ==
  ASSUME CInv
  PROVE  /\ LastEvent \in Nat /\ findings <= LastEvent /\ 1 <= LastEvent
         /\ 2 <= LastEvent /\ pull.ready <= LastEvent /\ pull.moved <= LastEvent
         /\ \A i \in DOMAIN statuses : statuses[i].at <= LastEvent
         /\ \A i \in DOMAIN summary : summary[i].at <= LastEvent
         /\ \A i \in DOMAIN triggers : triggers[i].at <= LastEvent
<1> DEFINE S == {pull.pushed, pull.opened, pull.ready, pull.moved, findings}
                \union {statuses[i].at : i \in DOMAIN statuses}
                \union {summary[i].at : i \in DOMAIN summary}
                \union {triggers[i].at : i \in DOMAIN triggers}
<1>1. Typed /\ Versions /\ Comments /\ now \in Nat /\ now >= 2
  BY DEF CInv, Shown, Typed
<1>2. /\ pull.pushed = 2 /\ pull.opened = 1 /\ pull.ready \in Nat /\ pull.moved \in Nat
      /\ pull.ready <= now /\ pull.moved <= now /\ findings \in Nat /\ findings <= now
  BY <1>1 DEF Typed, PullRequest, PullRequests
<1>3. \A i \in DOMAIN statuses : statuses[i].at \in Nat /\ statuses[i].at <= now
  BY <1>1, Places DEF Typed, History
<1>4. \A i \in DOMAIN summary : summary[i].at \in Nat /\ summary[i].at <= now
  <2>1. \A i \in DOMAIN summary : summary[i] \in Version_
    BY <1>1 DEF Versions
  <2>2. \A v \in Version_ : v.at \in Nat
    BY DEF Version_
  <2> QED
    BY <1>1, <2>1, <2>2 DEF Versions
<1>5. \A i \in DOMAIN triggers : triggers[i].at \in Nat /\ triggers[i].at <= now
  BY <1>1 DEF Comments, Commands
<1>6. S \in SUBSET Nat /\ S # {} /\ \A x \in S : x <= now
  BY <1>1, <1>2, <1>3, <1>4, <1>5
<1> HIDE DEF S
<1>7. Max(S) \in Nat /\ \A x \in S : x <= Max(S)
  BY <1>1, <1>6, Greatest
<1>8. LastEvent = Max(S)
  BY DEF LastEvent, S
<1>9. pull.pushed \in S /\ pull.ready \in S /\ pull.moved \in S /\ findings \in S
  BY DEF S
<1>10. \A i \in DOMAIN statuses : statuses[i].at \in S
  BY DEF S
<1>11. \A i \in DOMAIN summary : summary[i].at \in S
  BY DEF S
<1>12. \A i \in DOMAIN triggers : triggers[i].at \in S
  BY DEF S
<1> DEFINE m == Max(S)
<1> HIDE DEF m
<1>13. m \in Nat /\ \A x \in S : x <= m
  BY <1>7 DEF m
<1>14. 2 <= m /\ 1 <= m /\ pull.ready <= m /\ pull.moved <= m /\ findings <= m
  BY <1>2, <1>9, <1>13
<1>15. \A i \in DOMAIN statuses : statuses[i].at <= m
  BY <1>10, <1>13
<1>16. \A i \in DOMAIN summary : summary[i].at <= m
  BY <1>11, <1>13
<1>17. \A i \in DOMAIN triggers : triggers[i].at <= m
  BY <1>12, <1>13
<1> QED
  BY <1>8, <1>13, <1>14, <1>15, <1>16, <1>17 DEF m

LEMMA Longest ==
  ASSUME CInv
  PROVE  /\ LongestWait \in Nat /\ Automatic <= LongestWait /\ Answer <= LongestWait
         /\ InProgress <= LongestWait /\ UnknownWait <= LongestWait
         /\ \A wait \in world.waits : wait + WaitBuffer <= LongestWait
<1> DEFINE S == {Automatic, Answer, InProgress, UnknownWait}
                \union {wait + WaitBuffer : wait \in world.waits}
<1>1. world.waits \in SUBSET Nat /\ IsFiniteSet(world.waits) /\ WaitBuffer \in Nat
      /\ {Automatic, Answer, InProgress, UnknownWait} \subseteq Nat
  BY World, BoundsAssumption DEF CInv, Shown
<1>2. PICK n \in Nat : \A wait \in world.waits : wait <= n
  BY <1>1, FiniteBound
<1> DEFINE m == n + WaitBuffer + Automatic + Answer + InProgress + UnknownWait
<1>3. S \in SUBSET Nat /\ S # {} /\ m \in Nat /\ \A x \in S : x <= m
  BY <1>1, <1>2
<1> HIDE DEF S, m
<1>4. Max(S) \in Nat /\ \A x \in S : x <= Max(S)
  BY <1>3, Greatest
<1>5. LongestWait = Max(S)
  BY DEF LongestWait, S
<1>6. /\ {Automatic, Answer, InProgress, UnknownWait} \subseteq S
      /\ \A wait \in world.waits : wait + WaitBuffer \in S
  BY DEF S
<1> QED
  BY <1>4, <1>5, <1>6

\* The versions the summary showed are versions of it: the last one set by
\* some time exists.
LEMMA ShownVersions ==
  ASSUME NEW s \in Seq(Version_), NEW start \in Nat
  PROVE  ShownFrom(s, start) \subseteq DOMAIN s
<1> DEFINE old == {i \in DOMAIN s : s[i].at <= start}
           times == {s[i].at : i \in old}
           final == {i \in old : s[i].at = Max(times)}
           last == CHOOSE i \in old : \A j \in old \ {i} : Before(s, j, i)
<1>1. \A i \in DOMAIN s : s[i].at \in Nat /\ i \in Nat
  <2>1. DOMAIN s = 1 .. Len(s) /\ Len(s) \in Nat /\ \A i \in DOMAIN s : s[i] \in Version_
    OBVIOUS
  <2>2. \A v \in Version_ : v.at \in Nat
    BY DEF Version_
  <2> QED
    BY <2>1, <2>2
<1>2. CASE old = {}
  BY <1>2 DEF ShownFrom
<1>3. CASE old # {}
  <2>1. Max(times) \in times /\ \A x \in times : x <= Max(times)
    <3>1. times \in SUBSET Nat /\ times # {} /\ \A x \in times : x <= start
      BY <1>1, <1>3
    <3> HIDE DEF times
    <3> QED
      BY <3>1, Greatest
  <2> DEFINE top == Max(times)
             l == Min(final)
  <2> HIDE DEF top
  <2>2. final \in SUBSET Nat /\ final # {}
    BY <1>1, <2>1
  <2>3. l \in final /\ \A i \in final : l <= i
    <3> HIDE DEF final
    <3> QED
      BY <2>2, Least
  <2> HIDE DEF l
  <2>4. \A j \in old \ {l} : Before(s, j, l)
    <3> TAKE j \in old \ {l}
    <3>1. s[j].at \in times /\ s[j].at <= s[l].at
      BY <2>1, <2>3
    <3>2. s[j].at = s[l].at => j > l
      <4>1. s[j].at = s[l].at => j \in final
        BY <2>3
      <4>2. j \in Nat /\ l \in Nat /\ j # l
        BY <1>1, <2>3
      <4> HIDE DEF final
      <4> QED
        BY <2>3, <4>1, <4>2
    <3>3. s[j].at \in Nat /\ s[l].at \in Nat
      BY <1>1, <2>3
    <3> QED
      BY <3>1, <3>2, <3>3 DEF Before
  <2>5. last \in old
    BY <2>3, <2>4
  <2> QED
    BY <1>3, <2>5 DEF ShownFrom
<1> QED
  BY <1>2, <1>3

\* A review of an earlier head ended with a version of the summary, or runs.
LEMMA EarlierEnds ==
  ASSUME NEW s \in Seq(Version_), NEW start \in Nat
  PROVE  LET e == EarlierReview(s, start) IN
         e.ended = 0 \/ \E i \in DOMAIN s : e.ended = s[i].at
<1> DEFINE shown == ShownFrom(s, start)
           busy == {i \in shown : s[i].busy}
           after == {i \in shown \ busy : \A b \in busy : s[b].at < s[i].at}
           times == {s[i].at : i \in after}
<1>1. after \subseteq DOMAIN s
  BY ShownVersions
<1>2. \A i \in DOMAIN s : s[i].at \in Nat
  <2>1. \A i \in DOMAIN s : s[i] \in Version_
    OBVIOUS
  <2> QED
    BY <2>1 DEF Version_
<1>3. EarlierReview(s, start) =
        IF busy = {} THEN NoEarlier
        ELSE [found |-> TRUE, ended |-> IF after = {} THEN 0 ELSE Min(times)]
  BY DEF EarlierReview
<1> HIDE DEF after, busy
<1>4. after # {} => Min(times) \in times
  <2>1. after # {} => times \in SUBSET Nat /\ times # {}
    BY <1>1, <1>2
  <2> HIDE DEF times
  <2> QED
    BY <2>1, Least
<1>5. CASE busy = {} \/ after = {}
  BY <1>3, <1>5 DEF NoEarlier
<1>6. CASE busy # {} /\ after # {}
  <2>1. EarlierReview(s, start).ended = Min(times)
    BY <1>3, <1>6
  <2>2. PICK i \in after : Min(times) = s[i].at
    BY <1>4, <1>6
  <2> QED
    BY <1>1, <2>1, <2>2
<1> QED
  BY <1>5, <1>6

\* A stated wait ends a stated time after a version of the summary.
LEMMA WaitEnds ==
  ASSUME NEW waits \in SUBSET Nat, IsFiniteSet(waits), NEW t \in Nat, NEW s \in Seq(Version_),
         \A i \in DOMAIN s : s[i].at <= t /\ s[i].wait \in {0} \union waits, NEW at
  PROVE  LET refusal == CorrelatedWait(s, at) IN
         refusal.wait =>
           \E i \in DOMAIN s : s[i].wait \in waits /\ refusal.retryAt = s[i].at + s[i].wait + WaitBuffer
<1> DEFINE paired == {i \in DOMAIN s :
                        /\ at - Correlation <= s[i].at /\ s[i].at <= at
                        /\ \A j \in DOMAIN s : s[j].at = s[i].at => j <= i
                        /\ s[i].wait > 0}
           stated == {v.at + v.wait : v \in {s[i] : i \in paired}}
<1>1. CorrelatedWait(s, at) =
        IF paired = {} THEN NoRefusal
        ELSE [wait |-> TRUE, full |-> s[Max(paired)].full,
              retryAt |-> RetryAt({s[i] : i \in paired})]
  BY DEF CorrelatedWait
<1>2. paired \subseteq DOMAIN s /\ \A i \in paired : s[i].wait \in waits
  OBVIOUS
<1> HIDE DEF paired
<1>3. CASE paired = {}
  BY <1>1, <1>3 DEF NoRefusal
<1>4. CASE paired # {}
  <2>1. PICK n \in Nat : \A wait \in waits : wait <= n
    BY FiniteBound
  <2>2. \A i \in paired : s[i].at \in Nat /\ s[i].at <= t /\ s[i].wait \in Nat /\ s[i].wait <= n
    <3>1. \A i \in DOMAIN s : s[i] \in Version_
      OBVIOUS
    <3> QED
      BY <1>2, <2>1, <3>1 DEF Version_
  <2>3. stated \in SUBSET Nat /\ stated # {} /\ t + n \in Nat /\ \A x \in stated : x <= t + n
    BY <1>4, <2>1, <2>2
  <2>4. Max(stated) \in stated
    <3> HIDE DEF stated
    <3> QED
      BY <2>3, Greatest
  <2>5. PICK i \in paired : Max(stated) = s[i].at + s[i].wait
    BY <2>4
  <2>6. CorrelatedWait(s, at).retryAt = Max(stated) + WaitBuffer
    BY <1>1, <1>4 DEF RetryAt
  <2> QED
    BY <1>2, <2>5, <2>6
<1> QED
  BY <1>3, <1>4

\* What the adapter would judge now.
Visible == Evidence(pull, statuses, pull, summary, findings, ToSet(triggers), Shared, {})

LEMMA VisibleEvidence ==
  ASSUME CInv
  PROVE  /\ Observed = Decide(Visible, Sha, now)
         /\ Visible.history = statuses /\ Visible.start \in Nat
         /\ Visible.start <= LastEvent
         /\ Visible.triggers \subseteq ToSet(triggers)
         /\ Visible.earlier.ended \in Nat /\ Visible.earlier.ended <= LastEvent
         /\ Visible.refusal.wait =>
              /\ Visible.refusal.retryAt \in Nat
              /\ Visible.refusal.retryAt <= LastEvent + LongestWait
<1>1. /\ Typed /\ Versions /\ Comments /\ now \in Nat /\ now >= 2 /\ PullRequest(pull, now)
      /\ History(statuses, now)
  BY DEF CInv, Shown, Typed
<1> DEFINE e == PullEvidence(pull, statuses, pull, summary, findings, ToSet(triggers), Shared)
           ev == Visible
<1>2. ev = e
  <2>1. ev = [e EXCEPT !.triggers = @ \union {}]
    BY DEF Visible, Evidence, WithPosted
  <2>2. e = [head |-> e.head, open |-> e.open, draft |-> e.draft, shared |-> e.shared,
             arrival |-> e.arrival, start |-> e.start, history |-> e.history,
             earlier |-> e.earlier, findings |-> e.findings, clean |-> e.clean,
             triggers |-> e.triggers, refusal |-> e.refusal]
    BY DEF PullEvidence
  <2>3. e.triggers \union {} = e.triggers
    BY Zenon
  <2> HIDE DEF e
  <2> QED
    BY <2>1, <2>2, <2>3
<1>3. Observed = Decide(ev, Sha, now)
  BY <1>2 DEF Observed
<1> DEFINE listed == ToSet(triggers)
           none == {}
<1> HIDE DEF e, ev
<1>4. ev = Evidence(pull, statuses, pull, summary, findings, listed, Shared, none)
  BY DEF Visible, ev
<1> HIDE DEF listed, none
<1>5. /\ ev.history = statuses
      /\ ev.start = Started(pull, statuses, pull)
      /\ ev.triggers = HeadTriggers(listed, Arrived(pull, statuses, pull)) \union none
      /\ ev.earlier = IF Newest(statuses).kind = "none" \/ Newest(statuses).at < ev.start
                      THEN EarlierReview(summary, ev.start) ELSE NoEarlier
      /\ ev.refusal = IF Newest(statuses).kind = "rate-limited"
                      THEN CorrelatedWait(summary, Newest(statuses).at) ELSE NoRefusal
  BY <1>1, <1>4, EvidenceFields
<1>6. /\ ev.start \in Nat
      /\ ev.start \in {Arrived(pull, statuses, pull), 1, pull.ready}
      /\ \/ Arrived(pull, statuses, pull) \in {1, 2, pull.moved}
         \/ \E i \in DOMAIN statuses : Arrived(pull, statuses, pull) = statuses[i].at
  BY <1>1, <1>5, Arrival
<1>7. ev.start <= LastEvent
  BY <1>6, Horizon
<1>8. ev.triggers \subseteq ToSet(triggers)
  BY <1>5 DEF HeadTriggers, listed, none
<1>9. \A i \in DOMAIN summary : summary[i].at \in Nat
  <2>1. \A i \in DOMAIN summary : summary[i] \in Version_
    BY <1>1 DEF Versions
  <2> QED
    BY <2>1 DEF Version_
<1>10. ev.earlier.ended \in Nat /\ ev.earlier.ended <= LastEvent
  <2>1. ev.earlier.ended = 0 \/ \E i \in DOMAIN summary : ev.earlier.ended = summary[i].at
    BY <1>1, <1>5, <1>6, EarlierEnds DEF Versions, NoEarlier
  <2> QED
    BY <1>9, <2>1, Horizon
<1>11. ev.refusal.wait =>
         /\ ev.refusal.retryAt \in Nat
         /\ ev.refusal.retryAt <= LastEvent + LongestWait
  <2> SUFFICES ASSUME ev.refusal.wait
               PROVE  /\ ev.refusal.retryAt \in Nat
                      /\ ev.refusal.retryAt <= LastEvent + LongestWait
    OBVIOUS
  <2>1. ev.refusal = CorrelatedWait(summary, Newest(statuses).at)
    BY <1>5 DEF NoRefusal
  <2>2. world.waits \in SUBSET Nat /\ IsFiniteSet(world.waits)
    BY <1>1, World
  <2>3. PICK i \in DOMAIN summary :
          /\ summary[i].wait \in world.waits
          /\ ev.refusal.retryAt = summary[i].at + summary[i].wait + WaitBuffer
    BY <1>1, <2>1, <2>2, WaitEnds DEF Versions
  <2>4. summary[i].wait \in Nat /\ summary[i].wait + WaitBuffer <= LongestWait
    BY <2>2, <2>3, Longest
  <2> QED
    BY <1>9, <2>3, <2>4, Horizon, Longest, BoundsAssumption
<1> QED
  BY <1>3, <1>5, <1>6, <1>7, <1>8, <1>10, <1>11 DEF ev

\* After the longest wait a bounded state has given way to the blocked one.
LEMMA BoundedEnds ==
  ASSUME CInv, now >= LastEvent + LongestWait, NEW since \in Nat, since <= LastEvent,
         NEW seconds \in Nat, seconds <= LongestWait
  PROVE  \A pending, blocked, mode :
           Bounded(pending, blocked, since, seconds, mode, now).state = blocked
<1>1. ~(now < since + seconds)
  BY Horizon, Longest DEF CInv, Shown, Typed
<1> QED
  BY <1>1, ResultState DEF Bounded

Settled(d) == d.state \in FinalStates \union TriggerStates

LEMMA GateEnds ==
  ASSUME CInv, now >= LastEvent + LongestWait, NEW status, status.at \in Nat,
         status.at <= LastEvent, NEW mode
  PROVE  Settled(Gate(Visible, status, mode, now))
<1> DEFINE ev == Visible
<1>1. now \in Nat /\ LastEvent \in Nat /\ LongestWait \in Nat /\ UnknownWait \in Nat
      /\ UnknownWait <= LongestWait
  BY Horizon, Longest, BoundsAssumption DEF CInv, Shown, Typed
<1>2. ev.refusal.wait =>
        ev.refusal.retryAt \in Nat /\ ev.refusal.retryAt <= LastEvent + LongestWait
  BY VisibleEvidence
<1> HIDE DEF ev
<1>3. CASE status.kind = "rate-limited" /\ ~ev.refusal.wait
  <2> DEFINE d == Bounded("rate-limited-unknown-wait", "blocked-unknown-wait",
                          status.at, UnknownWait, mode, now)
  <2>1. d.state = "blocked-unknown-wait"
    BY <1>1, BoundedEnds
  <2>2. Gate(ev, status, mode, now) = d
    BY <1>3 DEF Gate
  <2> HIDE DEF d
  <2> QED
    BY <2>1, <2>2 DEF Settled, FinalStates, BlockedStates, ev
<1>4. CASE status.kind = "rate-limited" /\ ev.refusal.wait /\ ev.refusal.full
  BY <1>4, ResultState DEF Result, Gate, Settled, FinalStates, BlockedStates, ev
<1>5. CASE ~(status.kind = "rate-limited" /\ ~ev.refusal.wait)
           /\ ~(status.kind = "rate-limited" /\ ev.refusal.full)
  <2>1. ~(status.kind = "rate-limited" /\ ev.refusal.retryAt > now)
    BY <1>1, <1>2, <1>5
  <2>2. Gate(ev, status, mode, now).state = TriggerState(mode)
    BY <1>5, <2>1, ResultState DEF Result, Gate
  <2> QED
    BY <2>2 DEF Settled, TriggerState, TriggerStates, ev
<1> QED
  BY <1>3, <1>4, <1>5

LEMMA StatusEnds ==
  ASSUME CInv, now >= LastEvent + LongestWait, NEW status, status.at \in Nat,
         status.at <= LastEvent, NEW T
  PROVE  Settled(DecideStatus(Visible, status, T, now))
<1>1. \A mode : Settled(Gate(Visible, status, mode, now))
  BY GateEnds
<1>2. CASE status.kind \in {"none", "draft-skip"}
  BY <1>1, <1>2 DEF DecideStatus
<1>3. CASE status.kind = "lock-loss"
  BY <1>1, <1>3, ResultState DEF Result, DecideStatus, Settled, FinalStates, BlockedStates
<1>4. CASE status.kind \in {"skipped", "paused"}
  BY <1>4, ResultState DEF Result, DecideStatus, Settled, FinalStates, BlockedStates
<1>5. CASE status.kind = "rate-limited"
  BY <1>1, <1>5 DEF DecideStatus
<1>6. CASE status.kind = "completed"
  <2>1. ~(now < status.at + Automatic)
    BY Horizon, Longest, BoundsAssumption DEF CInv, Shown, Typed
  <2> QED
    BY <1>1, <1>6, <2>1, ResultState DEF Result, DecideStatus, Settled, FinalStates, BlockedStates
<1>7. CASE status.kind \notin {"none", "draft-skip", "lock-loss", "skipped", "paused",
                               "rate-limited", "completed"}
  BY <1>7, ResultState DEF Result, DecideStatus, Settled, FinalStates, BlockedStates
<1> QED
  BY <1>2, <1>3, <1>4, <1>5, <1>6, <1>7

\* No waiting state lasts: once nothing has happened for the longest bound and
\* the longest stated wait, decide() returns a final state or permits a trigger.
THEOREM WaitsEnd == Spec => []SilenceEnds
<1>1. CInv => SilenceEnds
  <2> SUFFICES ASSUME CInv, now >= LastEvent + LongestWait PROVE Settled(Observed)
    BY DEF SilenceEnds, Settled
  <2> DEFINE ev == Visible
             status == CurrentStatus(ev)
             d == Decide(ev, Sha, now)
  <2>1. /\ now \in Nat /\ LastEvent \in Nat /\ LongestWait \in Nat
        /\ Automatic \in Nat /\ Answer \in Nat /\ InProgress \in Nat
        /\ Automatic <= LongestWait /\ Answer <= LongestWait /\ InProgress <= LongestWait
    BY Horizon, Longest, BoundsAssumption DEF CInv, Shown, Typed
  <2>2. /\ Observed = d /\ ev.history = statuses /\ ev.start \in Nat /\ ev.start <= LastEvent
        /\ ev.triggers \subseteq ToSet(triggers)
        /\ ev.earlier.ended \in Nat /\ ev.earlier.ended <= LastEvent
    BY VisibleEvidence
  <2>3. status.at \in Nat /\ status.at <= LastEvent
    <3>1. History(statuses, now)
      BY DEF CInv, Shown, Typed
    <3>2. /\ status.at \in Nat
          /\ (\E i \in DOMAIN statuses : status = statuses[i]) \/ status = NoStatus
      BY <2>2, <3>1, CurrentIn
    <3> HIDE DEF status
    <3> QED
      BY <2>1, <3>2, Horizon DEF NoStatus
  <2> HIDE DEF ev, status, d
  <2>4. TriggerNewer(ev) => /\ Latest(Cycle(ev)).at \in Nat
                            /\ Latest(Cycle(ev)).at <= LastEvent
    <3> SUFFICES ASSUME TriggerNewer(ev) PROVE Latest(Cycle(ev)).at \in Nat
                                               /\ Latest(Cycle(ev)).at <= LastEvent
      OBVIOUS
    <3>1. Cycle(ev) \subseteq ToSet(triggers) /\ Cycle(ev) # {}
      BY <2>2 DEF Cycle, TriggerNewer
    <3>2. Comments
      BY DEF CInv, Shown
    <3>3. Latest(Cycle(ev)) \in ToSet(triggers)
      BY <3>1, <3>2, LatestOf DEF Comments
    <3>4. \A t \in ToSet(triggers) : t.at \in Nat /\ t.at <= LastEvent
      BY <3>2, Horizon DEF Comments, Commands, ToSet
    <3> QED
      BY <3>3, <3>4
  <2>5. ~Expecting(ev, now)
    <3>1. Max({ev.start, ev.earlier.ended}) \in Nat
          /\ Max({ev.start, ev.earlier.ended}) <= LastEvent
      BY <2>1, <2>2, Greater
    <3>2. AwaitUntil(ev) \in Nat /\ AwaitUntil(ev) <= LastEvent + LongestWait
      BY <2>1, <2>2, <3>1 DEF AwaitUntil
    <3> QED
      BY <2>1, <3>2 DEF Expecting
  <2>6. Max({status.at, ev.start}) \in Nat /\ Max({status.at, ev.start}) <= LastEvent
    BY <2>1, <2>2, <2>3, Greater
  <2>7. CASE d.state \in {"invalidated", "closed", "review-complete", "clean-complete", "draft"}
    BY <2>2, <2>7 DEF Settled, FinalStates, CompleteStates, BlockedStates
  <2>8. CASE d = Bounded("in-progress", "blocked-stalled",
                         Max({status.at, ev.start}), InProgress, "", now)
    <3> DEFINE since == Max({status.at, ev.start})
    <3> HIDE DEF since
    <3>1. since \in Nat /\ since <= LastEvent /\ InProgress \in Nat /\ InProgress <= LongestWait
      BY <2>1, <2>6 DEF since
    <3>2. \A pending, blocked, mode :
            Bounded(pending, blocked, since, InProgress, mode, now).state = blocked
      BY <3>1, BoundedEnds
    <3>3. d.state = "blocked-stalled"
      BY ONLY <2>8, <3>2 DEF since
    <3> QED
      BY <2>2, <3>3 DEF Settled, FinalStates, BlockedStates
  <2>9. CASE /\ TriggerNewer(ev)
             /\ d = Bounded("triggered", "blocked-unanswered", Latest(Cycle(ev)).at,
                            Answer, "", now)
    <3> DEFINE since == Latest(Cycle(ev)).at
    <3> HIDE DEF since
    <3>1. since \in Nat /\ since <= LastEvent /\ Answer \in Nat /\ Answer <= LongestWait
      BY <2>1, <2>4, <2>9 DEF since
    <3>2. \A pending, blocked, mode :
            Bounded(pending, blocked, since, Answer, mode, now).state = blocked
      BY <3>1, BoundedEnds
    <3>3. d.state = "blocked-unanswered"
      BY ONLY <2>9, <3>2 DEF since
    <3> QED
      BY <2>2, <3>3 DEF Settled, FinalStates, BlockedStates
  <2>10. CASE d = DecideStatus(ev, status, Cycle(ev), now)
    BY <2>2, <2>3, <2>10, StatusEnds DEF ev
  <2> QED
    BY <2>5, <2>7, <2>8, <2>9, <2>10, Branches DEF d, status
<1> QED
  BY <1>1, ReviewsInductive, PTL

-----------------------------------------------------------------------------
(* A refusal and the waits stated for it. *)

\* The waits stated for the refusal are the newest versions of their seconds, the
\* newest of all among them, and a status of the refusal comes within Correlation.
Refused ==
    /\ bot.stated \subseteq DOMAIN summary
    /\ bot.stated # {} => bot.doing \in {"idle", "refusing"} /\ Len(summary) \in bot.stated
    /\ \A i \in bot.stated :
         /\ summary[i].wait > 0
         /\ \A j \in DOMAIN summary : summary[j].at = summary[i].at => j <= i
         /\ bot.doing = "refusing" => bot.since <= summary[i].at
         /\ bot.doing = "idle" /\ Newest(statuses).kind = "rate-limited" =>
              /\ Newest(statuses).at - Correlation <= summary[i].at
              /\ summary[i].at <= Newest(statuses).at

LEMMA NewestPosted ==
  ASSUME Typed, now' = now, NEW kind \in StatusKinds, Post(kind)
  PROVE  Newest(statuses') = [at |-> now, kind |-> kind]
<1>1. statuses \in Seq(Statuses) /\ now \in Nat
  BY DEF Typed, History
<1>2. [at |-> now, kind |-> kind] \in Statuses
  BY <1>1 DEF Statuses
<1>3. statuses' = Append(statuses, [at |-> now, kind |-> kind])
  BY DEF Post
<1> QED
  BY <1>1, <1>2, <1>3, AppendProperties DEF Newest, Last

\* A step that leaves no stated wait, or none that the refusal's status needs.
LEMMA NothingStated ==
  ASSUME bot'.stated = {}
  PROVE  Refused'
BY DEF Refused

LEMMA StateWaitRefused ==
  ASSUME Shown, Refused, BotStateWait, UNCHANGED <<world, now>>
  PROVE  Refused'
<1>1. /\ summary \in Seq(Version_) /\ Len(summary) \in Nat /\ DOMAIN summary = 1 .. Len(summary)
      /\ now \in Nat /\ world.waits \subseteq Nat \ {0}
      /\ \A i \in DOMAIN summary : summary[i].at <= now
  BY RunAssumption DEF Shown, Typed, Versions
<1>2. PICK wait \in world.waits, full \in BOOLEAN :
        /\ Edit(Version(FALSE, wait, full, WasClean))
        /\ bot' = [bot EXCEPT !.doing = "refusing",
                     !.since = IF bot.doing = "idle" THEN now ELSE @,
                     !.stated = {Len(summary) + 1} \union
                                (IF bot.doing = "idle" THEN {}
                                 ELSE {i \in @ : summary[i].at < now})]
  BY DEF BotStateWait
<1> DEFINE v == Version(FALSE, wait, full, WasClean)
           n == Len(summary) + 1
           old == IF bot.doing = "idle" THEN {} ELSE {i \in bot.stated : summary[i].at < now}
<1>3. /\ v \in Version_ /\ v.at = now /\ v.wait = wait /\ wait \in Nat /\ wait > 0
  <2>1. WasClean \in BOOLEAN
    BY CleanOrNot DEF Shown
  <2> QED
    BY <1>1, <2>1 DEF Version, Version_
<1>4. summary' = Append(summary, v)
  BY <1>2 DEF Edit
<1> HIDE DEF v
<1>5. /\ Len(summary') = n /\ DOMAIN summary' = 1 .. n
      /\ \A i \in 1 .. Len(summary) : summary'[i] = summary[i]
      /\ summary'[n] = v
  <2>1. summary' \in Seq(Version_) /\ Len(summary') = n /\ summary'[n] = v
        /\ \A i \in 1 .. Len(summary) : summary'[i] = summary[i]
    BY <1>1, <1>3, <1>4, AppendProperties
  <2> QED
    BY <1>1, <2>1
<1>6. bot.since <= now /\ bot.since \in Nat /\ bot.doing \in {"idle", "refusing"}
  BY DEF Shown, Typed, CodeRabbit, BotStateWait
<1>7. /\ bot'.doing = "refusing" /\ bot'.stated = {n} \union old
      /\ bot'.since = IF bot.doing = "idle" THEN now ELSE bot.since
  BY <1>2 DEF Shown, Typed, CodeRabbit
<1>8. old \subseteq bot.stated /\ \A i \in old : summary[i].at < now /\ bot.doing = "refusing"
  BY <1>6
<1>9. bot.stated \subseteq 1 .. Len(summary)
  BY <1>1 DEF Refused
<1> HIDE DEF old, n
<1>10. ASSUME NEW i \in bot'.stated
       PROVE  /\ summary'[i].wait > 0 /\ bot'.since <= summary'[i].at
              /\ \A j \in DOMAIN summary' : summary'[j].at = summary'[i].at => j <= i
  <2>1. CASE i = n
    <3>1. \A j \in DOMAIN summary' : j <= i
      BY <1>1, <1>5, <2>1 DEF n
    <3> QED
      BY <1>1, <1>3, <1>5, <1>6, <1>7, <2>1, <3>1
  <2>2. CASE i \in old
    <3>1. /\ i \in 1 .. Len(summary) /\ summary[i].at < now /\ bot.doing = "refusing"
          /\ i \in bot.stated /\ summary'[i] = summary[i]
      BY <1>5, <1>8, <1>9, <2>2
    <3>2. /\ summary[i].wait > 0 /\ bot.since <= summary[i].at
          /\ \A j \in DOMAIN summary : summary[j].at = summary[i].at => j <= i
      BY <3>1 DEF Refused
    <3>3. ASSUME NEW j \in DOMAIN summary', summary'[j].at = summary'[i].at PROVE j <= i
      <4>1. summary[i].at \in Nat
        <5>1. summary[i] \in Version_
          BY <1>1, <3>1
        <5> QED
          BY <5>1 DEF Version_
      <4>2. j # n
        BY <1>1, <1>3, <1>5, <3>1, <3>3, <4>1
      <4>3. j \in 1 .. Len(summary)
        BY <1>1, <1>5, <4>2 DEF n
      <4>4. summary'[j] = summary[j]
        BY <1>5, <4>3
      <4> QED
        BY <1>1, <3>1, <3>2, <3>3, <4>3, <4>4
    <3> QED
      BY <1>7, <3>1, <3>2, <3>3
  <2> QED
    BY <1>7, <2>1, <2>2
<1>11. bot'.stated \subseteq DOMAIN summary'
  BY <1>1, <1>5, <1>7, <1>8, <1>9 DEF n
<1>12. Len(summary') \in bot'.stated
  BY <1>5, <1>7
<1> QED
  BY <1>7, <1>10, <1>11, <1>12 DEF Refused

LEMMA RefuseRefused ==
  ASSUME Shown, Refused, BotRefuse, UNCHANGED <<world, now>>
  PROVE  Refused'
<1>1. /\ bot.doing \in {"idle", "refusing"} /\ Post("rate-limited") /\ UNCHANGED summary
      /\ bot.doing = "refusing" => now <= bot.since + Correlation
      /\ bot' = [bot EXCEPT !.doing = "idle", !.stated = IF bot.doing = "idle" THEN {} ELSE @]
  BY DEF BotRefuse
<1>2. /\ bot'.doing = "idle" /\ bot.since \in Nat /\ now \in Nat /\ Correlation \in Nat
      /\ bot'.stated = IF bot.doing = "idle" THEN {} ELSE bot.stated
  BY <1>1, BoundsAssumption DEF Shown, Typed, CodeRabbit
<1>3. CASE bot.doing = "idle"
  BY <1>2, <1>3, NothingStated
<1>4. CASE bot.doing = "refusing"
  <2>1. "rate-limited" \in StatusKinds
    BY DEF StatusKinds
  <2>2. Newest(statuses') = [at |-> now, kind |-> "rate-limited"]
    BY <1>1, <2>1, NewestPosted DEF Shown
  <2>3. \A i \in DOMAIN summary : summary[i].at \in Nat /\ summary[i].at <= now
    <3>1. \A i \in DOMAIN summary : summary[i] \in Version_ /\ summary[i].at <= now
      BY DEF Shown, Versions
    <3> QED
      BY <3>1 DEF Version_
  <2>4. \A i \in bot.stated : now - Correlation <= summary[i].at /\ summary[i].at <= now
    BY <1>1, <1>2, <1>4, <2>3 DEF Refused
  <2> QED
    BY <1>1, <1>2, <1>4, <2>2, <2>4 DEF Refused
<1> QED
  BY <1>1, <1>3, <1>4

LEMMA RefusedKept ==
  ASSUME Shown, Refused, UNCHANGED <<summary, bot>>,
         bot.doing = "idle" /\ Newest(statuses').kind = "rate-limited" =>
           Newest(statuses') = Newest(statuses)
  PROVE  Refused'
BY DEF Refused

LEMMA RefusedNext == CInv /\ Refused /\ [Next]_vars => Refused'
<1> SUFFICES ASSUME CInv, Refused, [Next]_vars PROVE Refused'
  OBVIOUS
<1>1. Shown /\ Typed
  BY DEF CInv, Shown
<1>2. CASE UNCHANGED <<summary, bot, statuses>>
  BY <1>1, <1>2, RefusedKept
<1>3. CASE External
  <2>1. UNCHANGED <<world, now>>
    BY <1>3 DEF External
  <2>2. /\ DOMAIN bot = {"doing", "since", "stated", "ended", "lost"}
    BY <1>1 DEF Typed, CodeRabbit
  <2>3. ASSUME NEW kind \in StatusKinds \ {"rate-limited"}, Post(kind)
        PROVE  Newest(statuses').kind # "rate-limited"
    BY <1>1, <2>1, <2>3, NewestPosted
  <2>4. bot.doing \in {"head", "closing", "earlier"} => bot.stated = {}
    BY DEF Refused
  <2>5. CASE BotStart
    <3>1. bot'.stated = {}
      BY <2>2, <2>5 DEF BotStart
    <3> QED
      BY <3>1, NothingStated
  <2>6. CASE BotPublish
    <3>1. bot'.stated = {}
      BY <2>2, <2>4, <2>6 DEF BotPublish
    <3> QED
      BY <3>1, NothingStated
  <2>7. CASE BotComplete
    <3>1. bot'.stated = {}
      BY <2>2, <2>4, <2>7 DEF BotComplete
    <3> QED
      BY <3>1, NothingStated
  <2>8. CASE BotStop
    <3>1. bot'.stated = {}
      BY <2>2, <2>4, <2>8 DEF BotStop
    <3> QED
      BY <3>1, NothingStated
  <2>9. CASE BotEarlierEnds
    <3>1. bot'.stated = {}
      BY <2>2, <2>4, <2>9 DEF BotEarlierEnds
    <3> QED
      BY <3>1, NothingStated
  <2>10. CASE BotStateWait
    BY <1>1, <2>1, <2>10, StateWaitRefused
  <2>11. CASE BotRefuse
    BY <1>1, <2>1, <2>11, RefuseRefused
  <2>12. CASE BotSkip
    <3>1. PICK kind \in {"skipped", "paused", "unrecognized", "draft-skip"} :
            /\ Post(kind)
            /\ bot' = [bot EXCEPT !.lost =
                         @ /\ (kind = "unrecognized" \/ (Shared /\ kind = "skipped"))]
      BY <2>12 DEF BotSkip
    <3>2. /\ UNCHANGED summary
          /\ bot'.stated = bot.stated /\ bot'.doing = bot.doing /\ bot'.since = bot.since
      BY <2>2, <2>12, <3>1 DEF BotSkip
    <3>3. kind \in StatusKinds \ {"rate-limited"}
      BY <3>1 DEF StatusKinds
    <3>4. Newest(statuses').kind # "rate-limited"
      BY <2>3, <3>1, <3>3
    <3> QED
      BY <3>2, <3>4 DEF Refused
  <2>13. CASE BotSkipOther
    <3>1. PICK kind \in {"skipped", "draft-skip"} : Post(kind)
      BY <2>13 DEF BotSkipOther
    <3>2. UNCHANGED <<summary, bot>> /\ kind \in StatusKinds \ {"rate-limited"}
      BY <2>13, <3>1 DEF BotSkipOther, StatusKinds
    <3>3. Newest(statuses').kind # "rate-limited"
      BY <2>3, <3>1, <3>2
    <3> QED
      BY <1>1, <3>2, <3>3, RefusedKept
  <2>14. CASE MarkReady \/ ForcePushAway \/ ComeBack \/ Close \/ PersonTriggers
    BY <1>2, <2>14 DEF MarkReady, ForcePushAway, ComeBack, Close, PersonTriggers
  <2> QED
    BY <1>3, <2>5, <2>6, <2>7, <2>8, <2>9, <2>10, <2>11, <2>12, <2>13, <2>14 DEF External
<1>4. CASE Tick
  BY <1>2, <1>4 DEF Tick, github
<1>5. ASSUME NEW r \in Run, Step(r) \/ Die(r) PROVE UNCHANGED <<summary, bot, statuses>>
  <2>1. CASE Acquire(r) \/ ReadHead(r) \/ ReadRest(r) \/ Wake(r) \/ ReadFails(r) \/ Die(r)
    BY <2>1 DEF Acquire, ReadHead, ReadRest, Wake, ReadFails, Die, github
  <2>2. CASE PostTrigger(r)
    BY <2>2 DEF PostTrigger
  <2>3. CASE PostFails(r)
    BY <2>3 DEF PostFails
  <2>4. \/ Acquire(r) \/ ReadHead(r) \/ ReadRest(r) \/ Wake(r) \/ ReadFails(r) \/ Die(r)
        \/ PostTrigger(r) \/ PostFails(r)
    BY <1>5 DEF Step
  <2> QED
    BY <2>1, <2>2, <2>3, <2>4
<1>6. CASE UNCHANGED vars
  BY <1>2, <1>6 DEF vars
<1> QED
  BY <1>2, <1>3, <1>4, <1>5, <1>6 DEF Next

\* What a trigger that follows a refusal says of the wait read for it.
LEMMA RefusalDecided ==
  ASSUME NEW ev, NEW x, NEW t, Decide(ev, x, t).state \in TriggerStates,
         Newest(ev.history).kind = "rate-limited"
  PROVE  ev.refusal.wait /\ ~ev.refusal.full /\ ~(ev.refusal.retryAt > t)
<1> DEFINE status == CurrentStatus(ev)
           latest == Latest(Cycle(ev))
           mode == IF Cycle(ev) = {} THEN "incremental" ELSE latest.mode
           d == DecideStatus(ev, status, Cycle(ev), t)
<1>1. status = Newest(ev.history)
  BY DEF CurrentStatus
<1>2. d.state \in TriggerStates
  <2>1. Decide(ev, x, t).state \notin {"invalidated", "closed", "review-complete", "in-progress",
           "blocked-stalled", "clean-complete", "draft", "triggered", "blocked-unanswered",
           "awaiting-automatic"}
    BY DEF TriggerStates
  <2>2. Bounded("in-progress", "blocked-stalled", Max({CurrentStatus(ev).at, ev.start}),
                InProgress, "", t).state \in {"in-progress", "blocked-stalled"}
    BY BoundedState
  <2>3. Bounded("triggered", "blocked-unanswered", Latest(Cycle(ev)).at, Answer, "", t).state
          \in {"triggered", "blocked-unanswered"}
    BY BoundedState
  <2>4. Decide(ev, x, t) = DecideStatus(ev, CurrentStatus(ev), Cycle(ev), t)
    BY <2>1, <2>2, <2>3, Branches
  <2> QED
    BY <2>4
<1>3. status.kind = "rate-limited"
  BY <1>1
<1> HIDE DEF status, mode
<1>4. d = Gate(ev, status, mode, t)
  BY <1>3 DEF DecideStatus, mode
<1> HIDE DEF d
<1>5. Bounded("rate-limited-unknown-wait", "blocked-unknown-wait", status.at, UnknownWait, mode,
              t).state \in {"rate-limited-unknown-wait", "blocked-unknown-wait"}
  BY BoundedState
<1>6. /\ "rate-limited-unknown-wait" \notin TriggerStates
      /\ "blocked-unknown-wait" \notin TriggerStates
      /\ "blocked-no-capacity" \notin TriggerStates /\ "waiting" \notin TriggerStates
  BY DEF TriggerStates
<1>7. /\ Result("blocked-no-capacity", "", 0).state = "blocked-no-capacity"
      /\ Result("waiting", mode, ev.refusal.retryAt).state = "waiting"
  BY ResultState
<1>8. Gate(ev, status, mode, t).state \in TriggerStates
  BY <1>2, <1>4
<1>9. ev.refusal.wait
  BY <1>3, <1>5, <1>6, <1>8 DEF Gate
<1>10. ~ev.refusal.full
  BY <1>3, <1>6, <1>7, <1>8, <1>9 DEF Gate
<1>11. ~(ev.refusal.retryAt > t)
  BY <1>3, <1>6, <1>7, <1>8, <1>9, <1>10 DEF Gate
<1> QED
  BY <1>9, <1>10, <1>11

\* The wait read for a refusal covers every statement that belongs to it, and its
\* last one says whether waiting can help.
LEMMA WaitCovers ==
  ASSUME NEW s \in Seq(Version_), NEW t \in Nat, NEW waits \in SUBSET Nat, IsFiniteSet(waits),
         \A k \in DOMAIN s : s[k].at <= t /\ s[k].wait \in {0} \union waits, NEW at \in Nat,
         NEW i \in DOMAIN s, at - Correlation <= s[i].at, s[i].at <= at, s[i].wait > 0,
         \A j \in DOMAIN s : s[j].at = s[i].at => j <= i
  PROVE  LET refusal == CorrelatedWait(s, at) IN
         /\ refusal.retryAt \in Nat
         /\ s[i].at + s[i].wait + WaitBuffer <= refusal.retryAt
         /\ i = Len(s) => refusal.full = s[i].full
<1> DEFINE paired == {k \in DOMAIN s :
                        /\ at - Correlation <= s[k].at /\ s[k].at <= at
                        /\ \A j \in DOMAIN s : s[j].at = s[k].at => j <= k
                        /\ s[k].wait > 0}
           stated == {v.at + v.wait : v \in {s[k] : k \in paired}}
<1>1. i \in paired
  OBVIOUS
<1>2. CorrelatedWait(s, at) =
        IF paired = {} THEN NoRefusal
        ELSE [wait |-> TRUE, full |-> s[Max(paired)].full,
              retryAt |-> RetryAt({s[k] : k \in paired})]
  BY DEF CorrelatedWait
<1>3. paired \subseteq DOMAIN s /\ Len(s) \in Nat /\ DOMAIN s = 1 .. Len(s)
  OBVIOUS
<1> HIDE DEF paired
<1>4. PICK n \in Nat : \A wait \in waits : wait <= n
  BY FiniteBound
<1>5. \A k \in DOMAIN s : s[k].at \in Nat /\ s[k].at <= t /\ s[k].wait \in Nat /\ s[k].wait <= n
  <2>1. \A k \in DOMAIN s : s[k] \in Version_
    OBVIOUS
  <2> QED
    BY <1>4, <2>1 DEF Version_
<1>6. stated \in SUBSET Nat /\ stated # {} /\ t + n \in Nat /\ \A x \in stated : x <= t + n
  <2>1. \A k \in paired : s[k].at + s[k].wait \in Nat /\ s[k].at + s[k].wait <= t + n
    BY <1>3, <1>4, <1>5
  <2>2. \A x \in stated : \E k \in paired : x = s[k].at + s[k].wait
    OBVIOUS
  <2>3. s[i].at + s[i].wait \in stated
    BY <1>1
  <2> HIDE DEF stated
  <2> QED
    BY <1>4, <2>1, <2>2, <2>3
<1>7. s[i].at + s[i].wait \in stated
  BY <1>1
<1>8. RetryAt({s[k] : k \in paired}) = Max(stated) + WaitBuffer
  BY DEF RetryAt
<1> HIDE DEF stated
<1>9. Max(stated) \in Nat /\ s[i].at + s[i].wait <= Max(stated)
  BY <1>6, <1>7, Greatest
<1>10. i = Len(s) => Max(paired) = i
  <2> SUFFICES ASSUME i = Len(s) PROVE Max(paired) = i
    OBVIOUS
  <2>1. paired \in SUBSET Nat /\ paired # {} /\ \A k \in paired : k <= i
    BY <1>1, <1>3
  <2>2. Max(paired) \in paired /\ i <= Max(paired)
    BY <1>1, <2>1, Greatest
  <2> QED
    BY <1>3, <2>1, <2>2
<1> DEFINE refusal == CorrelatedWait(s, at)
<1>11. refusal.retryAt = Max(stated) + WaitBuffer /\ refusal.full = s[Max(paired)].full
  BY <1>1, <1>2, <1>8
<1> HIDE DEF refusal
<1>12. WaitBuffer \in Nat /\ s[i].at \in Nat /\ s[i].wait \in Nat
  BY <1>5, BoundsAssumption
<1> QED
  BY <1>9, <1>10, <1>11, <1>12 DEF refusal

\* A process that read the head posts a trigger only by decide()'s word.
LEMMA TriggerReported ==
  ASSUME CInv, NEW r \in Run, run[r].pc = "rest", Step(r) \/ Die(r), run'[r].pc = "post"
  PROVE  \E seen \in Listed : Decide(Judged(r, seen), Sha, now).state \in TriggerStates
<1>1. DOMAIN run = Run /\ DOMAIN run[r] = Fields
  BY DEF CInv, Running, Process
<1>2. \A f : run' = [run EXCEPT ![r] = f] => run'[r] = f
  BY <1>1
<1>3. ReadRest(r) \/ ReadFails(r) \/ Die(r)
  BY DEF Step, Acquire, ReadHead, PostTrigger, Wake, PostFails
<1>4. ASSUME NEW posted, NEW wakes, Sleep(r, posted, wakes) PROVE FALSE
  <2> DEFINE f == [Fresh EXCEPT !.pc = "sleep", !.posted = posted,
                                !.wake = Min(wakes \union {now + Interval})]
  <2>1. run'[r] = f
    BY <1>2, <1>4 DEF Sleep
  <2>2. f.pc = "sleep"
    BY DEF Fresh
  <2> QED
    BY <2>1, <2>2
<1>5. ASSUME NEW item, Finish(r, item) PROVE FALSE
  <2> DEFINE f == [Fresh EXCEPT !.pc = "done", !.item = item]
  <2>1. run'[r] = f
    BY <1>2, <1>5 DEF Finish
  <2>2. f.pc = "done"
    BY DEF Fresh
  <2> QED
    BY <2>1, <2>2
<1>6. ~Die(r)
  <2> DEFINE f == [Fresh EXCEPT !.pc = "dead"]
  <2>1. Die(r) => run'[r] = f
    BY <1>2 DEF Die
  <2>2. f.pc = "dead"
    BY DEF Fresh
  <2> QED
    BY <2>1, <2>2
<1>7. ~ReadFails(r)
  BY <1>4, <1>5 DEF ReadFails
<1>8. PICK seen \in Listed :
        LET ev == Judged(r, seen)
            item == Decide(ev, Sha, now)
        IN  IF item.state \in TriggerStates /\ ~OutOfTime
            THEN /\ run' = [run EXCEPT ![r] =
                      [@ EXCEPT !.pc = "post", !.ev = ev, !.item = item, !.wake = now,
                                !.reviewing = IF StillReviewing(r) THEN bot.since ELSE 0,
                                !.earlier = (bot.doing = "earlier")]]
                 /\ UNCHANGED lock
            ELSE Settle(r, ev, item)
  BY <1>3, <1>6, <1>7 DEF ReadRest, Judged, Evidence
<1> DEFINE ev == Judged(r, seen)
           item == Decide(ev, Sha, now)
<1>9. ~Settle(r, ev, item)
  BY <1>4, <1>5 DEF Settle
<1> HIDE DEF ev, item
<1>10. item.state \in TriggerStates
  BY <1>8, <1>9 DEF ev, item
<1> QED
  BY <1>10 DEF ev, item

\* The strengthening that RefusalHonoured needs: while CodeRabbit's last word on the
\* head is a refusal, every wait it stated is in its summary comment, and a run that
\* has read both has them all in its evidence.
THEOREM RefusalsInductive == Spec => [](CInv /\ Refused)
<1>1. Init => Refused
  BY DEF Init, Refused
<1> QED
  BY <1>1, CInvInit, CInvNext, RefusedNext, PTL DEF Spec

\* Against CodeRabbit's last refusal no trigger is decided before all its stated
\* waits are over, however often, and how close to its status, it stated them anew,
\* and none when its last word is that waiting cannot help.
THEOREM RefusalsHonoured == Spec => RefusalHonoured
<1> DEFINE Honoured(r) ==
      /\ run[r].pc = "rest" /\ run'[r].pc = "post"
      /\ run[r].n = Len(statuses) /\ Newest(statuses).kind = "rate-limited"
      /\ bot.doing = "idle"
      => \A i \in bot.stated :
             /\ now >= summary[i].at + summary[i].wait + WaitBuffer
             /\ (\A j \in bot.stated : j <= i) => ~summary[i].full
<1>1. CInv /\ Refused /\ [Next]_vars => \A r \in Run : Honoured(r)
  <2> SUFFICES ASSUME CInv, Refused, [Next]_vars, NEW r \in Run,
                      run[r].pc = "rest", run'[r].pc = "post", run[r].n = Len(statuses),
                      Newest(statuses).kind = "rate-limited", bot.doing = "idle",
                      NEW i \in bot.stated
               PROVE  /\ now >= summary[i].at + summary[i].wait + WaitBuffer
                      /\ (\A j \in bot.stated : j <= i) => ~summary[i].full
    OBVIOUS
  <2>1. run'[r] # run[r]
    OBVIOUS
  <2>2. Step(r) \/ Die(r)
    <3>1. PICK s \in Run : Step(s) \/ Die(s)
      BY <2>1 DEF Next, Tick, External, vars
    <3> QED
      BY <2>1, <3>1, OtherProcesses DEF CInv
  <2>3. PICK seen \in Listed : Decide(Judged(r, seen), Sha, now).state \in TriggerStates
    BY <2>2, TriggerReported
  <2> DEFINE ev == Judged(r, seen)
             at == Newest(statuses).at
             refusal == CorrelatedWait(summary, at)
  <2>4. statuses \in Seq(Statuses) /\ SubSeq(statuses, 1, Len(statuses)) = statuses
    <3>1. statuses \in Seq(Statuses)
      BY DEF CInv, Shown, Typed, History
    <3> QED
      BY <3>1
  <2>5. ev.history = statuses /\ ev.refusal = refusal
    <3>1. /\ ev.history = SubSeq(statuses, 1, run[r].n)
          /\ ev.refusal = IF Newest(SubSeq(statuses, 1, run[r].n)).kind = "rate-limited"
                          THEN CorrelatedWait(summary, Newest(SubSeq(statuses, 1, run[r].n)).at)
                          ELSE NoRefusal
      BY JudgedEvidence
    <3> QED
      BY <2>4, <3>1
  <2>6. ev.refusal.wait /\ ~ev.refusal.full /\ ~(ev.refusal.retryAt > now)
    <3> HIDE DEF ev
    <3> QED
      BY <2>3, <2>5, RefusalDecided DEF ev
  <2>7. at \in Nat
    <3>1. statuses # <<>>
      BY DEF Newest, NoStatus
    <3>2. Last(statuses) \in Statuses
      BY <2>4, <3>1 DEF Last
    <3> QED
      BY <3>1, <3>2 DEF Newest, Statuses
  <2>8. /\ summary \in Seq(Version_) /\ now \in Nat
        /\ world.waits \in SUBSET Nat /\ IsFiniteSet(world.waits)
        /\ \A k \in DOMAIN summary :
             summary[k].at <= now /\ summary[k].wait \in {0} \union world.waits
    BY World DEF CInv, Shown, Typed, Versions
  <2>9. /\ i \in DOMAIN summary /\ at - Correlation <= summary[i].at /\ summary[i].at <= at
        /\ summary[i].wait > 0 /\ Len(summary) \in bot.stated
        /\ \A j \in DOMAIN summary : summary[j].at = summary[i].at => j <= i
    BY DEF Refused
  <2> HIDE DEF at, ev
  <2>10. /\ refusal.retryAt \in Nat
         /\ summary[i].at + summary[i].wait + WaitBuffer <= refusal.retryAt
         /\ i = Len(summary) => refusal.full = summary[i].full
    BY <2>7, <2>8, <2>9, WaitCovers
  <2>11. summary[i].at \in Nat /\ summary[i].wait \in Nat /\ WaitBuffer \in Nat
    <3>1. summary[i] \in Version_
      BY <2>8, <2>9
    <3> QED
      BY <3>1, BoundsAssumption DEF Version_
  <2> HIDE DEF refusal
  <2>12. now >= summary[i].at + summary[i].wait + WaitBuffer
    BY <2>5, <2>6, <2>8, <2>10, <2>11
  <2>13. (\A j \in bot.stated : j <= i) => i = Len(summary)
    <3>1. Len(summary) \in Nat /\ DOMAIN summary = 1 .. Len(summary)
      BY <2>8
    <3> QED
      BY <2>9, <3>1
  <2> QED
    BY <2>5, <2>6, <2>10, <2>12, <2>13
<1>2. CInv /\ Refused /\ [Next]_vars => [\A r \in Run : Honoured(r)]_vars
  BY <1>1
<1> QED
  BY <1>2, RefusalsInductive, PTL DEF Spec, RefusalHonoured
=============================================================================
