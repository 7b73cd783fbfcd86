--------------------------- MODULE CodeRabbitRun ---------------------------
(***************************************************************************)
(* Runs of coderabbit_adapter.py for one head of a pull request: the lock  *)
(* of the owner, the observation loop of run_review() and its triggers,    *)
(* beside GitHub, CodeRabbit and people, who act between any two reads.    *)
(***************************************************************************)
EXTENDS CodeRabbitAdapter

CONSTANTS
    Run,            \* processes running the command
    Sha, OtherSha,  \* the expected head and any other commit
    Worlds          \* kinds of pull request and command, with bounds: records of
                    \*   runs         the processes that run the command
                    \*   deadline, interval    its options
                    \*   lag          for how long a listing may lack a new comment
                    \*   waits        the waits CodeRabbit may state
                    \*   shared       whether another open pull request has the head
                    \*   steps        what CodeRabbit and people may do besides
                    \*   maxTime, maxStatuses, maxEdits, maxTriggers    the bounds

ASSUME RunAssumption ==
    /\ Sha # OtherSha /\ Run \intersect {"free", "person"} = {}
    /\ \A w \in Worlds :
         /\ w.runs \subseteq Run /\ w.shared \in BOOLEAN /\ IsFiniteSet(w.waits)
         /\ {w.deadline, w.interval, w.maxTime} \union w.waits \subseteq Nat \ {0}

VARIABLES
    world,      \* the kind of pull request and command
    now,        \* the clock
    pull,       \* the pull request as GitHub has it
    statuses,   \* CodeRabbit's statuses on Sha, oldest first
    summary,    \* the versions of its summary comment, oldest first
    findings,   \* when its newest findings review of Sha was submitted
    triggers,   \* the trigger commands on the pull request
    bot,        \* what CodeRabbit is doing, since when, its stated waits, when a pass
                \* last ended, whether it lost the newest one
    lock,       \* the run that holds the owner's lock, or Free
    run         \* the state of each process

vars == <<world, now, pull, statuses, summary, findings, triggers, bot, lock, run>>
github == <<pull, statuses, summary, findings, triggers, bot>>

Shared == world.shared
Lag == world.lag
Deadline == world.deadline
Interval == world.interval
May(step) == step \in world.steps

Free == "free"
NoPull == [head |-> Sha, open |-> FALSE, draft |-> FALSE, suites |-> FALSE,
           committed |-> 0, pushed |-> 0, opened |-> 0, ready |-> 0, moved |-> 0]
NoEv == PullEvidence(NoPull, <<>>, NoPull, <<>>, 0, {}, FALSE)
Fresh == [pc |-> "lock", wake |-> 0, posted |-> {}, pull |-> NoPull, n |-> 0,
          ev |-> NoEv, item |-> Result("pending", "", 0), reviewing |-> 0, earlier |-> FALSE]
Version(busy, wait, full, clean) ==
    [at |-> now, busy |-> busy, wait |-> wait, full |-> full, clean |-> clean]

TypeOK ==
    /\ now \in 1 .. world.maxTime
    /\ pull.head \in {Sha, OtherSha}
    /\ \A i \in DOMAIN statuses : statuses[i].kind \in StatusKinds
    /\ \A i \in DOMAIN triggers : triggers[i].mode \in Modes
    /\ bot.doing \in {"idle", "head", "closing", "earlier", "refusing"}
    /\ lock \in Run \union {Free}
    /\ \A r \in Run :
         /\ run[r].pc \in {"lock", "read", "rest", "post", "sleep", "done", "dead"}
         /\ run[r].item.state \in HeadStates \union {"pending", "lock-held", "operational-error"}

Init ==
    /\ world \in Worlds
    /\ now = 2
    /\ \E draft, suites, earlier \in BOOLEAN :
         /\ draft => May("ready")
         /\ ~suites => May("push")
         /\ earlier => May("earlier")
         /\ pull = [head |-> Sha, open |-> TRUE, draft |-> draft,
                    suites |-> suites, committed |-> 1, pushed |-> 2,
                    opened |-> 1, ready |-> 0, moved |-> 0]
         /\ bot = [doing |-> IF earlier THEN "earlier" ELSE "idle",
                   since |-> 1, stated |-> {}, ended |-> 0, lost |-> FALSE]
         /\ summary = IF earlier
                      THEN <<[at |-> 1, busy |-> TRUE, wait |-> 0,
                              full |-> FALSE, clean |-> FALSE]>>
                      ELSE <<>>
    /\ statuses = <<>> /\ findings = 0 /\ triggers = <<>>
    /\ lock = Free
    /\ run = [r \in Run |-> IF r \in world.runs THEN Fresh ELSE [Fresh EXCEPT !.pc = "done"]]

-----------------------------------------------------------------------------
(* CodeRabbit and people, as the adapter reads them. *)

Post(kind) == statuses' = Append(statuses, [at |-> now, kind |-> kind])
Edit(version) == summary' = Append(summary, version)
WasClean == CleanReview(summary)
CanPost == Len(statuses) < world.maxStatuses
CanEdit == Len(summary) < world.maxEdits
\* "No answer comes within a second of its trigger."
Answerable == \A i \in DOMAIN triggers : triggers[i].at < now

BotStart ==
    /\ bot.doing = "idle" /\ pull.head = Sha /\ Answerable /\ CanPost /\ CanEdit
    /\ Post("in-progress") /\ Edit(Version(TRUE, 0, FALSE, WasClean))
    /\ bot' = [bot EXCEPT !.doing = "head", !.since = now, !.stated = {}]
    /\ UNCHANGED <<pull, findings, triggers>>

\* A pass ends with findings, with a clean mark, or showing nothing new.
BotPublish ==
    /\ bot.doing = "head" /\ CanEdit
    /\ \/ findings' = now /\ Edit(Version(FALSE, 0, FALSE, FALSE))
       \/ UNCHANGED findings /\ Edit(Version(FALSE, 0, FALSE, TRUE))
       \/ UNCHANGED findings /\ Edit(Version(FALSE, 0, FALSE, WasClean))
    /\ bot' = [bot EXCEPT !.doing = "closing", !.ended = now, !.lost = FALSE]
    /\ UNCHANGED <<pull, statuses, triggers>>

BotComplete ==
    /\ bot.doing = "closing" /\ CanPost /\ Post("completed")
    /\ bot' = [bot EXCEPT !.doing = "idle", !.ended = now]
    /\ UNCHANGED <<pull, summary, findings, triggers>>

BotStop ==
    /\ bot.doing = "head" /\ CanPost /\ CanEdit
    /\ \E kind \in {"lock-loss", "paused"} :
         /\ Post(kind)
         /\ bot' = [bot EXCEPT !.doing = "idle", !.lost = kind = "lock-loss"]
    /\ Edit(Version(FALSE, 0, FALSE, WasClean))
    /\ UNCHANGED <<pull, findings, triggers>>

BotEarlierEnds ==
    /\ bot.doing = "earlier" /\ CanEdit /\ Edit(Version(FALSE, 0, FALSE, FALSE))
    /\ bot' = [bot EXCEPT !.doing = "idle"]
    /\ UNCHANGED <<pull, statuses, findings, triggers>>

\* It edits in the wait it will state, up to Correlation before the status.  What
\* it states later in the same second is all that GitHub's history shows of it.
BotStateWait ==
    /\ bot.doing \in {"idle", "refusing"} /\ pull.head = Sha /\ CanEdit
    /\ \E wait \in world.waits, full \in BOOLEAN :
         /\ Edit(Version(FALSE, wait, full, WasClean))
         /\ bot' = [bot EXCEPT !.doing = "refusing",
                      !.since = IF bot.doing = "idle" THEN now ELSE @,
                      !.stated = {Len(summary) + 1} \union
                                 (IF bot.doing = "idle" THEN {}
                                  ELSE {i \in @ : summary[i].at < now})]
    /\ UNCHANGED <<pull, statuses, findings, triggers>>

BotRefuse ==
    /\ bot.doing \in {"idle", "refusing"} /\ pull.head = Sha /\ Answerable /\ CanPost
    /\ bot.doing = "refusing" => now <= bot.since + Correlation
    /\ Post("rate-limited")
    /\ bot' = [bot EXCEPT !.doing = "idle", !.stated = IF bot.doing = "idle" THEN {} ELSE @]
    /\ UNCHANGED <<pull, summary, findings, triggers>>

BotSkip ==
    /\ bot.doing = "idle" /\ pull.head = Sha /\ Answerable /\ CanPost
    /\ \E kind \in {"skipped", "paused", "unrecognized"}
                   \union (IF pull.draft THEN {"draft-skip"} ELSE {}) :
         /\ Post(kind)
         /\ bot' = [bot EXCEPT !.lost =
                      @ /\ (kind = "unrecognized" \/ (Shared /\ kind = "skipped"))]
    /\ UNCHANGED <<pull, summary, findings, triggers>>

\* The status answers the other pull request on the same head.
BotSkipOther ==
    /\ Shared /\ CanPost
    /\ \E kind \in {"skipped"} \union (world.steps \intersect {"draft-skip"}) : Post(kind)
    /\ UNCHANGED <<pull, summary, findings, triggers, bot>>

MarkReady ==
    /\ pull.draft
    /\ pull' = [pull EXCEPT !.draft = FALSE, !.ready = now]
    /\ UNCHANGED <<statuses, summary, findings, triggers, bot>>

ForcePushAway ==
    /\ pull.head = Sha
    /\ pull' = [pull EXCEPT !.head = OtherSha, !.moved = now]
    /\ UNCHANGED <<statuses, summary, findings, triggers, bot>>

\* By a force push, or by a push no event dates.
ComeBack ==
    /\ pull.head = OtherSha
    /\ \E moved \in {pull.moved, now} :
         pull' = [pull EXCEPT !.head = Sha, !.moved = moved]
    /\ UNCHANGED <<statuses, summary, findings, triggers, bot>>

Close ==
    /\ pull.open /\ pull' = [pull EXCEPT !.open = FALSE]
    /\ UNCHANGED <<statuses, summary, findings, triggers, bot>>

Comment(mode, by) ==
    triggers' = Append(triggers, [id |-> Len(triggers) + 1, at |-> now,
                                  mode |-> mode, by |-> by])

PersonTriggers ==
    /\ Len(triggers) < world.maxTriggers
    /\ \E mode \in Modes : Comment(mode, "person")
    /\ UNCHANGED <<pull, statuses, summary, findings, bot>>

External ==
    /\ \E r \in Run : run[r].pc \notin {"done", "dead"}
    /\ \/ BotStart \/ BotPublish \/ BotComplete \/ BotStop \/ BotEarlierEnds
       \/ May("refuse") /\ (BotStateWait \/ BotRefuse)
       \/ May("skip") /\ BotSkip
       \/ BotSkipOther
       \/ May("ready") /\ MarkReady
       \/ May("push") /\ (ForcePushAway \/ ComeBack)
       \/ May("close") /\ Close
       \/ May("person") /\ PersonTriggers
    /\ UNCHANGED <<world, now, lock, run>>

-----------------------------------------------------------------------------
(* A run. *)

OutOfTime == now >= Deadline

Available == lock = Free

\* main(): acquire_lock until the deadline.
Acquire(r) ==
    /\ run[r].pc = "lock" /\ now >= run[r].wake
    /\ IF Available
       THEN lock' = r /\ run' = [run EXCEPT ![r].pc = "read"]
       ELSE /\ UNCHANGED lock
            /\ IF OutOfTime
               THEN run' = [run EXCEPT ![r] = [@ EXCEPT !.pc = "done",
                                                  !.item = Result("lock-held", "", 0)]]
               ELSE run' = [run EXCEPT ![r].wake = Min({now + Interval, Deadline})]
    /\ UNCHANGED <<world, now, github>>

Finish(r, item) ==
    /\ lock' = Free
    /\ run' = [run EXCEPT ![r] = [Fresh EXCEPT !.pc = "done", !.item = item]]

\* Until the interval, or the state can change, or the deadline.
Sleep(r, posted, wakes) ==
    run' = [run EXCEPT ![r] = [Fresh EXCEPT !.pc = "sleep", !.posted = posted,
                                 !.wake = Min(wakes \union {now + Interval})]]

\* run_review reads the pull request and the statuses of its head ...
ReadHead(r) ==
    /\ run[r].pc = "read"
    /\ run' = [run EXCEPT ![r] =
                  [@ EXCEPT !.pc = "rest", !.pull = pull, !.n = Len(statuses),
                            !.reviewing = IF bot.doing = "head" THEN bot.since ELSE 0]]
    /\ UNCHANGED <<world, now, github, lock>>

\* ... or GitHub is unavailable: it retries until the deadline.
ReadFails(r) ==
    /\ run[r].pc \in {"read", "rest"}
    /\ IF OutOfTime THEN Finish(r, Result("pending", "", 0))
       ELSE /\ UNCHANGED lock
            /\ Sleep(r, run[r].posted, {Deadline})
    /\ UNCHANGED <<world, now, github>>

\* After a decision that posts nothing: return, or sleep until the state can
\* next change.
Settle(r, ev, item) ==
    IF item.state \in FinalStates \union TriggerStates \/ OutOfTime
    THEN Finish(r, item)
    ELSE /\ UNCHANGED lock
         /\ Sleep(r, run[r].posted, {Deadline, item.wake} \ {0})

\* A listing may still lack the newest comments.
Listed ==
    LET all == ToSet(triggers)
    IN  {all, {t \in all : t.at + Lag <= now}}

\* CodeRabbit has been reviewing the head since before the first read.
StillReviewing(r) == bot.doing = "head" /\ bot.since = run[r].reviewing

\* The comments, reviews and timeline, then decide().
ReadRest(r) ==
    /\ run[r].pc = "rest"
    /\ \E seen \in Listed :
         LET ev == WithPosted(
                     PullEvidence(run[r].pull, SubSeq(statuses, 1, run[r].n), pull,
                                  summary, findings, seen, Shared),
                     run[r].posted)
             item == Decide(ev, Sha, now)
         IN  IF item.state \in TriggerStates /\ ~OutOfTime
             THEN /\ run' = [run EXCEPT ![r] =
                       [@ EXCEPT !.pc = "post", !.ev = ev, !.item = item, !.wake = now,
                                 !.reviewing = IF StillReviewing(r) THEN bot.since ELSE 0,
                                 !.earlier = (bot.doing = "earlier")]]
                  /\ UNCHANGED lock
             ELSE Settle(r, ev, item)
    /\ UNCHANGED <<world, now, github>>

\* The trigger is posted, and the same evidence judged with it.
PostTrigger(r) ==
    /\ run[r].pc = "post"
    /\ Comment(run[r].item.mode, r)
    /\ LET posted == run[r].posted \union {Last(triggers')}
           ev == WithPosted(run[r].ev, posted)
           item == Decide(ev, Sha, now)
       IN  IF item.state \in FinalStates \/ OutOfTime THEN Finish(r, item)
           ELSE /\ UNCHANGED lock
                /\ Sleep(r, posted, {Deadline, item.wake})
    /\ UNCHANGED <<world, now, pull, statuses, summary, findings, bot>>

\* The request fails, before or after GitHub made the comment: main() reports
\* an operational error.
PostFails(r) ==
    /\ run[r].pc = "post"
    /\ \/ UNCHANGED triggers
       \/ Comment(run[r].item.mode, r)
    /\ Finish(r, Result("operational-error", "", 0))
    /\ UNCHANGED <<world, now, pull, statuses, summary, findings, bot>>

Wake(r) ==
    /\ run[r].pc = "sleep" /\ now >= run[r].wake
    /\ run' = [run EXCEPT ![r].pc = "read"]
    /\ UNCHANGED <<world, now, github, lock>>

\* The process dies: the kernel releases its lock.
Die(r) ==
    /\ May("crash") /\ run[r].pc \notin {"done", "dead"}
    /\ run' = [run EXCEPT ![r] = [Fresh EXCEPT !.pc = "dead"]]
    /\ lock' = IF lock = r THEN Free ELSE lock
    /\ UNCHANGED <<world, now, github>>

Step(r) ==
    \/ Acquire(r) \/ ReadHead(r) \/ ReadRest(r) \/ PostTrigger(r) \/ Wake(r)
    \/ May("faults") /\ (ReadFails(r) \/ PostFails(r))

\* An observation takes less than a unit of time.
Tick ==
    /\ now < world.maxTime /\ \A r \in Run : run[r].pc \notin {"rest", "post"}
    /\ now' = now + 1
    /\ UNCHANGED <<world, github, lock, run>>

Next == Tick \/ External \/ \E r \in Run : Step(r) \/ Die(r)

Spec == Init /\ [][Next]_vars

-----------------------------------------------------------------------------
(* Properties. *)

\* No draft skip answers the other pull request on the head: it would hide a
\* running review from the adapter.
OwnDraftSkips == ~(Shared /\ May("draft-skip"))

\* A trigger is decided only while CodeRabbit is idle: not while it has been
\* reviewing the head all through the observation, nor, when no status of
\* this cycle says more, within the hour a review of an earlier head may take.
TriggerWhenIdle ==
    \A r \in Run : run[r].pc = "post" =>
        /\ OwnDraftSkips => run[r].reviewing = 0
        /\ run[r].earlier => \/ Newest(run[r].ev.history).at >= run[r].ev.start
                             \/ run[r].wake >= run[r].ev.start + InProgress

\* No trigger of the adapter follows another one that no status has answered,
\* unless a push or ready event began a new cycle: whichever process posted it,
\* or, when a listing may lack the newest comments, in one process.
NoRepeatedTrigger ==
    \A i, j \in DOMAIN triggers :
        /\ i < j /\ {triggers[i].by, triggers[j].by} \subseteq Run
        /\ Lag = 0 \/ triggers[i].by = triggers[j].by
        =>
            \/ \E k \in DOMAIN statuses : /\ triggers[i].at < statuses[k].at
                                         /\ statuses[k].at <= triggers[j].at
            \/ \E t \in {pull.ready, pull.moved} : triggers[i].at < t

\* While a refusal is CodeRabbit's last word, no trigger is decided before every
\* wait it stated for it is over by WaitBuffer, and none when by its last statement
\* waiting cannot help.
RefusalHonoured ==
    [][\A r \in Run :
         /\ run[r].pc = "rest" /\ run'[r].pc = "post"
         /\ run[r].n = Len(statuses) /\ Newest(statuses).kind = "rate-limited"
         /\ bot.doing = "idle"
         => \A i \in bot.stated :
                /\ now >= summary[i].at + summary[i].wait + WaitBuffer
                /\ (\A j \in bot.stated : j <= i) => ~summary[i].full]_vars

\* A run reports the head complete only for a pass that ended after the last
\* dated arrival of the head and after the run's own triggers, never while
\* CodeRabbit has been reviewing it again all through the observation, and never
\* when it lost that newer review.
CompleteIsCurrent ==
    [][\A r \in Run :
         OwnDraftSkips /\ run[r].pc = "rest" /\ run'[r].item.state \in CompleteStates =>
            /\ ~StillReviewing(r)
            /\ bot.lost => run[r].n < Len(statuses)
            /\ bot.ended > pull.moved /\ bot.ended >= pull.pushed
            /\ \A t \in run[r].posted : bot.ended > t.at]_vars

\* What the adapter would decide on what GitHub shows at this moment.
Observed == Decide(PullEvidence(pull, statuses, pull, summary, findings,
                                ToSet(triggers), Shared), Sha, now)
LastEvent ==
    Max({pull.pushed, pull.opened, pull.ready, pull.moved, findings}
        \union {statuses[i].at : i \in DOMAIN statuses}
        \union {summary[i].at : i \in DOMAIN summary}
        \union {triggers[i].at : i \in DOMAIN triggers})
LongestWait == Max({Automatic, Answer, InProgress, UnknownWait}
                   \union {wait + WaitBuffer : wait \in world.waits})

\* Every state that waits on CodeRabbit ends: once nothing has happened for
\* the longest bound, the head is final or a trigger is permitted.
SilenceEnds ==
    now >= LastEvent + LongestWait =>
        Observed.state \in FinalStates \union TriggerStates
=============================================================================
