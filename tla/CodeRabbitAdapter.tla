------------------------- MODULE CodeRabbitAdapter -------------------------
(***************************************************************************)
(* What coderabbit_adapter.py concludes from what it read: the evidence on *)
(* one head of a pull request and decide(), the state of that head.  Times *)
(* are seconds; 0 stands for "never".  A commit status is a record         *)
(* [at, kind] with the kind status_kind gives it, a version of CodeRabbit's*)
(* summary comment a record [at, busy, wait, full, clean]: the reviewing   *)
(* block, the stated wait (0 for none), the no-capacity notice, and the    *)
(* coverage marker of this head with no actionable comments.               *)
(***************************************************************************)
EXTENDS Integers, FiniteSets, SequencesExt, FiniteSetsExt

CONSTANTS
    Correlation,    \* CORRELATION_SECONDS
    WaitBuffer,     \* WAIT_BUFFER_SECONDS
    Automatic,      \* AUTOMATIC_REVIEW_SECONDS
    Answer,         \* TRIGGER_ANSWER_SECONDS
    InProgress,     \* IN_PROGRESS_SECONDS
    UnknownWait     \* UNKNOWN_WAIT_SECONDS

ASSUME BoundsAssumption ==
    /\ {Correlation, WaitBuffer} \subseteq Nat
    /\ {Automatic, Answer, InProgress, UnknownWait} \subseteq Nat \ {0}

Modes == {"incremental", "full"}
StatusKinds == {"in-progress", "rate-limited", "lock-loss", "completed",
                "draft-skip", "skipped", "paused", "unrecognized"}
CompleteStates == {"review-complete", "clean-complete"}
BlockedStates ==
    {"skipped", "paused", "blocked-unanswered", "blocked-stalled",
     "blocked-unknown-wait", "blocked-no-capacity", "blocked-unconfirmed",
     "blocked-lock-loss", "unrecognized-status", "closed"}
FinalStates == CompleteStates \union BlockedStates \union {"draft", "invalidated"}
TriggerStates == {"trigger-incremental", "trigger-full"}
HeadStates ==
    FinalStates \union TriggerStates \union
    {"awaiting-automatic", "triggered", "in-progress", "waiting",
     "rate-limited-unknown-wait"}

NoStatus == [at |-> 0, kind |-> "none"]
Newest(history) == IF history = <<>> THEN NoStatus ELSE Last(history)

-----------------------------------------------------------------------------
(* Reading the evidence. *)

\* The first push of the head: its check suite, else the first status, else
\* the commit time.
FirstArrival(pull, history) ==
    IF pull.suites THEN pull.pushed
    ELSE IF history # <<>> THEN history[1].at ELSE pull.committed

\* No earlier than the latest force push leaving or reaching the head.
HeadArrival(pull, history) == Max({FirstArrival(pull, history), pull.moved})

\* The latest event after which CodeRabbit starts its own review.
AutomaticStart(pull, arrival) == Max({arrival, pull.opened, pull.ready})

\* The versions of the summary by time; within a second GitHub's
\* newest-first history keeps its order.
Before(summary, i, j) == \/ summary[i].at < summary[j].at
                         \/ (summary[i].at = summary[j].at /\ i > j)

\* The versions the summary showed from start on: the last one set by then and
\* all that came later.
ShownFrom(summary, start) ==
    LET old == {i \in DOMAIN summary : summary[i].at <= start}
        last == CHOOSE i \in old : \A j \in old \ {i} : Before(summary, j, i)
    IN  (DOMAIN summary \ old) \union (IF old = {} THEN {} ELSE {last})

NoEarlier == [found |-> FALSE, ended |-> 0]

\* CodeRabbit's review of an earlier head running since start, and its end.
EarlierReview(summary, start) ==
    LET shown == ShownFrom(summary, start)
        busy == {i \in shown : summary[i].busy}
        after == {i \in shown \ busy : \A b \in busy : summary[b].at < summary[i].at}
    IN  IF busy = {} THEN NoEarlier
        ELSE [found |-> TRUE,
              ended |-> IF after = {} THEN 0 ELSE Min({summary[i].at : i \in after})]

\* Mutant: the earliest stated time is taken.
RetryAt_Earliest(versions) ==
    Min({v.at + v.wait : v \in versions}) + WaitBuffer
\* The latest retry time, a minute after the stated one.
RetryAt(versions) == Max({v.at + v.wait : v \in versions}) + WaitBuffer

NoRefusal == [wait |-> FALSE, full |-> FALSE, retryAt |-> 0]

\* The wait stated for a refusal at time at: the newest version of each
\* second within Correlation before it, the latest retry time among them.
CorrelatedWait(summary, at) ==
    LET paired == {i \in DOMAIN summary :
                     /\ at - Correlation <= summary[i].at /\ summary[i].at <= at
                     /\ \A j \in DOMAIN summary :
                          summary[j].at = summary[i].at => j <= i
                     /\ summary[i].wait > 0}
    IN  IF paired = {} THEN NoRefusal
        ELSE [wait |-> TRUE,
              full |-> summary[Max(paired)].full,
              retryAt |-> RetryAt({summary[i] : i \in paired})]

\* A clean pass: the summary as it is now marks the head covered.
CleanReview(summary) == summary # <<>> /\ Last(summary).clean

\* Trigger commands since the head arrived.
HeadTriggers(listed, arrival) == {t \in listed : t.at >= arrival}

\* The last of them by time and id.
Latest(triggers) ==
    CHOOSE t \in triggers : \A u \in triggers :
        u.at < t.at \/ (u.at = t.at /\ u.id <= t.id)

\* Mutant: only what the listing shows counts.
WithPosted_Listed(ev, posted) == ev
\* The triggers this process posted, which the listing may lack.
WithPosted(ev, posted) == [ev EXCEPT !.triggers = @ \union posted]

\* pull and history are read first, the summary, the reviews, the comments
\* and the timeline (ready, moved) later.
PullEvidence(pull, history, timeline, summary, findings, listed, shared) ==
    LET dated == [pull EXCEPT !.ready = timeline.ready, !.moved = timeline.moved]
        arrival == HeadArrival(dated, history)
        start == AutomaticStart(dated, arrival)
        newest == Newest(history)
    IN  [head |-> pull.head, open |-> pull.open, draft |-> pull.draft,
         shared |-> shared, arrival |-> arrival, start |-> start,
         history |-> history,
         earlier |-> IF newest.kind = "none" \/ newest.at < start
                     THEN EarlierReview(summary, start) ELSE NoEarlier,
         findings |-> findings, clean |-> CleanReview(summary),
         triggers |-> HeadTriggers(listed, arrival),
         refusal |-> IF newest.kind = "rate-limited"
                     THEN CorrelatedWait(summary, newest.at) ELSE NoRefusal]

-----------------------------------------------------------------------------
(* decide(): the state, the trigger mode ("" for none), when it can change. *)

Result(state, mode, wake) == [state |-> state, mode |-> mode, wake |-> wake]

\* Mutant: the pending state never ends.
Bounded_Endless(pending, blocked, since, seconds, mode, now) ==
    Result(pending, mode, now + seconds)
\* pending for some seconds after since, then blocked.
Bounded(pending, blocked, since, seconds, mode, now) ==
    IF now < since + seconds THEN Result(pending, mode, since + seconds)
    ELSE Result(blocked, "", since + seconds)

\* On a shared head a skip may answer another pull request: the pending
\* status before it stays current.
CurrentStatus(ev) ==
    LET answered == {i \in DOMAIN ev.history : ev.history[i].kind # "skipped"}
    IN  IF /\ ev.shared /\ Newest(ev.history).kind = "skipped"
           /\ answered # {} /\ ev.history[Max(answered)].kind = "in-progress"
        THEN ev.history[Max(answered)] ELSE Newest(ev.history)

TriggerState(mode) == IF mode = "full" THEN "trigger-full" ELSE "trigger-incremental"

\* Hold the trigger while the head's own refusal still applies.
Gate(ev, status, mode, now) ==
    LET refused == status.kind = "rate-limited"
    IN  IF refused /\ ~ev.refusal.wait
        THEN Bounded("rate-limited-unknown-wait", "blocked-unknown-wait",
                     status.at, UnknownWait, mode, now)
        ELSE IF refused /\ ev.refusal.full
        THEN Result("blocked-no-capacity", "", 0)
        ELSE IF refused /\ ev.refusal.retryAt > now
        THEN Result("waiting", mode, ev.refusal.retryAt)
        ELSE Result(TriggerState(mode), mode, 0)

\* Mutant: a review of an earlier head is not waited for.
AwaitUntil_Ignoring(ev) == ev.start + Automatic
\* Until when CodeRabbit may still start its own review.
AwaitUntil(ev) ==
    IF ~ev.earlier.found THEN ev.start + Automatic
    ELSE IF ev.earlier.ended = 0 THEN ev.start + InProgress
    ELSE Max({ev.start, ev.earlier.ended}) + Automatic

\* Mutant: a lost review no longer counts.
Ending_Lost(ev) == {"completed", "paused", "draft-skip", "lock-loss"}
                   \union (IF ev.shared THEN {} ELSE {"skipped"})
\* The kinds that end a pending review; on a shared head a skip may be for
\* another pull request.
Ending(ev) == {"completed", "paused", "draft-skip"}
              \union (IF ev.shared THEN {} ELSE {"skipped"})

\* Only evidence after this time completes the head: its arrival, its
\* triggers, and a newer review that is still unfinished.
ReviewedSince(ev) ==
    LET pending == {i \in DOMAIN ev.history : ev.history[i].kind = "in-progress"}
        newer == {i \in pending :
                    /\ i = Max(pending)
                    /\ \A j \in i + 1 .. Len(ev.history) :
                         ev.history[j].kind \notin Ending(ev)}
    IN  Max({ev.arrival} \union {t.at : t \in ev.triggers}
            \union {ev.history[i].at : i \in newer})

CompletedAt(ev) ==
    Max({0} \union {ev.history[i].at :
          i \in {i \in DOMAIN ev.history : ev.history[i].kind = "completed"}})

\* What a status that is neither pending nor superseded leaves to do.
DecideStatus(ev, status, triggers, now) ==
    LET latest == Latest(triggers)
        losses == {i \in DOMAIN ev.history :
                     ev.history[i].kind = "lock-loss" /\ ev.history[i].at >= ev.start}
        answered == \E i \in DOMAIN ev.history :
                      /\ latest.at < ev.history[i].at
                      /\ ev.history[i].at < status.at
                      /\ ev.history[i].kind # "in-progress"
        mode == IF triggers = {} THEN "incremental" ELSE latest.mode
    IN  CASE status.kind \in {"none", "draft-skip"} -> Gate(ev, status, "incremental", now)
          [] status.kind = "lock-loss" ->
               IF Cardinality(losses) > 1 THEN Result("blocked-lock-loss", "", 0)
               ELSE Gate(ev, status,
                         IF triggers # {} /\ ~answered THEN mode
                         ELSE "incremental", now)
          [] status.kind \in {"skipped", "paused"} -> Result(status.kind, "", 0)
          [] status.kind = "rate-limited" -> Gate(ev, status, mode, now)
          [] status.kind = "completed" ->
               IF \E t \in triggers : t.mode = "full"
               THEN Result("blocked-unconfirmed", "", 0)
               ELSE IF now < status.at + Automatic
               THEN Result("awaiting-automatic", "", status.at + Automatic)
               ELSE Gate(ev, status, "full", now)
          [] OTHER -> Result("unrecognized-status", "", 0)

Decide(ev, expected, now) ==
    LET status == CurrentStatus(ev)
        triggers == {t \in ev.triggers : t.at >= ev.start}
        triggerNewer == triggers # {} /\ Latest(triggers).at >= status.at
        since == ReviewedSince(ev)
        unreviewed == status.kind \in {"none", "draft-skip"}
    IN  IF ev.head # expected THEN Result("invalidated", "", 0)
        ELSE IF ~ev.open THEN Result("closed", "", 0)
        ELSE IF /\ ev.findings > since
                /\ status.kind = "in-progress" => ev.findings > status.at
        THEN Result("review-complete", "", 0)
        ELSE IF status.kind = "in-progress" /\ ~triggerNewer
        THEN Bounded("in-progress", "blocked-stalled",
                     Max({status.at, ev.start}), InProgress, "", now)
        ELSE IF ev.clean /\ CompletedAt(ev) > since
        THEN Result("clean-complete", "", 0)
        ELSE IF unreviewed /\ ev.draft THEN Result("draft", "", 0)
        ELSE IF triggerNewer
        THEN Bounded("triggered", "blocked-unanswered", Latest(triggers).at,
                     Answer, "", now)
        ELSE IF (unreviewed \/ ev.start > status.at) /\ now < AwaitUntil(ev)
        THEN Result("awaiting-automatic", "", AwaitUntil(ev))
        ELSE DecideStatus(ev, status, triggers, now)
=============================================================================
