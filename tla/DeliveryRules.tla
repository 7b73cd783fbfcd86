--------------------------- MODULE DeliveryRules ---------------------------
(***************************************************************************)
(* How delivery_wait.py judges what it observes: a check, a census of named *)
(* checks, a pull request, a census of workflow runs, a tag and a release.  *)
(* A check has the name and the source it counts under, its suite (0 for a  *)
(* commit status), when it was observed, whether its status and its         *)
(* completion time say that it ended, and its conclusion.                   *)
(***************************************************************************)
EXTENDS Integers, FiniteSets

Passing == {"success", "neutral", "skipped"}
Failing == {"failure", "error", "cancelled", "timed_out", "action_required",
            "startup_failure", "stale"}

IsTerminal(c) == c.concl \in Passing \union Failing /\ (c.completed \/ c.ended)
CheckFailed(c) == IsTerminal(c) /\ c.concl \notin Passing

\* Mutant: the check observed last is the current one.
Newer_ByTime(c, d) == c.at > d.at
\* A newer check suite replaces an older one; statuses go by time.
Newer(c, d) ==
    \/ c.suite > d.suite
    \/ c.suite = 0 /\ d.suite = 0 /\ c.at > d.at

\* Of each name and source the newest.
Current(checks) ==
    {c \in checks : \A d \in checks : d.name = c.name /\ d.source = c.source => ~Newer(d, c)}

Named(checks, name) == {c \in Current(checks) : c.name = name}

FailedChecks(expected, checks) ==
    {name \in expected : \E c \in Named(checks, name) : CheckFailed(c)}

AllEnded(expected, checks) ==
    \A name \in expected : \A c \in Named(checks, name) : IsTerminal(c)

\* classify_pr for named checks.
JudgeChecks(expected, checks) ==
    IF FailedChecks(expected, checks) # {} THEN "changed"
    ELSE IF /\ \A name \in expected : Named(checks, name) # {}
            /\ expected # {} /\ AllEnded(expected, checks)
    THEN "satisfied" ELSE "waiting"

\* classify_pr for a merge.
JudgeMerge(pull) ==
    IF pull.merged THEN "satisfied"
    ELSE IF pull.state = "CLOSED" THEN "changed" ELSE "waiting"

\* The classification of a tag, and of the assets of its release.
JudgeTag(target, expected) ==
    IF target = "none" THEN "waiting"
    ELSE IF target = expected THEN "satisfied" ELSE "invalidated"

JudgeRelease(target, release, expected, wanted) ==
    IF target \notin {"none", expected} THEN "invalidated"
    ELSE IF target = expected /\ release.published /\ wanted \subseteq release.assets
    THEN "satisfied" ELSE "waiting"

-----------------------------------------------------------------------------
(* A census of workflow runs: each with its attempt, whether it completed, its *)
(* conclusion and its jobs.                                                    *)

Ended(x) == x.completed /\ x.concl # "none"
Jobs(census) == UNION {r.jobs : r \in census}

\* workflow_failures: a run or job that ended without passing.
Failures(census) ==
    {x \in {[run |-> r.id, concl |-> r.concl, completed |-> r.completed] : r \in census}
           \union {[run |-> j.id, concl |-> j.concl, completed |-> j.completed] :
                   j \in Jobs(census)} :
        Ended(x) /\ x.concl \notin Passing}

\* Nothing failed, at least one run, and every run and job ended.
Complete(census) ==
    census # {} /\ \A x \in census \union Jobs(census) : Ended(x)
=============================================================================
