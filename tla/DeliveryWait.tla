---------------------------- MODULE DeliveryWait ----------------------------
(***************************************************************************)
(* The waits of delivery_wait.py on named checks, a merge, a tag and a      *)
(* release: each observation is one GraphQL query or, when that is          *)
(* rate-limited, a sequence of REST reads between which GitHub moves on.    *)
(***************************************************************************)
EXTENDS DeliveryRules, Sequences, SequencesExt

CONSTANT
    Worlds  \* commands and repositories, with bounds: records of
            \*   kind         "checks", "merge", "tag" or "release"
            \*   expected     the checks named
            \*   origins      what makes check runs: app, workflow and event
            \*   hidden       the apps that the token cannot see
            \*   contexts     the commit statuses there are
            \*   wanted       the release assets named
            \*   stale        a run that has its completion time is not yet "completed"
            \*   maxRuns, maxStatuses   bounds: check runs and statuses that are made

VARIABLES
    world,      \* the command and the kind of repository
    pull,       \* the pull request: its head and state
    runs,       \* the check runs for the expected head, one a suite, oldest first
    listed,     \* the suites whose workflow run is listed already
    statuses,   \* the commit statuses, oldest first
    tag,        \* what the tag names, annotated or not, if it exists
    release,    \* the release: none, draft or published, and its assets
    clock,      \* starts and statuses so far
    pc,         \* the step of the observation
    got,        \* what it read so far
    standing,   \* the named checks that had not passed when it began
    result      \* what the wait returns, or none yet

github == <<world, pull, runs, listed, statuses, tag, release, clock>>
vars == <<github, pc, got, standing, result>>

Kind == world.kind
Expected == world.expected
NoTag == "none"
NoRelease == [exists |-> FALSE, draft |-> FALSE, assets |-> {}]

TypeOK ==
    /\ pull.head \in {"expected", "other"} /\ pull.state \in {"OPEN", "CLOSED", "MERGED"}
    /\ listed \subseteq DOMAIN runs
    /\ pc \in {"start", "runs", "statuses", "workflows", "release", "judge", "done"}
    /\ result \in {"none", "waiting", "satisfied", "changed", "invalidated"}
    /\ (pc = "done") = (result # "none")
    /\ pc = "judge" => DOMAIN got = {"pull", "checks", "target", "release"}

Init ==
    /\ world \in Worlds
    /\ pull = [head |-> "expected", state |-> "OPEN"]
    /\ runs = <<>> /\ listed = {} /\ statuses = <<>> /\ clock = 0
    /\ tag = NoTag /\ release = NoRelease
    /\ pc = "start" /\ got = <<>> /\ standing = {} /\ result = "none"

-----------------------------------------------------------------------------
(* What GitHub shows. *)

\* What a check run counts under: its app and, for Actions, workflow and event.
Source(origin) ==
    IF origin.app = "actions" THEN <<origin.app, origin.workflow, origin.event>>
    ELSE <<origin.app>>
\* GraphQL gives no app for one the token cannot see.
SeenSource(origin) ==
    IF origin.app \notin world.hidden THEN Source(origin)
    ELSE IF origin.app = "actions" THEN <<origin.workflow, origin.event>> ELSE <<>>

RunCheck(i, source) ==
    [name |-> runs[i].name, source |-> source, suite |-> i, at |-> runs[i].at,
     completed |-> runs[i].completed, ended |-> runs[i].ended, concl |-> runs[i].concl]
StatusCheck(i) ==
    [name |-> statuses[i].name, source |-> <<"status">>, suite |-> 0, at |-> statuses[i].at,
     completed |-> TRUE, ended |-> FALSE, concl |-> statuses[i].concl]

\* The statuses that are the latest of their context.
Latest == {i \in DOMAIN statuses :
             \A j \in DOMAIN statuses : statuses[j].name = statuses[i].name => j <= i}

Published == [published |-> release.exists /\ ~release.draft, assets |-> release.assets]
PullView == [head |-> pull.head, state |-> pull.state, merged |-> pull.state = "MERGED"]

\* The GraphQL observation.
Graph ==
    [pull |-> PullView,
     checks |-> {RunCheck(i, SeenSource(runs[i].origin)) : i \in DOMAIN runs}
                \union {StatusCheck(i) : i \in Latest},
     target |-> tag, release |-> Published]

RestMerged == pull.state = "MERGED"
\* The pull request as REST gives it: a merged one is closed there.
RestPull ==
    [head |-> pull.head, merged |-> RestMerged,
     state |-> IF RestMerged THEN "MERGED" ELSE IF pull.state = "OPEN" THEN "OPEN" ELSE "CLOSED"]

\* Check runs as REST gives them: with the app that made them, seen or not, only.
RestRuns == {RunCheck(i, <<runs[i].origin.app>>) : i \in DOMAIN runs}

\* Of the statuses, newest first, the first of each context is kept.
RestStatuses == {StatusCheck(i) : i \in Latest}

\* Mutant: check runs count by their app alone.
Sourced_App(checks) == checks
\* The workflow run of a suite gives its workflow and event.
Sourced(checks) ==
    {IF c.suite \in listed THEN [c EXCEPT !.source = Source(runs[c.suite].origin)] ELSE c :
     c \in checks}

\* An Actions suite whose workflow run is not listed yet makes the reading fail.
AllListed(checks) == \A c \in checks : c.source[1] = "actions" => c.suite \in listed

\* A draft is not found by its tag.
RestRelease == Published

Judged(o) ==
    IF Kind \in {"checks", "merge"} /\ o.pull.head # "expected" THEN "invalidated"
    ELSE CASE Kind = "checks" -> JudgeChecks(Expected, o.checks)
           [] Kind = "merge" -> JudgeMerge(o.pull)
           [] Kind = "tag" -> JudgeTag(o.target, "expected")
           [] Kind = "release" -> JudgeRelease(o.target, o.release, "expected", world.wanted)

-----------------------------------------------------------------------------
(* GitHub moves on. *)

Moves == pc # "done" /\ UNCHANGED <<world, pc, got, standing, result>>

PullMoves ==
    /\ Moves /\ pull.state = "OPEN"
    /\ \/ pull' = [pull EXCEPT !.head = "other"]
       \/ Kind = "merge" /\ \E state \in {"CLOSED", "MERGED"} : pull' = [pull EXCEPT !.state = state]
    /\ UNCHANGED <<runs, listed, statuses, tag, release, clock>>

Reopen ==
    /\ Moves /\ pull.state = "CLOSED" /\ pull' = [pull EXCEPT !.state = "OPEN"]
    /\ UNCHANGED <<runs, listed, statuses, tag, release, clock>>

Create ==
    /\ Moves /\ Len(runs) < world.maxRuns
    /\ \E origin \in world.origins, name \in Expected :
         runs' = Append(runs, [name |-> name, origin |-> origin, at |-> 0, concl |-> "none",
                               completed |-> FALSE, ended |-> FALSE])
    /\ UNCHANGED <<pull, listed, statuses, tag, release, clock>>

List(i) ==
    /\ Moves /\ i \notin listed /\ runs[i].origin.app = "actions" /\ listed' = listed \union {i}
    /\ UNCHANGED <<pull, runs, statuses, tag, release, clock>>

\* Runs start in any order, whichever was created first.
Start(i) ==
    /\ Moves /\ runs[i].at = 0 /\ clock' = clock + 1
    /\ runs' = [runs EXCEPT ![i].at = clock + 1]
    /\ UNCHANGED <<pull, listed, statuses, tag, release>>

\* A run ends.
Finish(i) ==
    /\ Moves /\ runs[i].at > 0 /\ ~runs[i].ended
    /\ \E concl \in {"success", "failure"} :
         runs' = [runs EXCEPT ![i].concl = concl, ![i].ended = TRUE,
                              ![i].completed = ~world.stale]
    /\ UNCHANGED <<pull, listed, statuses, tag, release, clock>>

\* Two statuses may be of one second.
Post ==
    /\ Moves /\ Len(statuses) < world.maxStatuses /\ clock' \in {clock, clock + 1}
    /\ \E name \in world.contexts, concl \in {"pending", "success", "failure"} :
         statuses' = Append(statuses, [name |-> name, concl |-> concl, at |-> clock'])
    /\ UNCHANGED <<pull, runs, listed, tag, release>>

TagMoves ==
    /\ Moves /\ Kind \in {"tag", "release"}
    /\ tag' \in {"expected", "other"}
    /\ UNCHANGED <<pull, runs, listed, statuses, release, clock>>

ReleaseMoves ==
    /\ Moves /\ Kind = "release"
    /\ \/ ~release.exists /\ \E draft \in BOOLEAN :
            release' = [exists |-> TRUE, draft |-> draft, assets |-> {}]
       \/ release.exists /\ release' = [release EXCEPT !.draft = FALSE]
       \/ release.exists /\ \E a \in world.wanted : release' = [release EXCEPT !.assets = @ \union {a}]
    /\ UNCHANGED <<pull, runs, listed, statuses, tag, clock>>

-----------------------------------------------------------------------------
(* pr_snapshot and tag_snapshot *)

\* The checks of a moment, each under its own source.
Whole == {RunCheck(i, Source(runs[i].origin)) : i \in DOMAIN runs}
         \union {StatusCheck(i) : i \in Latest}
\* The named checks that have not passed.
NotPassed(checks) ==
    {c \in Current(checks) : c.name \in Expected /\ (IsTerminal(c) => c.concl \notin Passing)}
\* What tells checks apart: a run its suite, a status which of its context it is.
Contexts_(checks) == {[name |-> c.name, suite |-> c.suite,
                       posted |-> {i \in Latest : c.suite = 0 /\ statuses[i].name = c.name}] :
                      c \in checks}

Go(step) == pc' = step
Begin(checks) ==
    pc = "start" /\ standing' = Contexts_(NotPassed(checks)) /\ UNCHANGED <<github, result>>

Query == Begin(Graph.checks) /\ got' = Graph /\ Go("judge")

\* The first REST read, when the query was rate-limited.
ReadPull ==
    /\ Begin(Whole) /\ Kind \in {"checks", "merge"}
    /\ got' = [Graph EXCEPT !.pull = RestPull, !.checks = {}] /\ Go("runs")

ReadRuns ==
    /\ pc = "runs" /\ got' = [got EXCEPT !.checks = RestRuns] /\ Go("statuses")
    /\ UNCHANGED <<github, standing, result>>

ReadStatuses ==
    /\ pc = "statuses" /\ Go("workflows")
    /\ got' = [got EXCEPT !.checks = @ \union RestStatuses]
    /\ UNCHANGED <<github, standing, result>>

\* A reading that fails is made again from the start.
ReadWorkflows ==
    /\ pc = "workflows"
    /\ IF AllListed(got.checks) THEN got' = [got EXCEPT !.checks = Sourced(@)] /\ Go("judge")
       ELSE got' = <<>> /\ Go("start")
    /\ UNCHANGED <<github, standing, result>>

ReadTag ==
    /\ Begin({}) /\ Kind \in {"tag", "release"}
    /\ got' = Graph /\ Go("release")

ReadRelease ==
    /\ pc = "release" /\ got' = [got EXCEPT !.release = RestRelease] /\ Go("judge")
    /\ UNCHANGED <<github, standing, result>>

\* The wait goes on until it need not.
Judge ==
    /\ pc = "judge"
    /\ IF Judged(got) = "waiting" THEN Go("start") /\ UNCHANGED result
       ELSE Go("done") /\ result' = Judged(got)
    /\ got' = <<>> /\ standing' = {}
    /\ UNCHANGED github

GitHub ==
    \/ PullMoves \/ Reopen \/ Create \/ Post \/ TagMoves \/ ReleaseMoves
    \/ \E i \in DOMAIN runs : List(i) \/ Start(i) \/ Finish(i)
Observe ==
    \/ Query \/ ReadPull \/ ReadRuns \/ ReadStatuses \/ ReadWorkflows
    \/ ReadTag \/ ReadRelease \/ Judge
Next == GitHub \/ Observe

\* The REST observation of a moment, if it does not fail.
Rest ==
    [pull |-> RestPull, checks |-> Sourced(RestRuns \union RestStatuses),
     target |-> tag, release |-> RestRelease]
\* Two apps that GraphQL does not name have each run one check: it gives both the
\* same source.
SharedSource ==
    \E i, j \in DOMAIN runs :
        /\ runs[i].name = runs[j].name /\ runs[i].origin.app # runs[j].origin.app
        /\ {runs[i].origin.app, runs[j].origin.app} \subseteq world.hidden \ {"actions"}
FallbackAgrees == AllListed(RestRuns) /\ ~SharedSource => Judged(Rest) = Judged(Graph)
=============================================================================
