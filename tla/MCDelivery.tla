----------------------------- MODULE MCDelivery -----------------------------
(* Small instances of DeliveryCommands, one initial state each.  With         *)
(* --all-workflows: two runs that pass or fail and are re-run, three that race*)
(* the pages, one with two jobs, and one census without confirmation.  The    *)
(* others: a workflow that runs on push and on pull requests, another app     *)
(* beside statuses, three statuses of a context, apps of which GraphQL names  *)
(* one or none, a merge, a tag and a release with two assets.                 *)
EXTENDS DeliveryCommands

Reruns == [maxRuns |-> 2, maxJobs |-> 1, maxReruns |-> 1, maxTrouble |-> 0,
           conclusions |-> {"success", "failure"}, confirm |-> TRUE]
Paging == [Reruns EXCEPT !.maxRuns = 3, !.maxReruns = 0, !.maxTrouble = 1, !.conclusions = {"success"}]
TwoJobs == [Reruns EXCEPT !.maxRuns = 1, !.maxJobs = 2, !.maxTrouble = 1]
Inspect == [Reruns EXCEPT !.maxReruns = 0, !.confirm = FALSE]
AllCensusWorlds == {Reruns, Paging, TwoJobs, Inspect}

Push == [app |-> "actions", workflow |-> "w", event |-> "push"]
PullRequest == [Push EXCEPT !.event = "pull_request"]
App == [app |-> "vercel", workflow |-> "none", event |-> "none"]

Bot == [App EXCEPT !.app = "bot"]

World == [kind |-> "checks", expected |-> {"ci"}, origins |-> {}, hidden |-> {}, contexts |-> {},
          wanted |-> {}, stale |-> FALSE, maxRuns |-> 0, maxStatuses |-> 0]
Checks == [World EXCEPT !.origins = {Push, PullRequest}, !.maxRuns = 2, !.stale = TRUE]
Statuses == [World EXCEPT !.expected = {"ci", "lint"}, !.origins = {App},
                          !.contexts = {"lint"}, !.maxRuns = 1, !.maxStatuses = 2]
SameSecond == [World EXCEPT !.expected = {"lint"}, !.contexts = {"lint"}, !.maxStatuses = 3]
OneHidden == [World EXCEPT !.origins = {App, Bot}, !.hidden = {"bot"}, !.maxRuns = 2]
AllHidden == [OneHidden EXCEPT !.origins = {App, Bot, Push}, !.hidden = {"actions", "bot", "vercel"}]
Merge == [World EXCEPT !.kind = "merge", !.contexts = {"ci"}, !.maxStatuses = 1]
Tag == [World EXCEPT !.kind = "tag"]
Release == [World EXCEPT !.kind = "release", !.wanted = {"a", "b"}]
AllSnapshotWorlds == {Checks, Statuses, SameSecond, OneHidden, AllHidden, Merge, Tag, Release}
=============================================================================
