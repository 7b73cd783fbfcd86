---------------------------- MODULE MCCodeRabbit ----------------------------
(* Small instances of CodeRabbitRun: one initial state for each kind of world.*)
EXTENDS CodeRabbitRun, TLC

CONSTANTS r1, r2

World == [runs |-> {r1}, deadline |-> 6, interval |-> 1, lag |-> 0, waits |-> {1},
          shared |-> FALSE, steps |-> {}, maxTime |-> 6,
          maxStatuses |-> 2, maxEdits |-> 2, maxTriggers |-> 0]
With(fields) == fields @@ World
Cycle == With([steps |-> {"ready", "earlier", "person"}, lag |-> 1, maxEdits |-> 3, maxTriggers |-> 1])
Passes == With([maxStatuses |-> 4, maxEdits |-> 4])
Refusal == With([steps |-> {"refuse", "faults"}, lag |-> 1, waits |-> {1, 2}])
SharedHead == With([shared |-> TRUE, deadline |-> 5, maxTime |-> 5, maxStatuses |-> 4, maxEdits |-> 4])
Pushes == With([steps |-> {"push", "close"}, interval |-> 2, deadline |-> 5, maxTime |-> 5])
Skips == With([steps |-> {"skip", "ready"}, maxStatuses |-> 2])
TwoRuns == With([runs |-> {r1, r2}, steps |-> {"crash", "faults"}, deadline |-> 5, maxTime |-> 5,
                 maxStatuses |-> 1, maxEdits |-> 1])
AllWorlds == {Cycle, Passes, Refusal, SharedHead, Pushes, Skips, TwoRuns}
=============================================================================
