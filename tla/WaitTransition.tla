--------------------------- MODULE WaitTransition ---------------------------
(***************************************************************************)
(* wait_for_transition of kgr_github.py: a command that watches GitHub until*)
(* something that matters to its caller has changed or is decided, or until *)
(* its deadline.  What it saw is kept in a state file between invocations,  *)
(* which the caller repeats after every result; StateLock keeps them apart. *)
(***************************************************************************)
EXTENDS Naturals

CONSTANTS
    Values,         \* what an observation of GitHub may show
    Class,          \* classify: waiting, satisfied, changed or invalidated
    Key,            \* transition_key: what of it matters to the caller
    Kept,           \* what the state file may be at first
    Changes,        \* bound: changes on GitHub
    Crashes         \* bound: invocations that are killed

NoKey == "no key"
NoValue == "no value"
NoFile == [mine |-> TRUE, digest |-> NoKey]

Saved(digest) == [mine |-> TRUE, digest |-> digest]

ASSUME WaitAssumption ==
    /\ Class \in [Values -> {"waiting", "satisfied", "changed", "invalidated"}]
    /\ DOMAIN Key = Values /\ NoValue \notin Values
    /\ \A f \in Kept : f.mine => f = NoFile
    /\ {Changes, Crashes} \subseteq Nat

VARIABLES
    changeFirst,    \* change_precedes_terminal of the command
    github,         \* what GitHub shows now
    file,           \* the state file: whether of this wait, and its digest
    stage,          \* the invocation's step
    prior,          \* the digest it compares with
    observation,    \* what it observed last
    due,            \* its deadline has passed
    stopped,        \* it got SIGINT or SIGTERM
    status,         \* what it returns
    told,           \* the key the caller was last told, or from which it waits
    missed,         \* in this invocation something was observed that ends a wait
    changes, crashes

waitVars == <<changeFirst, github, file, stage, prior, observation, due, stopped, status,
              told, missed, changes, crashes>>
counters == <<changes, crashes>>
run == <<changeFirst, prior, observation, due, stopped, status, missed>>

Keys == {Key[v] : v \in Values}
Ended == {"satisfied", "changed", "invalidated", "timed-out", "cancelled"}

TypeOK ==
    /\ github \in Values /\ observation \in Values \union {NoValue}
    /\ stage \in {"idle", "poll", "seen", "saved", "sleep", "return"}
    /\ (stage \in {"seen", "saved"} => observation \in Values)
    /\ file \in Kept \union {Saved(k) : k \in Keys \union {NoKey}}
    /\ prior \in Keys \union {NoKey} /\ told \in Keys \union {NoKey}
    /\ status \in Ended \union {"none"} /\ (stage = "return" => status # "none")
    /\ changeFirst \in BOOLEAN /\ due \in BOOLEAN /\ stopped \in BOOLEAN /\ missed \in BOOLEAN
    /\ changes \in 0 .. Changes /\ crashes \in 0 .. Crashes

WaitInit ==
    /\ changeFirst \in BOOLEAN /\ github \in Values /\ file \in Kept /\ stage = "idle"
    /\ prior = NoKey /\ observation = NoValue /\ due = FALSE /\ stopped = FALSE
    /\ status = "none" /\ told = NoKey /\ missed = FALSE
    /\ changes = 0 /\ crashes = 0

Return(r) == stage' = "return" /\ status' = r

\* load_state: a file of another wait ends the invocation.
Call ==
    /\ stage = "idle"
    /\ prior' = IF file.mine THEN file.digest ELSE NoKey
    /\ observation' = NoValue /\ due' = FALSE /\ stopped' = FALSE /\ missed' = FALSE
    /\ IF file.mine THEN stage' = "poll" /\ status' = "none" ELSE Return("invalidated")
    /\ UNCHANGED <<changeFirst, github, file, told, counters>>

\* Mutant: the digest is dropped when an invocation ends without a new one.
Carried_Not(digest) == NoKey
Carried(digest) == digest

Cancel ==
    /\ stage = "poll" /\ stopped
    /\ file' = Saved(Carried(prior)) /\ Return("cancelled")
    /\ UNCHANGED <<changeFirst, github, prior, observation, due, stopped, told, missed, counters>>

\* What ends a wait from the key k: anything decided, or another key.
Matters(v, k) == Class[v] # "waiting" \/ k \notin {NoKey, Key[v]}

Observe ==
    /\ stage = "poll" /\ ~stopped
    /\ observation' = github /\ stage' = "seen" /\ missed' = (missed \/ Matters(github, prior))
    /\ UNCHANGED <<changeFirst, github, file, prior, due, stopped, status, told, counters>>

Expired == due

\* Rate-limited or a transport failure: tried again until the deadline.
Unreachable ==
    /\ stage = "poll" /\ ~stopped
    /\ file' = Saved(Carried(prior))
    /\ IF Expired THEN Return("timed-out") ELSE stage' = "sleep" /\ UNCHANGED status
    /\ UNCHANGED <<changeFirst, github, prior, observation, due, stopped, told, missed, counters>>

\* Any other failure is reported and leaves the file alone.
Fail ==
    /\ stage = "poll" /\ ~stopped
    /\ stage' = "idle"
    /\ UNCHANGED <<github, file, run, told, counters>>

\* The checkpoint is written before it is judged.
Save ==
    /\ stage = "seen" /\ file' = Saved(Key[observation]) /\ stage' = "saved"
    /\ told' = IF told = NoKey THEN Key[observation] ELSE told
    /\ UNCHANGED <<github, run, counters>>

Changed == prior # NoKey /\ prior # Key[observation]

\* Mutant: the deadline is looked at before what was observed.
Verdict_DeadlineFirst ==
    IF due THEN "timed-out"
    ELSE IF Class[observation] # "waiting" THEN Class[observation]
    ELSE IF Changed THEN "changed" ELSE "none"
\* What the observation means for the caller, "none" when the wait goes on.
Verdict ==
    IF changeFirst /\ Changed THEN "changed"
    ELSE IF Class[observation] # "waiting" THEN Class[observation]
    ELSE IF Changed THEN "changed"
    ELSE IF due THEN "timed-out" ELSE "none"

Judge ==
    /\ stage = "saved"
    /\ IF Verdict # "none" THEN Return(Verdict) /\ UNCHANGED prior
       ELSE stage' = "sleep" /\ prior' = Key[observation] /\ UNCHANGED status
    /\ UNCHANGED <<changeFirst, github, file, observation, due, stopped, told, missed, counters>>

Sleep ==
    /\ stage = "sleep" /\ stage' = "poll"
    /\ UNCHANGED <<github, file, run, told, counters>>

\* The result reaches the caller.
Emit ==
    /\ stage = "return" /\ stage' = "idle"
    /\ told' = IF status \in {"timed-out", "cancelled"} \/ observation = NoValue
               THEN told ELSE Key[observation]
    /\ UNCHANGED <<github, file, run, counters>>

Deadline ==
    /\ stage # "idle" /\ ~due /\ due' = TRUE
    /\ UNCHANGED <<changeFirst, github, file, stage, prior, observation, stopped, status, told,
                   missed, counters>>

Interrupt ==
    /\ stage \notin {"idle", "return"} /\ ~stopped /\ stopped' = TRUE
    /\ UNCHANGED <<changeFirst, github, file, stage, prior, observation, due, status, told,
                   missed, counters>>

\* SIGKILL, or the host goes down.
Crash ==
    /\ stage # "idle" /\ crashes < Crashes
    /\ crashes' = crashes + 1 /\ stage' = "idle"
    /\ UNCHANGED <<github, file, run, told, changes>>

Change ==
    /\ changes < Changes /\ changes' = changes + 1
    /\ \E v \in Values \ {github} : github' = v
    /\ UNCHANGED <<file, stage, run, told, crashes>>

Step ==
    \/ Cancel \/ Observe \/ Unreachable \/ Fail \/ Save \/ Judge \/ Sleep \/ Emit

WaitNext == Call \/ Step \/ Deadline \/ Interrupt \/ Crash \/ Change

\* An invocation runs and time passes; the caller repeats the wait.  GitHub need
\* not answer.
WaitFairness == WF_waitVars(Step) /\ WF_waitVars(Deadline) /\ WF_waitVars(Call)
WaitSpec == WaitInit /\ [][WaitNext]_waitVars /\ WaitFairness

-----------------------------------------------------------------------------
(* Properties. *)

\* The state file never runs ahead of the caller: unless an invocation was
\* killed, its digest is, between invocations, the one the caller was told, so
\* that the next invocation compares with what the caller knows.
NothingSwallowed ==
    stage = "idle" /\ file.mine /\ file.digest # NoKey /\ crashes = 0 => file.digest = told

\* A wait that reports its deadline saw nothing decided and no change, in its
\* last observation or in any before.
TimedOutSawNothing == stage = "return" /\ status = "timed-out" => ~missed

\* While GitHub answers now and then, a caller that repeats the wait without
\* killing it is told in the end of what GitHub has come to.
ChangeTold == SF_waitVars(Observe) => <>[](crashes = 0 /\ file.mine => told = Key[github])
=============================================================================
