---------------------------- MODULE WorkflowWait ----------------------------
(***************************************************************************)
(* wait checks-terminal --all-workflows of delivery_wait.py: a census of the*)
(* workflow runs for a head, read page by page and run by run while GitHub  *)
(* Actions starts runs, adds jobs, finishes and re-runs them; it is judged  *)
(* by WorkflowCensusGate until the result is not to wait.                   *)
(***************************************************************************)
EXTENDS DeliveryRules, Sequences, SequencesExt

CONSTANT
    Worlds  \* repositories and commands, with bounds: records of
            \*   confirm      the command is wait, not inspect
            \*   conclusions  how a job may end
            \*   maxRuns, maxJobs, maxReruns   bounds of what GitHub Actions does
            \*   maxTrouble   bound: transport failures

VARIABLES
    world,      \* the kind of repository and command
    head,       \* the head of the pull request: the expected one or another
    runs,       \* the workflow runs for the expected head, oldest first
    reruns,     \* re-runs so far
    trouble,    \* transport failures so far
    pc,         \* the step of the census
    pages,      \* the pages of runs read so far, with the total each states
    census,     \* the runs listed, each with the jobs read for it
    previous,   \* WorkflowCensusGate.previous
    result,     \* what the wait returns, or none yet
    green,      \* all runs and jobs had passed when the last census began
    bad         \* the runs, with their attempts, that had failed or a job in them

github == <<world, head, runs, reruns>>
reader == <<pc, pages, census, previous, result>>
history == <<green, bad>>
vars == <<github, reader, trouble, history>>

NoCensus == {}
Expected == "expected"

Job(n) == [id |-> n, completed |-> FALSE, concl |-> "none"]
NewRun(id, attempt) ==
    [id |-> id, attempt |-> attempt, completed |-> FALSE, concl |-> "none", jobs |-> {Job(1)}]

RunsFailed ==
    {<<r.id, r.attempt>> : r \in {r \in ToSet(runs) : Failures({r}) # {}}}
AllGreen == Complete(ToSet(runs)) /\ Failures(ToSet(runs)) = {}

TypeOK ==
    /\ head \in {Expected, "other"} /\ Len(runs) <= world.maxRuns
    /\ pc \in {"start", "pages", "jobs", "judge", "done"}
    /\ result \in {"none", "satisfied", "changed", "invalidated", "waiting"}
    /\ (result = "none") = (pc # "done")
    /\ {r.id : r \in census} \subseteq 1 .. Len(runs)
    /\ pc = "judge" => Cardinality(census) = pages[1].total

Init ==
    /\ world \in Worlds
    /\ head = Expected /\ runs = <<>> /\ reruns = 0 /\ trouble = 0
    /\ pc = "start" /\ pages = <<>> /\ census = NoCensus /\ previous = NoCensus
    /\ result = "none" /\ green = FALSE /\ bad = {}

-----------------------------------------------------------------------------
(* The pull request and GitHub Actions. *)

Acts == pc # "done" /\ UNCHANGED <<world, reader, trouble, history>>

Push == Acts /\ head = Expected /\ head' = "other" /\ UNCHANGED <<runs, reruns>>

StartRun ==
    /\ Acts /\ Len(runs) < world.maxRuns
    /\ runs' = Append(runs, NewRun(Len(runs) + 1, 1))
    /\ UNCHANGED <<head, reruns>>

\* A later stage of a run adds a job while the run is in progress.
AddJob(i) ==
    /\ Acts /\ ~runs[i].completed /\ Cardinality(runs[i].jobs) < world.maxJobs
    /\ runs' = [runs EXCEPT ![i].jobs = @ \union {Job(Cardinality(@) + 1)}]
    /\ UNCHANGED <<head, reruns>>

EndJob(i) ==
    /\ Acts
    /\ \E j \in runs[i].jobs, concl \in world.conclusions :
         /\ ~j.completed
         /\ runs' = [runs EXCEPT ![i].jobs =
                (@ \ {j}) \union {[j EXCEPT !.completed = TRUE, !.concl = concl]}]
    /\ UNCHANGED <<head, reruns>>

\* A run ends when its jobs have; one whose job may fail can still succeed.
EndRun(i) ==
    /\ Acts /\ ~runs[i].completed /\ \A j \in runs[i].jobs : j.completed
    /\ \E concl \in {"success", "failure"} :
         /\ concl = "failure" => \E j \in runs[i].jobs : j.concl = "failure"
         /\ runs' = [runs EXCEPT ![i].completed = TRUE, ![i].concl = concl]
    /\ UNCHANGED <<head, reruns>>

Rerun(i) ==
    /\ Acts /\ runs[i].completed /\ reruns < world.maxReruns
    /\ runs' = [runs EXCEPT ![i] = NewRun(i, @.attempt + 1)]
    /\ reruns' = reruns + 1 /\ UNCHANGED head

-----------------------------------------------------------------------------
(* workflow_census *)

Finish(r) == pc' = "done" /\ result' = r

\* A census begins with the head; another head ends the wait.
ReadHead ==
    /\ pc = "start"
    /\ IF head = Expected THEN pc' = "pages" /\ UNCHANGED <<result, previous>>
       ELSE Finish("invalidated") /\ previous' = NoCensus
    /\ green' = AllGreen /\ bad' = RunsFailed
    /\ UNCHANGED <<github, pages, census, trouble>>

\* The list is served newest first, a run a page; a page names the next one as
\* long as there is one.
ReadPage ==
    /\ pc = "pages"
    /\ LET n == Len(pages) + 1
           item == IF n <= Len(runs) THEN {Reverse(runs)[n]} ELSE {}
       IN  pages' = Append(pages, [total |-> Len(runs), items |-> item])
    /\ pc' = IF Len(pages') < Len(runs) THEN "pages" ELSE "jobs"
    /\ UNCHANGED <<github, trouble, census, previous, result, history>>

Listing(r) == [r EXCEPT !.jobs = {}]
Listed == UNION {page.items : page \in ToSet(pages)}
\* rest_census: every page states one total, no run is on two pages and none
\* is missing.
Consistent ==
    /\ \A p, q \in ToSet(pages) : p.total = q.total
    /\ Cardinality({r.id : r \in Listed}) = Len(SelectSeq(pages, LAMBDA p : p.items # {}))
    /\ Cardinality(Listed) = pages[1].total

Retry == pc' = "start" /\ pages' = <<>> /\ census' = NoCensus

\* The jobs of the runs listed are read one run after the other, of the latest
\* attempt by then; a list that raced makes the census fail.
ReadJobs ==
    /\ pc = "jobs"
    /\ IF ~Consistent
       THEN Retry /\ UNCHANGED trouble
       ELSE LET next == {r \in Listed : \A c \in census : Listing(c) # Listing(r)}
            IN  IF next = {} THEN pc' = "judge" /\ UNCHANGED <<pages, census, trouble>>
                ELSE LET r == CHOOSE r \in next : \A o \in next : r.id <= o.id
                     IN  /\ census' = census \union {[r EXCEPT !.jobs = runs[r.id].jobs]}
                         /\ UNCHANGED <<pc, pages, trouble>>
    /\ UNCHANGED <<github, previous, result, history>>

\* A request fails in transport: the census is dropped, the gate kept.
Trouble ==
    /\ pc \in {"pages", "jobs"} /\ Retry
    /\ trouble < world.maxTrouble /\ trouble' = trouble + 1
    /\ UNCHANGED <<github, previous, result, history>>

-----------------------------------------------------------------------------
(* WorkflowCensusGate *)

\* Mutants: one complete census is enough; two censuses are never the same.
Confirmed_Never == FALSE
Confirmed_Once == TRUE
Confirmed == census = previous

\* Mutant: only the runs are looked at, not their jobs.
Failed_RunsOnly == \E r \in census : Ended(r) /\ r.concl \notin Passing
Failed == Failures(census) # {}

Judge ==
    /\ pc = "judge"
    /\ IF Failed THEN Finish("changed") /\ previous' = NoCensus
       ELSE IF ~Complete(census)
       THEN /\ previous' = NoCensus
            /\ IF world.confirm THEN pc' = "start" /\ UNCHANGED result ELSE Finish("waiting")
       ELSE IF ~world.confirm THEN Finish("waiting") /\ UNCHANGED previous
       ELSE /\ previous' = census
            /\ IF Confirmed THEN Finish("satisfied") ELSE pc' = "start" /\ UNCHANGED result
    /\ pages' = <<>> /\ census' = NoCensus
    /\ UNCHANGED <<github, trouble, history>>

Read == ReadHead \/ ReadPage \/ ReadJobs \/ Judge
Actions == \E i \in DOMAIN runs : AddJob(i) \/ EndJob(i) \/ EndRun(i) \/ Rerun(i)
Next == Push \/ StartRun \/ Actions \/ Read \/ Trouble
=============================================================================
