--------------------------- MODULE DeliveryCommands ---------------------------
(***************************************************************************)
(* delivery_wait.py: its main chooses, by the kind of wait and by           *)
(* --all-workflows, between the workflow census with its gate and an        *)
(* observation of named checks, a merge, a tag or a release.                *)
(***************************************************************************)
EXTENDS Naturals, Sequences

CONSTANTS
    CensusWorlds,   \* the commands with --all-workflows, see WorkflowWait
    SnapshotWorlds  \* the others, see DeliveryWait

VARIABLES
    world, runs, pc, result,                            \* of both
    head, reruns, trouble, pages, census, previous, green, bad,         \* WorkflowWait
    pull, listed, statuses, tag, release, clock, got, standing          \* DeliveryWait

Workflows == INSTANCE WorkflowWait WITH Worlds <- CensusWorlds
Snapshots == INSTANCE DeliveryWait WITH Worlds <- SnapshotWorlds

censusVars == <<head, reruns, trouble, pages, census, previous, green, bad>>
snapshotVars == <<pull, listed, statuses, tag, release, clock, got, standing>>
vars == <<world, runs, pc, result, censusVars, snapshotVars>>

ASSUME CommandAssumption ==
    /\ \A w \in CensusWorlds :
         /\ {w.maxRuns, w.maxJobs, w.maxReruns, w.maxTrouble} \subseteq Nat
         /\ w.conclusions \subseteq {"success", "failure"} /\ w.confirm \in BOOLEAN
    /\ \A w \in SnapshotWorlds :
         /\ w.kind \in {"checks", "merge", "tag", "release"}
         /\ {w.maxRuns, w.maxStatuses} \subseteq Nat /\ w.stale \in BOOLEAN
         /\ "status" \notin w.hidden     \* what commit statuses count under
    /\ CensusWorlds \intersect SnapshotWorlds = {}

AllWorkflows == world \in CensusWorlds

None == "none"
NoCensus ==
    /\ head = None /\ reruns = None /\ trouble = None /\ pages = None
    /\ census = None /\ previous = None /\ green = None /\ bad = None
NoSnapshot ==
    /\ pull = None /\ listed = None /\ statuses = None /\ tag = None
    /\ release = None /\ clock = None /\ got = None /\ standing = None

Init == (Workflows!Init /\ NoSnapshot) \/ (Snapshots!Init /\ NoCensus)
Next ==
    \/ AllWorkflows /\ Workflows!Next /\ UNCHANGED snapshotVars
    \/ ~AllWorkflows /\ Snapshots!Next /\ UNCHANGED censusVars

\* A census wait polls on; jobs end and so do their runs.
Fairness ==
    /\ WF_vars(AllWorkflows /\ Workflows!Read /\ UNCHANGED snapshotVars)
    /\ \A i \in UNION {1 .. w.maxRuns : w \in CensusWorlds} :
         /\ WF_vars(AllWorkflows /\ i \in DOMAIN runs /\ Workflows!EndJob(i) /\ UNCHANGED snapshotVars)
         /\ WF_vars(AllWorkflows /\ i \in DOMAIN runs /\ Workflows!EndRun(i) /\ UNCHANGED snapshotVars)
Spec == Init /\ [][Next]_vars /\ Fairness

-----------------------------------------------------------------------------
(* Properties. *)

\* "satisfied" says that at one moment, when the last census began, every run
\* for the head and every job of it had ended and passed: nothing was running,
\* re-run, or yet to be listed then.
GreenTogether == AllWorkflows /\ result = "satisfied" => green

\* A failure is reported at once: a census that began after a run or one of its
\* jobs had failed, and while it was not re-run, ends the wait with "changed".
FailFast ==
    [][AllWorkflows /\ pc = "judge" /\ pc' # "judge" /\ result' # "changed" =>
         bad \intersect Workflows!RunsFailed = {}]_vars

\* A census wait ends once a run has appeared, GitHub Actions has done its work
\* and the transport holds.
WaitEnds == (AllWorkflows /\ Len(runs) > 0) ~> pc = "done"

\* The REST fallback preserves the fact: whenever it does not fail it judges what
\* GitHub shows as the query does.  Not covered are two apps, neither of which the
\* token can see, that both run one check: GraphQL counts them as one source.
FallbackAgrees == ~AllWorkflows => Snapshots!FallbackAgrees

\* A named check that had not passed when the observation began, and still has
\* not and was replaced by nothing newer of its source, is never looked over, on
\* either path; where GraphQL names no app its source is what GraphQL makes it.
NothingOverlooked ==
    [][~AllWorkflows /\ result' = "satisfied" /\ result # "satisfied" /\ world.kind = "checks" =>
         standing \intersect Snapshots!Contexts_(Snapshots!NotPassed(Snapshots!Whole)) = {}]_vars
=============================================================================
