------------------------------ MODULE StackPush ------------------------------
(***************************************************************************)
(* Guarded pushes of a stack's branches (stack_push_guard.py).  A guard     *)
(* holds the admission somebody approved: the push URL, and for each branch *)
(* its source and the remote head expected.  The native command pushes what *)
(* git finds by then, and the guard's pre-push hook lets the push through   *)
(* or refuses all of it.  Meanwhile branches move here and there, the push  *)
(* URL and the guard's own files change, and processes die.                 *)
(***************************************************************************)
EXTENDS FiniteSets, Integers

CONSTANTS
    Guards, \* guard directories, one for each prepare
    Worlds  \* repositories, with bounds: records of
            \*   refs         the branches of the stack
            \*   numbered     those whose name is a number
            \*   heads, local each branch's head at GitHub and in the checkout
            \*   commits      the commits there are
            \*   stack        the branches of the stack's pull requests, bottom first
            \*   guards       bound: guards that are prepared
            \*   moves        bound: steps of others

None == "none"
NoCommit == 0       \* an absent branch; its object ID is all zeros
Origin == "origin"  \* the push URL that is GitHub's

ASSUME PushAssumption ==
    /\ None \notin Guards
    /\ \A w \in Worlds :
        /\ w.guards \in Nat /\ w.moves \in Nat
        /\ w.numbered \subseteq w.refs /\ NoCommit \notin w.commits
        /\ w.heads \in [w.refs -> w.commits \union {NoCommit}]
        /\ w.local \in [w.refs -> w.commits \union {NoCommit}]

VARIABLES
    world,      \* the repository
    moves,      \* steps of others so far
    heads,      \* the head of each branch at each push URL
    local,      \* the head of each branch in the checkout
    url,        \* the push URL of the remote
    admission,  \* each guard's admission
    outer,      \* the guard whose hook it found in place and runs as well
    touched,    \* guards whose record or frozen copy was changed
    command,    \* the branches a guard's command pushes, and whether atomically
    pc,         \* the step of its command
    push,       \* the push under way: its URL and the updates not carried out
    receipts,   \* the updates each guard's hook recorded as accepted
    moved       \* the updates guarded pushes made, each with its guard and URL

repository == <<world, moves, heads, local, url>>
guarding == <<admission, outer, touched, command, pc, push, receipts>>
pushVars == <<repository, guarding, moved>>

Refs == world.refs
Commits == world.commits
Urls == {Origin, "elsewhere"}
Update(ref, source, expected) == [ref |-> ref, source |-> source, expected |-> expected]
Updates == {Update(r, s, e) : r \in Refs, s \in Commits, e \in Commits \union {NoCommit}}
NoAdmission == [url |-> None, rows |-> {}]
NoCommand == [names |-> {}, atomic |-> FALSE]
NoPush == [url |-> None, updates |-> {}]

PushTypeOK ==
    /\ heads \in [Urls -> [Refs -> Commits \union {NoCommit}]]
    /\ local \in [Refs -> Commits \union {NoCommit}]
    /\ url \in Urls /\ touched \subseteq Guards
    /\ \A g \in Guards :
        /\ admission[g].rows \subseteq Updates
        /\ outer[g] \in Guards \union {None} /\ outer[g] # g
        /\ command[g].names \subseteq Refs
        /\ pc[g] \in {"start", "approved", "running", "hook", "checked", "accepted",
                      "sending", "lost", "ended"}
        /\ push[g].updates \subseteq Updates /\ receipts[g] \subseteq SUBSET Updates

PushInit ==
    /\ world \in Worlds /\ moves = 0
    /\ heads = [u \in Urls |-> world.heads] /\ local = world.local /\ url = Origin
    /\ admission = [g \in Guards |-> NoAdmission] /\ outer = [g \in Guards |-> None]
    /\ touched = {} /\ command = [g \in Guards |-> NoCommand]
    /\ pc = [g \in Guards |-> "start"] /\ push = [g \in Guards |-> NoPush]
    /\ receipts = [g \in Guards |-> {}] /\ moved = {}

-----------------------------------------------------------------------------
(* Others. *)

Others == moves < world.moves /\ moves' = moves + 1 /\ UNCHANGED <<world, moved>>

\* A branch is committed to, rebased or reset in the checkout.
Rewrite(r) ==
    /\ Others /\ \E c \in Commits \ {local[r]} : local' = [local EXCEPT ![r] = c]
    /\ UNCHANGED <<heads, url, guarding>>

\* Somebody else pushes to a branch or deletes it.
PushElsewhere(r) ==
    /\ Others
    /\ \E c \in (Commits \union {NoCommit}) \ {heads[Origin][r]} :
         heads' = [heads EXCEPT ![Origin][r] = c]
    /\ UNCHANGED <<local, url, guarding>>

Reconfigure ==
    /\ Others /\ url' \in Urls \ {url} /\ UNCHANGED <<heads, local, guarding>>

Touch(g) ==
    /\ Others /\ pc[g] \in {"running", "hook", "checked", "accepted"} /\ g \notin touched
    /\ touched' = touched \union {g}
    /\ UNCHANGED <<heads, local, url, admission, outer, command, pc, push, receipts>>

-----------------------------------------------------------------------------
(* Preparing a guard and running a command under it. *)

Go(g, step) == pc' = [pc EXCEPT ![g] = step]
Prepared == {g \in Guards : pc[g] # "start"}

\* The admission is written down from what the checkout and the remote show.
\* A branch is never deleted.
Approve(g) ==
    /\ pc[g] = "start" /\ Cardinality(Prepared) < world.guards
    /\ \E names \in SUBSET {r \in Refs : local[r] # NoCommit} \ {{}} :
         admission' = [admission EXCEPT ![g] =
            [url |-> url, rows |-> {Update(r, local[r], heads[url][r]) : r \in names}]]
    /\ Go(g, "approved")
    /\ UNCHANGED <<repository, outer, touched, command, push, receipts, moved>>

Admitted(g) == {row.ref : row \in admission[g].rows}

\* push and submit push every branch of the stack, each on its own; link pushes
\* the admitted branches it is given, and what a number happens to name.
Commands(g) ==
    {[names |-> Refs, atomic |-> FALSE]}
    \union {[names |-> names \union numbers, atomic |-> TRUE] :
              names \in SUBSET Admitted(g), numbers \in SUBSET world.numbered}

\* run validates the command and prepares the guard, or refuses.  The hook found
\* in place is kept: that of no guard, or of one prepared before.
Run(g) ==
    /\ pc[g] = "approved"
    /\ \/ /\ url = admission[g].url
          /\ outer' \in {[outer EXCEPT ![g] = o] :
                o \in {None} \union {o \in Prepared \ {g} : pc[o] = "running" /\ outer[o] = None}}
          /\ command' \in {[command EXCEPT ![g] = c] : c \in Commands(g)}
          /\ Go(g, "running")
       \/ Go(g, "ended") /\ UNCHANGED <<outer, command>>
    /\ UNCHANGED <<repository, admission, touched, push, receipts, moved>>

\* git push compares the checkout's branches with the heads the remote shows.
\* Its lease, on a tracking ref just fetched or not, or the need of a
\* fast-forward rejects some updates; atomically, any rejects the push.
Queue(g) ==
    /\ pc[g] = "running"
    /\ LET names == {r \in command[g].names : local[r] \notin {NoCommit, heads[url][r]}}
           all == {Update(r, local[r], heads[url][r]) : r \in names}
       IN  \E updates \in (IF command[g].atomic THEN {all} ELSE SUBSET all) \ {{}} :
             push' = [push EXCEPT ![g] = [url |-> url, updates |-> updates]]
    /\ Go(g, "hook")
    /\ UNCHANGED <<repository, admission, outer, touched, command, receipts, moved>>

-----------------------------------------------------------------------------
(* The pre-push hook. *)

\* Mutant: the remote head is left to the lease.
ValidUpdates_NoExpected(g, p) ==
    /\ p.url = admission[g].url
    /\ \A u \in p.updates : \E row \in admission[g].rows : row.ref = u.ref /\ row.source = u.source
ValidUpdates(g, p) == p.url = admission[g].url /\ p.updates \subseteq admission[g].rows

Refuse(g) ==
    /\ Go(g, "running") /\ push' = [push EXCEPT ![g] = NoPush] /\ UNCHANGED receipts

\* What is recorded is on disk before the hook returns.
Record(g, p) == receipts' = [receipts EXCEPT ![g] = @ \union {p.updates}]

\* Its record and frozen copy are as they were prepared.
Intact(g) == g \notin touched

\* The updates are admitted, all of them.
Check(g) ==
    /\ pc[g] = "hook"
    /\ IF Intact(g) /\ ValidUpdates(g, push[g])
       THEN Go(g, "checked") /\ UNCHANGED <<push, receipts>> ELSE Refuse(g)
    /\ UNCHANGED <<repository, admission, outer, touched, command, moved>>

\* The hook found in place has its say: a guard judges and records as this one.
Agrees(g) == outer[g] \in Guards => Intact(outer[g]) /\ ValidUpdates(outer[g], push[g])

\* Any other may refuse, and so does the guard when its environment was changed.
OriginalHook(g) ==
    /\ pc[g] = "checked"
    /\ \/ /\ Agrees(g) /\ Go(g, "accepted") /\ UNCHANGED push
          /\ IF outer[g] \in Guards THEN Record(outer[g], push[g]) ELSE UNCHANGED receipts
       \/ Refuse(g)
    /\ UNCHANGED <<repository, admission, outer, touched, command, moved>>

Accept(g) ==
    /\ pc[g] = "accepted" /\ Record(g, push[g]) /\ Go(g, "sending")
    /\ UNCHANGED <<repository, admission, outer, touched, command, push, moved>>

-----------------------------------------------------------------------------
(* The remote takes the updates, each if the head is still as it was shown. *)

InTime(g, u) == heads[push[g].url][u.ref] = u.expected

Made(g, updates) ==
    /\ heads' = [heads EXCEPT ![push[g].url] =
         [r \in Refs |-> IF \E u \in updates : u.ref = r
                         THEN (CHOOSE u \in updates : u.ref = r).source ELSE @[r]]]
    /\ moved' = moved \union {[by |-> g, url |-> push[g].url, update |-> u] : u \in updates}
    /\ push' = [push EXCEPT ![g].updates = @ \ updates]

Rejected(g, updates) ==
    push' = [push EXCEPT ![g].updates = @ \ updates] /\ UNCHANGED <<heads, moved>>

\* Those of a command that died may still arrive.
Receive(g) ==
    /\ pc[g] \in {"sending", "lost"} /\ push[g].updates # {}
    /\ \E updates \in IF command[g].atomic THEN {push[g].updates}
                      ELSE {{u} : u \in push[g].updates} :
         IF \A u \in updates : InTime(g, u) THEN Made(g, updates) ELSE Rejected(g, updates)
    /\ UNCHANGED <<world, moves, local, url, admission, outer, touched, command, pc, receipts>>

\* A command may push again.
Pushed(g) ==
    /\ pc[g] = "sending" /\ push[g].updates = {} /\ Go(g, "running")
    /\ push' = [push EXCEPT ![g] = NoPush]
    /\ UNCHANGED <<repository, admission, outer, touched, command, receipts, moved>>

\* The command ends, or it, git or the hook is killed.
End(g) ==
    /\ pc[g] \in {"running", "hook", "checked", "accepted", "sending"}
    /\ Go(g, IF pc[g] = "sending" THEN "lost" ELSE "ended")
    /\ UNCHANGED <<repository, admission, outer, touched, command, push, receipts, moved>>

Publish ==
    \E g \in Guards :
        \/ Approve(g) \/ Run(g) \/ Queue(g) \/ Check(g) \/ OriginalHook(g) \/ Accept(g)
        \/ Receive(g) \/ Pushed(g) \/ End(g)
Elsewhere ==
    Reconfigure \/ (\E g \in Guards : Touch(g)) \/ \E r \in Refs : Rewrite(r) \/ PushElsewhere(r)

-----------------------------------------------------------------------------
(* Properties. *)

\* Whatever moved meanwhile, a guarded push moves a branch only from the head
\* that was admitted to the commit that was admitted, at the URL admitted, by
\* every guard in force, and never without a receipt on disk that says so.
OnlyAdmitted ==
    \A m \in moved : \A h \in {m.by, outer[m.by]} \ {None} :
        /\ m.url = admission[h].url /\ m.update \in admission[h].rows
        /\ \E accepted \in receipts[h] : m.update \in accepted
=============================================================================
