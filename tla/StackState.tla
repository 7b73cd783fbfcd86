----------------------------- MODULE StackState -----------------------------
(***************************************************************************)
(* stack_state.py reads a native stack while guarded pushes and others move *)
(* its branches, its members and its base: four requests make a snapshot,   *)
(* which is kept, and later ones are compared with it.                      *)
(***************************************************************************)
EXTENDS StackPush, StackRules

VARIABLES
    members,    \* the stack's pull requests, bottom first
    open,       \* the stack is open
    base,       \* the head of its base branch, which only advances
    step,       \* the request that is next
    got,        \* the stack and the base read first
    kept,       \* the snapshot the caller kept, if any
    verdict,    \* what its comparison said, if it was made
    was, is     \* what GitHub showed when kept was read, and when the last one was

stack == <<members, open, base>>
reading == <<step, got, kept, verdict, was, is>>
allVars == <<pushVars, stack, reading>>

\* A pull request of a branch stands once in a stack; parse_stack accepts no other.
ASSUME StackAssumption ==
    \A w \in Worlds :
        /\ w.stack \in Seq(w.refs)
        /\ \A i, j \in DOMAIN w.stack : w.stack[i] = w.stack[j] => i = j

NoSnapshot == [members |-> <<>>]
NoVerdict == [at |-> Holds, appended |-> FALSE, state |-> None]

\* The stack as one request shows it; a pull request has its branch's head.
StackShown ==
    [identity |-> open,
     members |-> [i \in DOMAIN members |->
        [pr |-> members[i].ref, head |-> heads[Origin][members[i].ref], state |-> members[i].state]]]
WithBase(s, sha) == [identity |-> s.identity, members |-> s.members, base |-> sha]
Shown == WithBase(StackShown, base)

StackTypeOK ==
    /\ PushTypeOK /\ open \in BOOLEAN /\ base \in Nat
    /\ \A i \in DOMAIN members : members[i].ref \in Refs /\ members[i].state \in {"open", "merged"}
    /\ step \in {"stack", "base", "stack again", "base again"}
    /\ verdict.state \in {None, "satisfied", "invalidated", "changed"}

StackInit ==
    /\ PushInit
    /\ members = [i \in DOMAIN world.stack |-> [ref |-> world.stack[i], state |-> "open"]]
    /\ open = TRUE /\ base = 0
    /\ step = "stack" /\ got = NoSnapshot /\ kept = NoSnapshot /\ verdict = NoVerdict
    /\ was = NoSnapshot /\ is = NoSnapshot

-----------------------------------------------------------------------------
(* The stack changes. *)

Stacks == members # <<>> /\ Others /\ UNCHANGED <<heads, local, url, guarding, reading>>

\* A pull request is opened on top, or stacked anywhere when others move up.
Insert(r) ==
    /\ Stacks /\ heads[Origin][r] # NoCommit /\ \A m \in ToSet(members) : m.ref # r
    /\ \E i \in 1 .. Len(members) + 1 : members' = InsertAt(members, i, [ref |-> r, state |-> "open"])
    /\ UNCHANGED <<open, base>>

Drop ==
    /\ Stacks /\ \E i \in DOMAIN members : members' = RemoveAt(members, i)
    /\ UNCHANGED <<open, base>>

Merge ==
    /\ Stacks
    /\ \E i \in DOMAIN members :
         members[i].state = "open" /\ members' = [members EXCEPT ![i].state = "merged"]
    /\ UNCHANGED <<open, base>>

Close == Stacks /\ open' = ~open /\ UNCHANGED <<members, base>>

Advance == Stacks /\ base' = base + 1 /\ UNCHANGED <<members, open>>

-----------------------------------------------------------------------------
(* stack_snapshot, and the comparison with the snapshot kept. *)

Reads == UNCHANGED <<pushVars, stack>>

\* parse_stack
Legible ==
    Len(members) >= 2 /\ \A m \in ToSet(members) : heads[Origin][m.ref] # NoCommit

\* A stack that cannot be read ends the invocation; the caller makes another.
ReadStack ==
    /\ step = "stack" /\ Legible /\ step' = "base"
    /\ got' = StackShown /\ verdict' = NoVerdict /\ UNCHANGED <<kept, was, is>> /\ Reads

ReadBase ==
    /\ step = "base" /\ step' = "stack again"
    /\ got' = WithBase(got, base) /\ UNCHANGED <<kept, verdict, was, is>> /\ Reads

Again == step' = "stack" /\ got' = NoSnapshot

SameStack == StackShown = [identity |-> got.identity, members |-> got.members]

\* The two readings of the stack are the same, or the snapshot is given up.
ReadStackAgain ==
    /\ step = "stack again"
    /\ IF Legible /\ SameStack
       THEN step' = "base again" /\ is' = Shown /\ got' = WithBase(StackShown, got.base)
       ELSE Again /\ UNCHANGED is
    /\ UNCHANGED <<kept, verdict, was>> /\ Reads

\* Mutant: the base is not compared with the one read before the stack.
SameBase_Assumed == TRUE
SameBase == got.base = base

\* A first snapshot is kept; a later one is compared with it.
ReadBaseAgain ==
    /\ step = "base again" /\ Again
    /\ IF ~SameBase THEN UNCHANGED <<kept, verdict, was>>
       ELSE IF kept = NoSnapshot
       THEN kept' = WithBase(got, base) /\ was' = is /\ UNCHANGED verdict
       ELSE verdict' = Classified(kept, WithBase(got, base)) /\ UNCHANGED <<kept, was>>
    /\ UNCHANGED is /\ Reads

Observe == ReadStack \/ ReadBase \/ ReadStackAgain \/ ReadBaseAgain
Restack == Drop \/ Merge \/ Close \/ Advance \/ \E r \in Refs : Insert(r)
StackNext ==
    \/ (Publish \/ Elsewhere) /\ UNCHANGED <<stack, reading>>
    \/ Restack \/ Observe

StackSpec == StackInit /\ [][StackNext]_allVars

-----------------------------------------------------------------------------
(* Properties. *)

\* What counts as evidence for a stack: its pull requests with their heads.
Evidence(s) == [i \in DOMAIN s.members |-> <<s.members[i].pr, s.members[i].head>>]
\* The reference: evidence holds up to the longest common prefix.
Reference(before, after) ==
    LET based == before.base # after.base \/ before.identity # after.identity
        holds == ~based /\ IsPrefix(Evidence(before), Evidence(after))
    IN  [at |-> IF holds THEN Holds ELSE IF based THEN 0
                ELSE Len(LongestCommonPrefix({Evidence(before), Evidence(after)})),
         appended |-> holds /\ Evidence(before) # Evidence(after),
         state |-> IF before = after THEN "satisfied" ELSE IF holds THEN "changed" ELSE "invalidated"]

\* A snapshot made of four requests shows the stack and its base as they were at
\* one moment, and the verdict is right about the two moments: satisfied only if
\* nothing differs, and invalidated from the first pull request whose head the
\* evidence no longer covers.
VerdictTrue == verdict # NoVerdict => verdict = Reference(was, is)
=============================================================================
