----------------------------- MODULE StackRules -----------------------------
(* How stack_state.py compares the snapshot a caller kept of a stack with the *)
(* current one.  A snapshot has a base, an identity and members bottom first, *)
(* each a pull request with its head and its state.                           *)
EXTENDS Integers, Sequences, SequencesExt, FiniteSetsExt

Order(s) == [i \in DOMAIN s.members |-> s.members[i].pr]
Numbers(s) == ToSet(Order(s))
Member(s, pr) == CHOOSE m \in ToSet(s.members) : m.pr = pr

Kept(before, after) == Numbers(before) \intersect Numbers(after)
HeadChanges(before, after) ==
    {pr \in Kept(before, after) : Member(before, pr).head # Member(after, pr).head}
StateChanges(before, after) ==
    {pr \in Kept(before, after) : Member(before, pr).state # Member(after, pr).state}

Rebased(before, after) == before.base # after.base \/ before.identity # after.identity

Identical(before, after) ==
    /\ ~Rebased(before, after) /\ Order(before) = Order(after)
    /\ HeadChanges(before, after) = {} /\ StateChanges(before, after) = {}

Shorter(a, b) == IF Len(a.members) < Len(b.members) THEN Len(a.members) ELSE Len(b.members)
Differs(m, n) == m.pr # n.pr \/ m.head # n.head
Holds == -1     \* no position

\* firstInvalidatedPosition, from 0.
FirstInvalidated(before, after) ==
    IF Rebased(before, after) THEN 0
    ELSE LET at == {i \in 1 .. Shorter(before, after) : Differs(before.members[i], after.members[i])}
         IN  IF at # {} THEN Min(at) - 1
             ELSE IF Len(after.members) < Len(before.members) THEN Len(after.members)
             ELSE Holds

\* The evidence stands, and there are more pull requests on top.
AppendOnly(before, after) ==
    /\ ~Rebased(before, after) /\ Len(after.members) > Len(before.members)
    /\ \A i \in DOMAIN before.members : ~Differs(before.members[i], after.members[i])
    /\ Numbers(before) \subseteq Numbers(after) /\ HeadChanges(before, after) = {}

\* inspect_classification; the wait goes on when it is satisfied.
Classified(before, after) ==
    [at |-> FirstInvalidated(before, after), appended |-> AppendOnly(before, after),
     state |-> IF Identical(before, after) THEN "satisfied"
               ELSE IF FirstInvalidated(before, after) # Holds THEN "invalidated"
               ELSE "changed"]
=============================================================================
