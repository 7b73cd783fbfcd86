--------------------------- MODULE StackPushProofs ---------------------------
(* Theorems about StackState: what a guarded push may move, and what a verdict *)
(* about two readings of the stack is worth.                                   *)
EXTENDS StackState, SequenceTheorems, WellFoundedInduction, TLAPS

Steps == {"start", "approved", "running", "hook", "checked", "accepted", "sending", "lost", "ended"}

IsPush(p) == p = [url |-> p.url, updates |-> p.updates]

Types ==
    /\ outer \in [Guards -> Guards \union {None}]
    /\ pc \in [Guards -> Steps]
    /\ DOMAIN admission = Guards /\ DOMAIN push = Guards /\ DOMAIN receipts = Guards
    /\ \A g \in Guards : IsPush(push[g])

\* An update accepted by a guard: it is admitted, and on disk.
OnDisk(h, updates) == \E accepted \in receipts[h] : updates \subseteq accepted

\* Updates are past a check only if admitted, and sent only if recorded.
Judged ==
    \A g \in Guards : pc[g] \in {"checked", "accepted", "sending", "lost"} =>
        ValidUpdates(g, push[g])
JudgedOutside ==
    \A g \in Guards : pc[g] \in {"accepted", "sending", "lost"} /\ outer[g] # None =>
        ValidUpdates(outer[g], push[g]) /\ OnDisk(outer[g], push[g].updates)
Recorded ==
    \A g \in Guards : pc[g] \in {"sending", "lost"} => OnDisk(g, push[g].updates)
\* What a guard admits, and what hook it found, is settled before it moves a branch.
Settled ==
    /\ \A g \in Guards : outer[g] # None => pc[outer[g]] # "start"
    /\ \A m \in moved : m.by \in Guards /\ pc[m.by] \notin {"start", "approved"}

PushInv == Types /\ Judged /\ JudgedOutside /\ Recorded /\ Settled /\ OnlyAdmitted

-----------------------------------------------------------------------------
(* The invariant holds at first and is kept by every step. *)

LEMMA InitInv == StackInit => PushInv
<1> SUFFICES ASSUME StackInit PROVE PushInv
  OBVIOUS
<1> USE DEF StackInit, PushInit
<1>1. Types
  BY DEF Types, Steps, IsPush, NoPush
<1>2. Judged /\ JudgedOutside /\ Recorded
  BY DEF Judged, JudgedOutside, Recorded
<1>3. Settled /\ OnlyAdmitted
  BY DEF Settled, OnlyAdmitted
<1> QED
  BY <1>1, <1>2, <1>3 DEF PushInv

\* What others do, and reading, leaves the guards' records alone; a guard that
\* is touched only refuses more.
LEMMA Aside ==
  PushInv /\ UNCHANGED <<admission, outer, pc, push, receipts, moved>> => PushInv'
BY DEF PushInv, Types, Judged, JudgedOutside, Recorded, Settled,
   OnlyAdmitted, OnDisk, ValidUpdates

LEMMA ApproveKeeps == \A g \in Guards : PushInv /\ Approve(g) => PushInv'
<1> SUFFICES ASSUME NEW g \in Guards, PushInv, Approve(g) PROVE PushInv'
  OBVIOUS
<1>1. /\ pc[g] = "start" /\ pc' = [pc EXCEPT ![g] = "approved"]
      /\ DOMAIN admission' = Guards
      /\ \A h \in Guards \ {g} : admission'[h] = admission[h]
      /\ UNCHANGED <<outer, push, receipts, moved>>
  BY DEF Approve, Go, PushInv, Types
<1>2. \A h \in Guards : outer[h] # g
  BY <1>1, PushAssumption DEF PushInv, Types, Settled
<1>3. \A m \in moved : m.by \in Guards \ {g}
  BY <1>1 DEF PushInv, Settled
<1>4. Types'
  BY <1>1 DEF PushInv, Types, Steps
<1>5. Judged' /\ Recorded'
  BY <1>1 DEF PushInv, Types, Judged, Recorded, OnDisk, ValidUpdates
<1>6. JudgedOutside'
  BY <1>1, <1>2 DEF PushInv, Types, JudgedOutside, OnDisk, ValidUpdates
<1>7. Settled'
  BY <1>1, <1>3 DEF PushInv, Types, Settled
<1>8. OnlyAdmitted'
  BY <1>1, <1>2, <1>3 DEF PushInv, Types, OnlyAdmitted
<1> QED
  BY <1>4, <1>5, <1>6, <1>7, <1>8 DEF PushInv

LEMMA RunKeeps == \A g \in Guards : PushInv /\ Run(g) => PushInv'
<1> SUFFICES ASSUME NEW g \in Guards, PushInv, Run(g) PROVE PushInv'
  OBVIOUS
<1>1. /\ pc[g] = "approved" /\ pc'[g] \in {"running", "ended"} /\ DOMAIN pc' = Guards
      /\ \A h \in Guards \ {g} : pc'[h] = pc[h] /\ outer'[h] = outer[h]
      /\ pc' \in [Guards -> Steps]
      /\ UNCHANGED <<admission, push, receipts, moved>>
  BY DEF Run, Go, PushInv, Types, Steps
<1>2. /\ outer' \in [Guards -> Guards \union {None}]
      /\ outer'[g] # None => outer'[g] = outer[g] \/ pc[outer'[g]] = "running"
  BY DEF Run, Prepared, PushInv, Types
<1>3. \A m \in moved : m.by \in Guards \ {g}
  BY <1>1 DEF PushInv, Settled
<1>4. Types'
  BY <1>1, <1>2 DEF PushInv, Types
<1>5. Judged' /\ Recorded'
  BY <1>1 DEF PushInv, Types, Judged, Recorded, OnDisk, ValidUpdates
<1>6. JudgedOutside'
  BY <1>1 DEF PushInv, Types, JudgedOutside, OnDisk, ValidUpdates
<1>7. Settled'
  BY <1>1, <1>2, <1>3 DEF PushInv, Types, Settled
<1>8. OnlyAdmitted'
  BY <1>1, <1>3 DEF PushInv, Types, OnlyAdmitted
<1> QED
  BY <1>4, <1>5, <1>6, <1>7, <1>8 DEF PushInv

\* A step of one guard's command that changes no admission and moves nothing: it
\* may fill or drop its push, and it may only add receipts.
Quiet(g) ==
    /\ pc' \in [Guards -> Steps] /\ \A h \in Guards \ {g} : pc'[h] = pc[h] /\ push'[h] = push[h]
    /\ pc[g] \notin {"start", "approved"} /\ pc'[g] \notin {"start", "approved"}
    /\ DOMAIN push' = Guards /\ DOMAIN receipts' = Guards /\ IsPush(push'[g])
    /\ \A h \in Guards : receipts[h] \subseteq receipts'[h]
    /\ UNCHANGED <<admission, outer, moved>>

LEMMA QuietKeeps ==
  \A g \in Guards :
    /\ PushInv /\ Quiet(g)
    /\ pc'[g] \in {"checked", "accepted", "sending", "lost"} => ValidUpdates(g, push'[g])
    /\ pc'[g] \in {"accepted", "sending", "lost"} /\ outer[g] # None =>
         ValidUpdates(outer[g], push'[g]) /\ \E accepted \in receipts'[outer[g]] : push'[g].updates \subseteq accepted
    /\ pc'[g] \in {"sending", "lost"} => \E accepted \in receipts'[g] : push'[g].updates \subseteq accepted
    => PushInv'
<1> SUFFICES ASSUME NEW g \in Guards, PushInv, Quiet(g),
      pc'[g] \in {"checked", "accepted", "sending", "lost"} => ValidUpdates(g, push'[g]),
      pc'[g] \in {"accepted", "sending", "lost"} /\ outer[g] # None =>
         ValidUpdates(outer[g], push'[g]) /\ \E accepted \in receipts'[outer[g]] : push'[g].updates \subseteq accepted,
      pc'[g] \in {"sending", "lost"} => \E accepted \in receipts'[g] : push'[g].updates \subseteq accepted
    PROVE PushInv'
  OBVIOUS
<1>4. Types'
  BY DEF PushInv, Types, Quiet
<1>5. Judged'
  BY DEF PushInv, Judged, Quiet, ValidUpdates
<1>6. Recorded'
  BY DEF PushInv, Recorded, Quiet, OnDisk
<1>7. JudgedOutside'
  <2> SUFFICES ASSUME NEW h \in Guards, pc'[h] \in {"accepted", "sending", "lost"}, outer[h] # None
               PROVE  /\ ValidUpdates(outer[h], push[h])'
                      /\ \E accepted \in receipts'[outer[h]] : push'[h].updates \subseteq accepted
    BY DEF Quiet, JudgedOutside, OnDisk
  <2>1. outer[h] \in Guards
    BY DEF PushInv, Types
  <2>2. CASE h = g
    BY <2>2 DEF Quiet, ValidUpdates
  <2>3. CASE h # g
    BY <2>1, <2>3 DEF PushInv, JudgedOutside, Quiet, OnDisk, ValidUpdates
  <2> QED
    BY <2>2, <2>3
<1>8. Settled'
  BY DEF PushInv, Types, Settled, Quiet
<1>9. OnlyAdmitted'
  BY DEF PushInv, Types, Settled, OnlyAdmitted, Quiet
<1> QED
  BY <1>4, <1>5, <1>6, <1>7, <1>8, <1>9 DEF PushInv

LEMMA QueueKeeps == \A g \in Guards : PushInv /\ Queue(g) => PushInv'
<1> SUFFICES ASSUME NEW g \in Guards, PushInv, Queue(g) PROVE PushInv'
  OBVIOUS
<1>1. Quiet(g)
  BY DEF Queue, Quiet, Go, IsPush, NoPush, PushInv, Types, Steps
<1>2. pc'[g] = "hook"
  BY DEF Queue, Go, PushInv, Types
<1> QED
  BY <1>1, <1>2, QuietKeeps

LEMMA CheckKeeps == \A g \in Guards : PushInv /\ Check(g) => PushInv'
<1> SUFFICES ASSUME NEW g \in Guards, PushInv, Check(g) PROVE PushInv'
  OBVIOUS
<1>1. Quiet(g)
  BY DEF Check, Quiet, Go, IsPush, NoPush, PushInv, Types, Steps, Refuse
<1>2. pc'[g] \in {"checked", "running"}
  BY DEF Check, Go, Refuse, PushInv, Types
<1>3. pc'[g] = "checked" => ValidUpdates(g, push'[g])
  BY DEF Check, Go, Refuse, PushInv, Types
<1> QED
  BY <1>1, <1>2, <1>3, QuietKeeps

LEMMA OriginalHookKeeps == \A g \in Guards : PushInv /\ OriginalHook(g) => PushInv'
<1> SUFFICES ASSUME NEW g \in Guards, PushInv, OriginalHook(g) PROVE PushInv'
  OBVIOUS
<1>1. Quiet(g)
  BY DEF OriginalHook, Quiet, Go, IsPush, NoPush, PushInv, Types, Steps, Refuse, Record
<1>2. pc'[g] \in {"accepted", "running"}
  BY DEF OriginalHook, Go, Refuse, PushInv, Types
<1>3. pc'[g] = "accepted" => pc[g] = "checked" /\ Agrees(g) /\ push' = push
  BY DEF OriginalHook, Go, Refuse, PushInv, Types
<1>4. ASSUME pc'[g] = "accepted" PROVE ValidUpdates(g, push'[g])
  BY <1>3, <1>4 DEF PushInv, Judged
<1>5. ASSUME pc'[g] = "accepted", outer[g] # None
      PROVE  /\ ValidUpdates(outer[g], push'[g])
             /\ \E accepted \in receipts'[outer[g]] : push'[g].updates \subseteq accepted
  <2>1. outer[g] \in Guards
    BY <1>5 DEF PushInv, Types
  <2>2. ValidUpdates(outer[g], push'[g])
    BY <2>1, <1>3, <1>5 DEF Agrees
  <2>3. receipts'[outer[g]] = receipts[outer[g]] \union {push[g].updates}
    BY <2>1, <1>5 DEF OriginalHook, Go, Refuse, Record, PushInv, Types
  <2> QED
    BY <2>2, <2>3, <1>3, <1>5
<1> QED
  BY <1>1, <1>2, <1>4, <1>5, QuietKeeps

LEMMA AcceptKeeps == \A g \in Guards : PushInv /\ Accept(g) => PushInv'
<1> SUFFICES ASSUME NEW g \in Guards, PushInv, Accept(g) PROVE PushInv'
  OBVIOUS
<1>1. Quiet(g)
  BY DEF Accept, Quiet, Go, IsPush, NoPush, PushInv, Types, Steps, Record
<1>2. /\ pc[g] = "accepted" /\ pc'[g] = "sending" /\ push' = push
      /\ receipts'[g] = receipts[g] \union {push[g].updates}
  BY DEF Accept, Go, Record, PushInv, Types
<1>3. ValidUpdates(g, push'[g])
  BY <1>2 DEF PushInv, Judged
<1>4. outer[g] # None =>
        /\ ValidUpdates(outer[g], push'[g])
        /\ \E accepted \in receipts'[outer[g]] : push'[g].updates \subseteq accepted
  BY <1>1, <1>2 DEF PushInv, Types, JudgedOutside, OnDisk, Quiet
<1> QED
  BY <1>1, <1>2, <1>3, <1>4, QuietKeeps

LEMMA PushedKeeps == \A g \in Guards : PushInv /\ Pushed(g) => PushInv'
<1> SUFFICES ASSUME NEW g \in Guards, PushInv, Pushed(g) PROVE PushInv'
  OBVIOUS
<1>1. Quiet(g)
  BY DEF Pushed, Quiet, Go, IsPush, NoPush, PushInv, Types, Steps
<1>2. pc'[g] = "running"
  BY DEF Pushed, Go, PushInv, Types
<1> QED
  BY <1>1, <1>2, QuietKeeps

LEMMA EndKeeps == \A g \in Guards : PushInv /\ End(g) => PushInv'
<1> SUFFICES ASSUME NEW g \in Guards, PushInv, End(g) PROVE PushInv'
  OBVIOUS
<1>1. Quiet(g)
  BY DEF End, Quiet, Go, IsPush, NoPush, PushInv, Types, Steps
<1>2. /\ pc'[g] \in {"lost", "ended"}
      /\ pc'[g] = "lost" => pc[g] = "sending"
      /\ UNCHANGED <<push, receipts>>
  BY DEF End, Go, PushInv, Types
<1>3. pc'[g] = "lost" => ValidUpdates(g, push'[g])
  BY <1>2 DEF PushInv, Judged
<1>4. pc'[g] = "lost" /\ outer[g] # None =>
        /\ ValidUpdates(outer[g], push'[g])
        /\ \E accepted \in receipts'[outer[g]] : push'[g].updates \subseteq accepted
  BY <1>2 DEF PushInv, JudgedOutside, OnDisk
<1>5. pc'[g] = "lost" => \E accepted \in receipts'[g] : push'[g].updates \subseteq accepted
  BY <1>2 DEF PushInv, Recorded, OnDisk
<1> QED
  BY <1>1, <1>2, <1>3, <1>4, <1>5, QuietKeeps

LEMMA ReceiveKeeps == \A g \in Guards : PushInv /\ Receive(g) => PushInv'
<1> SUFFICES ASSUME NEW g \in Guards, PushInv, Receive(g) PROVE PushInv'
  OBVIOUS
<1>0. PICK updates \in SUBSET push[g].updates : push' = [push EXCEPT ![g].updates = @ \ updates]
  BY DEF Receive, Made, Rejected
<1>1. /\ pc[g] \in {"sending", "lost"} /\ DOMAIN push' = Guards /\ IsPush(push'[g])
      /\ push'[g].updates \subseteq push[g].updates /\ push'[g].url = push[g].url
      /\ \A h \in Guards \ {g} : push'[h] = push[h]
      /\ UNCHANGED <<admission, outer, pc, receipts>>
  <2>1. push[g] = [url |-> push[g].url, updates |-> push[g].updates]
    BY DEF PushInv, Types, IsPush
  <2>2. /\ DOMAIN push' = Guards /\ \A h \in Guards \ {g} : push'[h] = push[h]
        /\ push'[g] = [push[g] EXCEPT !.updates = @ \ updates]
    BY <1>0 DEF PushInv, Types
  <2>3. push'[g] = [url |-> push[g].url, updates |-> push[g].updates \ updates]
    BY <2>1, <2>2
  <2> QED
    BY <2>2, <2>3 DEF Receive, IsPush
<1>2. \A m \in moved' \ moved : m.by = g /\ m.url = push[g].url /\ m.update \in push[g].updates
  BY DEF Receive, Made, Rejected
<1>3. moved \subseteq moved'
  BY DEF Receive, Made, Rejected
<1>4. Types'
  BY <1>1 DEF PushInv, Types, IsPush
<1>5. Judged'
  BY <1>1 DEF PushInv, Judged, ValidUpdates
<1>6. Recorded'
  BY <1>1 DEF PushInv, Recorded, OnDisk
<1>7. JudgedOutside'
  BY <1>1 DEF PushInv, JudgedOutside, OnDisk, ValidUpdates
<1>8. Settled'
  BY <1>1, <1>2 DEF PushInv, Settled
<1>9. OnlyAdmitted'
  <2> SUFFICES ASSUME NEW m \in moved', NEW h \in {m.by, outer[m.by]} \ {None}
               PROVE  /\ m.url = admission[h].url /\ m.update \in admission[h].rows
                      /\ \E accepted \in receipts[h] : m.update \in accepted
    BY <1>1 DEF OnlyAdmitted
  <2>1. CASE m \in moved
    BY <2>1 DEF PushInv, OnlyAdmitted
  <2>2. CASE m \notin moved
    <3>1. m.by = g /\ m.url = push[g].url /\ m.update \in push[g].updates
      BY <2>2, <1>2
    <3>2. CASE h = g
      BY <1>1, <3>1, <3>2 DEF PushInv, Judged, Recorded, OnDisk, ValidUpdates
    <3>3. CASE h = outer[g]
      BY <1>1, <3>1, <3>3 DEF PushInv, JudgedOutside, OnDisk, ValidUpdates
    <3> QED
      BY <3>1, <3>2, <3>3
  <2> QED
    BY <2>1, <2>2
<1> QED
  BY <1>4, <1>5, <1>6, <1>7, <1>8, <1>9 DEF PushInv

LEMMA StepInv == PushInv /\ [StackNext]_allVars => PushInv'
<1> SUFFICES ASSUME PushInv, [StackNext]_allVars PROVE PushInv'
  OBVIOUS
<1>1. CASE Publish
  BY <1>1, ApproveKeeps, RunKeeps, QueueKeeps, CheckKeeps, OriginalHookKeeps, AcceptKeeps,
     ReceiveKeeps, PushedKeeps, EndKeeps DEF Publish
<1>2. CASE Elsewhere
  BY <1>2, Aside DEF Elsewhere, Reconfigure, Touch, Rewrite, PushElsewhere, Others, guarding
<1>3. CASE Restack
  BY <1>3, Aside DEF Restack, Drop, Merge, Close, Advance, Insert, Stacks, Others, guarding
<1>4. CASE Observe
  BY <1>4, Aside DEF Observe, ReadStack, ReadBase, ReadStackAgain, ReadBaseAgain, Reads, pushVars, guarding
<1>5. CASE UNCHANGED allVars
  BY <1>5, Aside DEF allVars, pushVars, guarding
<1> QED
  BY <1>1, <1>2, <1>3, <1>4, <1>5 DEF StackNext

-----------------------------------------------------------------------------
(* The theorems. *)

\* The invariant holds in every reachable state.
THEOREM InductiveInvariant == StackSpec => []PushInv
BY InitInv, StepInv, PTL DEF StackSpec

\* Only what was admitted moves, whatever moves meanwhile, for any branches,
\* commits, guards and nesting of two of them.
THEOREM GuardedPushesAdmitted == StackSpec => []OnlyAdmitted
<1>1. PushInv => OnlyAdmitted
  BY DEF PushInv
<1> QED
  BY <1>1, InductiveInvariant, PTL

-----------------------------------------------------------------------------
(* The comparison of two snapshots. *)

LEMMA PrefixAt ==
  ASSUME NEW X, NEW a \in Seq(X), NEW b \in Seq(X)
  PROVE  IsPrefix(a, b) <=> Len(a) <= Len(b) /\ \A i \in 1 .. Len(a) : a[i] = b[i]
<1>1. SubSeq(a, 1, Len(a)) = a
  OBVIOUS
<1>2. ASSUME Len(a) <= Len(b)
      PROVE  /\ SubSeq(b, 1, Len(a)) \in Seq(X) /\ Len(SubSeq(b, 1, Len(a))) = Len(a)
             /\ \A i \in 1 .. Len(a) : SubSeq(b, 1, Len(a))[i] = b[i]
  BY <1>2
<1>3. ASSUME Len(a) <= Len(b), \A i \in 1 .. Len(a) : a[i] = b[i]
      PROVE  SubSeq(b, 1, Len(a)) = a
  BY <1>2, <1>3, SeqEqual
<1> QED
  BY <1>1, <1>2, <1>3 DEF IsPrefix

\* The longest common prefix of two sequences ends before the first difference.
LEMMA CommonLength ==
  ASSUME NEW X, NEW a \in Seq(X), NEW b \in Seq(X), NEW k \in Nat,
         k <= Len(a), k <= Len(b), \A i \in 1 .. k : a[i] = b[i],
         k < Len(a) /\ k < Len(b) => a[k + 1] # b[k + 1]
  PROVE  Len(LongestCommonPrefix({a, b})) = k
<1> DEFINE C == CommonPrefixes({a, b})
           p == SubSeq(a, 1, k)
<1>1. /\ p \in Seq(X) /\ Len(p) = k /\ \A i \in 1 .. k : p[i] = a[i]
  OBVIOUS
<1>2. \A q \in C : q \in Seq(X) /\ IsPrefix(q, a) /\ IsPrefix(q, b)
  <2>1. C \subseteq Prefixes(a) \union Prefixes(b)
    BY DEF CommonPrefixes
  <2>2. Prefixes(a) \subseteq Seq(X) /\ Prefixes(b) \subseteq Seq(X)
    <3>1. \A l \in 0 .. Len(a) : SubSeq(a, 1, l) \in Seq(X)
      OBVIOUS
    <3>2. \A l \in 0 .. Len(b) : SubSeq(b, 1, l) \in Seq(X)
      OBVIOUS
    <3> QED
      BY <3>1, <3>2 DEF Prefixes
  <2>3. \A q \in C : IsPrefix(q, a) /\ IsPrefix(q, b)
    BY DEF CommonPrefixes
  <2> QED
    BY <2>1, <2>2, <2>3
<1>3. p \in C
  <2>1. p \in Prefixes(a)
    BY DEF Prefixes
  <2> HIDE DEF p
  <2>2. IsPrefix(p, a) /\ IsPrefix(p, b)
    BY <1>1, PrefixAt
  <2> QED
    BY <2>1, <2>2 DEF CommonPrefixes
<1> HIDE DEF C, p
<1>4. \A q \in C : Len(q) \in Nat /\ Len(q) <= k
  <2> SUFFICES ASSUME NEW q \in C, ~(Len(q) <= k) PROVE FALSE
    BY <1>2
  <2>1. q \in Seq(X) /\ Len(q) <= Len(a) /\ Len(q) <= Len(b)
        /\ \A i \in 1 .. Len(q) : q[i] = a[i] /\ q[i] = b[i]
    BY <1>2, PrefixAt
  <2>2. k + 1 \in 1 .. Len(q)
    BY <2>1
  <2>3. k < Len(a) /\ k < Len(b) /\ a[k + 1] = b[k + 1]
    BY <2>1, <2>2
  <2> QED
    BY <2>3
<1>5. \E q \in C : \A o \in C : Len(o) <= Len(q)
  BY <1>1, <1>3, <1>4
<1>6. LongestCommonPrefix({a, b}) = CHOOSE q \in C : \A o \in C : Len(o) <= Len(q)
  BY DEF LongestCommonPrefix, C
<1> DEFINE q == CHOOSE q \in C : \A o \in C : Len(o) <= Len(q)
<1>7. q \in C /\ \A o \in C : Len(o) <= Len(q)
  BY <1>5
<1>8. LongestCommonPrefix({a, b}) = q
  BY <1>6
<1> HIDE DEF q
<1>9. Len(q) \in Nat /\ Len(q) <= k /\ k <= Len(q)
  BY <1>1, <1>3, <1>4, <1>7
<1> QED
  BY <1>8, <1>9

LEMMA Least ==
  ASSUME NEW S \in SUBSET Nat, S # {}
  PROVE  Min(S) \in S /\ \A x \in S : Min(S) <= x
<1> DEFINE R == {p \in Nat \X Nat : p[1] < p[2]}
<1>1. IsWellFoundedOn(R, Nat)
  BY NatLessThanWellFounded DEF OpToRel
<1> HIDE DEF R
<1>2. PICK x \in S : \A y \in S : ~(<<y, x>> \in R)
  BY <1>1, WFMin
<1>3. \A y \in S : x <= y
  <2> TAKE y \in S
  <2>1. y < x => <<y, x>> \in R
    BY DEF R
  <2> QED
    BY <1>2, <2>1
<1> QED
  BY <1>3 DEF Min

\* A snapshot, whose pull requests are each of one member.
Snapshot(s) ==
    /\ s = [identity |-> s.identity, members |-> s.members, base |-> s.base]
    /\ s.members \in Seq(ToSet(s.members))
    /\ \A m \in ToSet(s.members) : m = [pr |-> m.pr, head |-> m.head, state |-> m.state]
    /\ \A i, j \in DOMAIN s.members : s.members[i].pr = s.members[j].pr => i = j

LEMMA MemberAt ==
  ASSUME NEW s, Snapshot(s), NEW i \in DOMAIN s.members
  PROVE  Member(s, s.members[i].pr) = s.members[i] /\ s.members[i].pr \in Numbers(s)
<1>1. s.members[i] \in ToSet(s.members)
  BY DEF ToSet
<1>2. \A m \in ToSet(s.members) : m.pr = s.members[i].pr => m = s.members[i]
  BY DEF Snapshot, ToSet
<1>3. Member(s, s.members[i].pr) = s.members[i]
  BY <1>1, <1>2 DEF Member
<1>4. s.members[i].pr \in Numbers(s)
  BY DEF Numbers, Order, ToSet
<1> QED
  BY <1>3, <1>4

LEMMA IdenticalSame ==
  ASSUME NEW s, NEW t, Snapshot(s), Snapshot(t)
  PROVE  Identical(s, t) <=> s = t
<1>1. ASSUME s = t PROVE Identical(s, t)
  BY <1>1 DEF Identical, Rebased, HeadChanges, StateChanges
<1>2. ASSUME Identical(s, t) PROVE s = t
  <2>1. s.base = t.base /\ s.identity = t.identity
    BY <1>2 DEF Identical, Rebased
  <2>2. Order(s) = Order(t)
    BY <1>2 DEF Identical
  <2>3. DOMAIN s.members = DOMAIN t.members
    BY <2>2 DEF Order
  <2>4. \A i \in DOMAIN s.members : s.members[i] = t.members[i]
    <3> TAKE i \in DOMAIN s.members
    <3>1. s.members[i].pr = t.members[i].pr
      <4>1. Order(s)[i] = s.members[i].pr /\ Order(t)[i] = t.members[i].pr
        BY <2>3 DEF Order
      <4> QED
        BY <2>2, <4>1
    <3>2. s.members[i].pr \in Kept(s, t)
      BY <2>3, <3>1, MemberAt DEF Kept
    <3>3. Member(s, s.members[i].pr) = s.members[i] /\ Member(t, s.members[i].pr) = t.members[i]
      BY <2>3, <3>1, MemberAt
    <3>4. s.members[i].head = t.members[i].head /\ s.members[i].state = t.members[i].state
      BY <1>2, <3>2, <3>3 DEF Identical, HeadChanges, StateChanges
    <3>5. s.members[i] \in ToSet(s.members) /\ t.members[i] \in ToSet(t.members)
      BY <2>3 DEF ToSet
    <3> QED
      BY <3>1, <3>4, <3>5 DEF Snapshot
  <2>5. s.members = t.members
    <3>1. s.members = [i \in DOMAIN s.members |-> s.members[i]]
      BY DEF Snapshot
    <3>2. t.members = [i \in DOMAIN t.members |-> t.members[i]]
      BY DEF Snapshot
    <3> QED
      BY <2>3, <2>4, <3>1, <3>2
  <2> QED
    BY <2>1, <2>5 DEF Snapshot
<1> QED
  BY <1>1, <1>2

LEMMA EvidenceAt ==
  ASSUME NEW s, NEW t, Snapshot(s), Snapshot(t)
  PROVE  \E Y : /\ Evidence(s) \in Seq(Y) /\ Evidence(t) \in Seq(Y)
               /\ Len(s.members) \in Nat /\ Len(Evidence(s)) = Len(s.members)
               /\ Len(t.members) \in Nat /\ Len(Evidence(t)) = Len(t.members)
               /\ \A i \in DOMAIN s.members \intersect DOMAIN t.members :
                    Evidence(s)[i] = Evidence(t)[i] <=> ~Differs(s.members[i], t.members[i])
<1> DEFINE Y == {<<m.pr, m.head>> : m \in ToSet(s.members) \union ToSet(t.members)}
<1>1. ASSUME NEW u, Snapshot(u), ToSet(u.members) \subseteq ToSet(s.members) \union ToSet(t.members)
      PROVE  /\ Evidence(u) \in Seq(Y) /\ Len(u.members) \in Nat
             /\ Len(Evidence(u)) = Len(u.members)
             /\ \A i \in DOMAIN u.members : Evidence(u)[i] = <<u.members[i].pr, u.members[i].head>>
  <2>1. /\ DOMAIN u.members = 1 .. Len(u.members) /\ Len(u.members) \in Nat
    BY <1>1 DEF Snapshot
  <2>2. \A i \in DOMAIN u.members : <<u.members[i].pr, u.members[i].head>> \in Y
    BY <1>1 DEF ToSet
  <2>3. Evidence(u) \in [1 .. Len(u.members) -> Y]
    BY <2>1, <2>2 DEF Evidence
  <2>4. Evidence(u) \in Seq(Y)
    BY <2>1, <2>3
  <2>5. Len(Evidence(u)) = Len(u.members)
    BY <2>1, <2>3, <2>4
  <2> QED
    BY <2>1, <2>4, <2>5 DEF Evidence
<1> HIDE DEF Y
<1>2. \A i \in DOMAIN s.members \intersect DOMAIN t.members :
        Evidence(s)[i] = Evidence(t)[i] <=> ~Differs(s.members[i], t.members[i])
  <2> TAKE i \in DOMAIN s.members \intersect DOMAIN t.members
  <2>1. Evidence(s)[i] = <<s.members[i].pr, s.members[i].head>>
    BY <1>1
  <2>2. Evidence(t)[i] = <<t.members[i].pr, t.members[i].head>>
    BY <1>1
  <2> QED
    BY <2>1, <2>2 DEF Differs
<1> QED
  BY <1>1, <1>2

\* The positions that are compared find what the evidence has in common.
LEMMA Compared ==
  ASSUME NEW s, NEW t, Snapshot(s), Snapshot(t)
  PROVE  Classified(s, t) = Reference(s, t)
<1> DEFINE n == Len(s.members)
           m == Len(t.members)
           D == {i \in 1 .. Shorter(s, t) : Differs(s.members[i], t.members[i])}
           holds == IsPrefix(Evidence(s), Evidence(t))
<1>1. PICK Y : /\ Evidence(s) \in Seq(Y) /\ Evidence(t) \in Seq(Y)
               /\ n \in Nat /\ Len(Evidence(s)) = n /\ m \in Nat /\ Len(Evidence(t)) = m
               /\ \A i \in DOMAIN s.members \intersect DOMAIN t.members :
                    Evidence(s)[i] = Evidence(t)[i] <=> ~Differs(s.members[i], t.members[i])
  BY EvidenceAt
<1>2. DOMAIN s.members = 1 .. n /\ DOMAIN t.members = 1 .. m
  <2>1. \A u : Snapshot(u) => DOMAIN u.members = 1 .. Len(u.members)
    BY DEF Snapshot
  <2> QED
    BY <2>1
<1>3. /\ Shorter(s, t) \in Nat /\ Shorter(s, t) <= n /\ Shorter(s, t) <= m
      /\ Shorter(s, t) = n \/ Shorter(s, t) = m
  BY <1>1 DEF Shorter
<1>4. \A i \in 1 .. Shorter(s, t) : Evidence(s)[i] = Evidence(t)[i] <=> i \notin D
  BY <1>1, <1>2, <1>3
<1>5. holds <=> n <= m /\ D = {}
  <2>1. holds <=> n <= m /\ \A i \in 1 .. n : Evidence(s)[i] = Evidence(t)[i]
    BY <1>1, PrefixAt
  <2>2. n <= m => Shorter(s, t) = n
    BY <1>1 DEF Shorter
  <2> QED
    BY <1>4, <2>1, <2>2
<1>6. Identical(s, t) <=> s = t
  BY IdenticalSame
<1>7. s = t => D = {} /\ ~Rebased(s, t) /\ n = m
  BY DEF Differs, Rebased
<1> DEFINE L == Len(LongestCommonPrefix({Evidence(s), Evidence(t)}))
<1>8. FirstInvalidated(s, t) = IF Rebased(s, t) THEN 0
                               ELSE IF D # {} THEN Min(D) - 1 ELSE IF m < n THEN m ELSE Holds
  BY DEF FirstInvalidated
<1>9. AppendOnly(s, t) <=> ~Rebased(s, t) /\ holds /\ Evidence(s) # Evidence(t)
  <2>1. ASSUME holds, n < m
        PROVE  /\ \A i \in DOMAIN s.members : ~Differs(s.members[i], t.members[i])
               /\ Numbers(s) \subseteq Numbers(t) /\ HeadChanges(s, t) = {}
    <3>1. \A i \in 1 .. n : i \in DOMAIN t.members /\ ~Differs(s.members[i], t.members[i])
      BY <1>1, <1>2, <1>3, <1>5, <2>1 DEF Shorter
    <3>2. \A x \in Numbers(s) : \E i \in 1 .. n : x = s.members[i].pr
      BY <1>2 DEF Numbers, Order, ToSet
    <3>3. \A x \in Numbers(s) : x \in Numbers(t) /\ Member(s, x).head = Member(t, x).head
      <4> TAKE x \in Numbers(s)
      <4>1. PICK i \in 1 .. n : x = s.members[i].pr
        BY <3>2
      <4>2. x = t.members[i].pr /\ s.members[i].head = t.members[i].head
        BY <3>1, <4>1 DEF Differs
      <4> QED
        BY <1>2, <3>1, <4>1, <4>2, MemberAt
    <3> QED
      BY <1>2, <3>1, <3>3 DEF HeadChanges, Kept
  <2>2. ASSUME m > n, \A i \in DOMAIN s.members : ~Differs(s.members[i], t.members[i])
        PROVE  holds
    BY <1>1, <1>2, <1>3, <1>5, <2>2
  <2>3. ASSUME holds PROVE Evidence(s) # Evidence(t) <=> n < m
    <3>1. n <= m /\ \A i \in 1 .. n : Evidence(s)[i] = Evidence(t)[i]
      BY <1>1, <2>3, PrefixAt
    <3>2. n = m => Evidence(s) = Evidence(t)
      BY <1>1, <3>1, SeqEqual
    <3> QED
      BY <1>1, <3>1, <3>2
  <2> HIDE DEF holds, n, m
  <2>4. AppendOnly(s, t) <=>
          /\ ~Rebased(s, t) /\ m > n
          /\ \A i \in DOMAIN s.members : ~Differs(s.members[i], t.members[i])
          /\ Numbers(s) \subseteq Numbers(t) /\ HeadChanges(s, t) = {}
    BY DEF AppendOnly, n, m
  <2> QED
    BY <1>1, <2>1, <2>2, <2>3, <2>4
<1>10. ASSUME D # {} PROVE Min(D) - 1 = L /\ Min(D) - 1 # Holds
  <2> DEFINE k == Min(D) - 1
  <2>0. D \in SUBSET Nat
    BY <1>3
  <2> HIDE DEF D
  <2>1. Min(D) \in D /\ \A i \in D : Min(D) <= i
    BY <2>0, <1>10, Least
  <2>2. Min(D) \in 1 .. Shorter(s, t)
    BY <2>1 DEF D
  <2>3. k \in Nat /\ k < Shorter(s, t) /\ k + 1 = Min(D)
    BY <1>3, <2>2
  <2>4. \A i \in 1 .. k : i \in 1 .. Shorter(s, t) /\ i \notin D
    BY <1>3, <2>1, <2>2, <2>3
  <2>5. Evidence(s)[k + 1] # Evidence(t)[k + 1]
    BY <1>4, <2>1, <2>2, <2>3
  <2>6. \A i \in 1 .. k : Evidence(s)[i] = Evidence(t)[i]
    BY <1>4, <2>4
  <2>7. k <= Len(Evidence(s)) /\ k <= Len(Evidence(t))
    BY <1>1, <1>3, <2>3
  <2> HIDE DEF k
  <2>8. L = k
    BY <1>1, <2>3, <2>5, <2>6, <2>7, CommonLength
  <2> QED
    BY <2>3, <2>8 DEF k, Holds
<1>11. ASSUME D = {}, m < n PROVE m = L /\ m # Holds
  <2>1. Shorter(s, t) = m
    BY <1>1, <1>11 DEF Shorter
  <2>2. \A i \in 1 .. m : Evidence(s)[i] = Evidence(t)[i]
    BY <1>4, <1>11, <2>1
  <2>4. /\ m <= Len(Evidence(s)) /\ m <= Len(Evidence(t))
        /\ ~(m < Len(Evidence(t)))
    BY <1>1, <1>11
  <2> HIDE DEF D, m, n
  <2>3. L = m
    BY <1>1, <2>2, <2>4, CommonLength
  <2> QED
    BY <1>1, <2>3 DEF Holds
<1> DEFINE at == IF ~Rebased(s, t) /\ holds THEN Holds ELSE IF Rebased(s, t) THEN 0 ELSE L
           state == IF s = t THEN "satisfied" ELSE IF ~Rebased(s, t) /\ holds THEN "changed"
                    ELSE "invalidated"
<1>12. Reference(s, t) = [at |-> at, appended |-> ~Rebased(s, t) /\ holds /\ Evidence(s) # Evidence(t),
                          state |-> state]
  BY DEF Reference, Rebased
<1>13. Classified(s, t) = [at |-> FirstInvalidated(s, t), appended |-> AppendOnly(s, t),
         state |-> IF Identical(s, t) THEN "satisfied"
                   ELSE IF FirstInvalidated(s, t) # Holds THEN "invalidated" ELSE "changed"]
  BY DEF Classified
<1> HIDE DEF n, m, D, holds, L
<1>14. m < n \/ n <= m
  BY <1>1
<1>15. FirstInvalidated(s, t) = at /\ (FirstInvalidated(s, t) = Holds <=> ~Rebased(s, t) /\ holds)
  <2>1. 0 # Holds /\ ~(n <= m /\ m < n)
    BY <1>1 DEF Holds
  <2> QED
    BY <1>5, <1>8, <1>10, <1>11, <1>14, <2>1
<1>16. (AppendOnly(s, t)) = (~Rebased(s, t) /\ holds /\ Evidence(s) # Evidence(t))
  BY <1>9 DEF AppendOnly
<1> QED
  BY <1>6, <1>12, <1>13, <1>15, <1>16

-----------------------------------------------------------------------------
(* The readings. *)

\* A branch has one pull request in the stack.
Once(ms) ==
    /\ ms \in Seq(ToSet(ms))
    /\ \A i, j \in DOMAIN ms : ms[i].ref = ms[j].ref => i = j

StackInv == Once(members) /\ base \in Nat
\* The stack that was read twice is the one GitHub showed at the second reading,
\* between the two readings of its base.
GotInv ==
    /\ step = "base" => verdict = NoVerdict
    /\ step = "stack again" =>
         /\ verdict = NoVerdict /\ got.base \in Nat /\ got.base <= base
    /\ step = "base again" =>
         /\ verdict = NoVerdict /\ Snapshot(is) /\ got.base \in Nat /\ is.base \in Nat
         /\ got.base <= is.base /\ is.base <= base
         /\ got.identity = is.identity /\ got.members = is.members
KeptInv == kept # NoSnapshot => kept = was /\ Snapshot(kept)
ReadInv ==
    /\ step \in {"stack", "base", "stack again", "base again"}
    /\ StackInv /\ GotInv /\ KeptInv /\ VerdictTrue

LEMMA OwnSeq == \A X : \A s \in Seq(X) : s \in Seq(ToSet(s))
<1> SUFFICES ASSUME NEW X, NEW s \in Seq(X) PROVE s \in Seq(ToSet(s))
  OBVIOUS
<1>1. s \in [1 .. Len(s) -> X] /\ Len(s) \in Nat
  OBVIOUS
<1>2. s \in [1 .. Len(s) -> ToSet(s)]
  BY <1>1 DEF ToSet
<1> QED
  BY <1>1, <1>2

LEMMA Joined ==
  ASSUME NEW X, NEW a \in Seq(X), NEW b \in Seq(X)
  PROVE  /\ a \o b \in Seq(X) /\ Len(a \o b) = Len(a) + Len(b)
         /\ \A k \in 1 .. Len(a) + Len(b) : (a \o b)[k] = IF k <= Len(a) THEN a[k] ELSE b[k - Len(a)]
OBVIOUS

LEMMA Part ==
  ASSUME NEW X, NEW s \in Seq(X), NEW a \in Int, NEW b \in Int, 1 <= a, a <= b + 1, b <= Len(s)
  PROVE  /\ SubSeq(s, a, b) \in Seq(X) /\ Len(SubSeq(s, a, b)) = b + 1 - a
         /\ \A k \in 1 .. b + 1 - a : SubSeq(s, a, b)[k] = s[a + k - 1]
<1>1. Len(s) \in Nat /\ DOMAIN s = 1 .. Len(s)
  OBVIOUS
<1>2. \A k \in 1 .. b + 1 - a : a + k - 1 \in 1 .. Len(s) /\ s[a + k - 1] \in X
  BY <1>1
<1>3. SubSeq(s, a, b) = [k \in 1 .. b - a + 1 |-> s[a + k - 1]]
  BY <1>1
<1>4. b - a + 1 = b + 1 - a /\ b + 1 - a \in Nat
  OBVIOUS
<1> QED
  BY <1>2, <1>3, <1>4

LEMMA Inserted ==
  ASSUME NEW s, Once(s), NEW i \in 1 .. Len(s) + 1, NEW e,
         \A m \in ToSet(s) : m.ref # e.ref
  PROVE  Once(InsertAt(s, i, e))
<1> DEFINE X == ToSet(s) \union {e}
           r == InsertAt(s, i, e)
           p == SubSeq(s, 1, i - 1)
           q == SubSeq(s, i, Len(s))
<1>1. s \in Seq(X) /\ Len(s) \in Nat /\ DOMAIN s = 1 .. Len(s)
  BY DEF Once
<1>2. /\ p \in Seq(X) /\ Len(p) = i - 1 /\ \A k \in 1 .. i - 1 : p[k] = s[k]
      /\ q \in Seq(X) /\ Len(q) = Len(s) + 1 - i
      /\ \A k \in 1 .. Len(s) + 1 - i : q[k] = s[i + k - 1]
  <2>1. /\ p \in Seq(X) /\ Len(p) = (i - 1) + 1 - 1
        /\ \A k \in 1 .. (i - 1) + 1 - 1 : p[k] = s[1 + k - 1]
    BY <1>1, Part
  <2>2. (i - 1) + 1 - 1 = i - 1 /\ \A k \in 1 .. i - 1 : 1 + k - 1 = k
    OBVIOUS
  <2>3. /\ q \in Seq(X) /\ Len(q) = Len(s) + 1 - i
        /\ \A k \in 1 .. Len(s) + 1 - i : q[k] = s[i + k - 1]
    BY <1>1, Part
  <2> QED
    BY ONLY <2>1, <2>2, <2>3
<1>3. r = p \o <<e>> \o q
  BY DEF InsertAt
<1>4. <<e>> \in Seq(X) /\ Len(<<e>>) = 1 /\ <<e>>[1] = e
  OBVIOUS
<1> HIDE DEF p, q, X, r
<1>5. p \o <<e>> \in Seq(X) /\ Len(p \o <<e>>) = i
      /\ \A k \in 1 .. i : (p \o <<e>>)[k] = IF k = i THEN e ELSE p[k]
  BY <1>1, <1>2, <1>4
<1>6. r \in Seq(X) /\ Len(r) = Len(s) + 1
      /\ \A k \in 1 .. Len(s) + 1 : r[k] = IF k <= i THEN (p \o <<e>>)[k] ELSE q[k - i]
  <2> DEFINE a == p \o <<e>>
  <2>1. a \in Seq(X) /\ Len(a) = i /\ r = a \o q
    BY <1>3, <1>5
  <2>2. i + Len(q) = Len(s) + 1
    BY <1>1, <1>2
  <2> HIDE DEF a
  <2>3. r \in Seq(X) /\ Len(r) = Len(s) + 1
        /\ \A k \in 1 .. Len(s) + 1 : r[k] = IF k <= i THEN a[k] ELSE q[k - i]
    <3>1. q \in Seq(X) /\ Len(q) \in Nat /\ Len(s) \in Nat
      BY <1>1, <1>2
    <3>2. a \o q \in Seq(X) /\ Len(a \o q) = Len(a) + Len(q)
          /\ \A k \in 1 .. Len(a) + Len(q) : (a \o q)[k] = IF k <= Len(a) THEN a[k] ELSE q[k - Len(a)]
      BY <2>1, <3>1, Joined
    <3> QED
      BY ONLY <2>1, <2>2, <3>1, <3>2
  <2> QED
    BY <2>3 DEF a
<1>7. /\ \A k \in 1 .. i - 1 : r[k] = s[k]
      /\ r[i] = e
      /\ \A k \in i + 1 .. Len(s) + 1 : r[k] = s[k - 1]
  <2>1. \A k \in 1 .. i - 1 : r[k] = s[k]
    BY <1>1, <1>2, <1>5, <1>6
  <2>2. r[i] = e
    BY <1>1, <1>5, <1>6
  <2>3. ASSUME NEW k \in i + 1 .. Len(s) + 1 PROVE r[k] = s[k - 1]
    <3>1. k - i \in 1 .. Len(s) + 1 - i /\ i + (k - i) - 1 = k - 1 /\ ~(k <= i)
          /\ k \in 1 .. Len(s) + 1
      BY <1>1
    <3> QED
      BY <1>2, <1>6, <3>1
  <2> QED
    BY <2>1, <2>2, <2>3
<1>8. \A k \in 1 .. Len(s) : s[k].ref # e.ref /\ \A l \in 1 .. Len(s) : s[k].ref = s[l].ref => k = l
  BY <1>1 DEF Once, ToSet
<1>9. ASSUME NEW k \in 1 .. Len(s) + 1, NEW l \in 1 .. Len(s) + 1, r[k].ref = r[l].ref
      PROVE  k = l
  <2>1. \A x \in 1 .. Len(s) + 1 :
          \/ x = i /\ r[x] = e
          \/ x < i /\ x \in 1 .. Len(s) /\ r[x] = s[x]
          \/ x > i /\ x - 1 \in 1 .. Len(s) /\ r[x] = s[x - 1]
    <3> TAKE x \in 1 .. Len(s) + 1
    <3>1. CASE x = i
      BY <1>7, <3>1
    <3>2. CASE x < i
      BY <1>1, <1>7, <3>2
    <3>3. CASE x > i
      BY <1>1, <1>7, <3>3
    <3> QED
      BY <1>1, <3>1, <3>2, <3>3
  <2>2. CASE k = i
    <3>1. r[l].ref = e.ref
      BY <1>7, <1>9, <2>2
    <3>2. l \notin {x \in 1 .. Len(s) + 1 : x # i}
      <4> SUFFICES ASSUME l # i PROVE FALSE
        OBVIOUS
      <4>1. (r[l] = s[l] /\ l \in 1 .. Len(s)) \/ (r[l] = s[l - 1] /\ l - 1 \in 1 .. Len(s))
        BY <2>1
      <4> QED
        <5>1. \A k1 \in 1 .. Len(s) : s[k1].ref # e.ref
          BY <1>8
        <5>2. CASE r[l] = s[l] /\ l \in 1 .. Len(s)
          BY ONLY <5>1, <5>2, <3>1
        <5>3. CASE r[l] = s[l - 1] /\ l - 1 \in 1 .. Len(s)
          BY ONLY <5>1, <5>3, <3>1
        <5> QED
          BY <4>1, <5>2, <5>3
    <3> QED
      BY <2>2, <3>2
  <2>3. CASE k < i
    BY <1>1, <1>8, <1>9, <2>1, <2>3
  <2>4. CASE k > i
    BY <1>1, <1>8, <1>9, <2>1, <2>4
  <2> QED
    BY <2>2, <2>3, <2>4
<1>10. r \in Seq(ToSet(r)) /\ DOMAIN r = 1 .. Len(s) + 1
  BY <1>6, OwnSeq
<1> QED
  BY <1>9, <1>10 DEF Once, r

LEMMA Removed ==
  ASSUME NEW s, Once(s), NEW i \in DOMAIN s
  PROVE  Once(RemoveAt(s, i))
<1> DEFINE X == ToSet(s)
           r == RemoveAt(s, i)
           p == SubSeq(s, 1, i - 1)
           q == SubSeq(s, i + 1, Len(s))
<1>1. s \in Seq(X) /\ Len(s) \in Nat /\ DOMAIN s = 1 .. Len(s) /\ i \in 1 .. Len(s)
  BY DEF Once
<1>2. /\ p \in Seq(X) /\ Len(p) = i - 1 /\ \A k \in 1 .. i - 1 : p[k] = s[k]
      /\ q \in Seq(X) /\ Len(q) = Len(s) - i
      /\ \A k \in 1 .. Len(s) - i : q[k] = s[i + k]
  <2>0. /\ s \in Seq(X)
        /\ 1 \in Int /\ i - 1 \in Int /\ 1 <= 1 /\ 1 <= (i - 1) + 1 /\ i - 1 <= Len(s)
        /\ i + 1 \in Int /\ Len(s) \in Int /\ 1 <= i + 1 /\ i + 1 <= Len(s) + 1 /\ Len(s) <= Len(s)
    BY <1>1
  <2>1. /\ p \in Seq(X) /\ Len(p) = (i - 1) + 1 - 1
        /\ \A k \in 1 .. (i - 1) + 1 - 1 : p[k] = s[1 + k - 1]
    <3> HIDE DEF X, r, q
    <3> QED
      BY <2>0, Part
  <2>2. /\ (i - 1) + 1 - 1 = i - 1 /\ \A k \in 1 .. i - 1 : 1 + k - 1 = k
        /\ Len(s) + 1 - (i + 1) = Len(s) - i
        /\ \A k \in 1 .. Len(s) - i : (i + 1) + k - 1 = i + k
    BY <1>1
  <2>3. /\ q \in Seq(X) /\ Len(q) = Len(s) + 1 - (i + 1)
        /\ \A k \in 1 .. Len(s) + 1 - (i + 1) : q[k] = s[(i + 1) + k - 1]
    <3> HIDE DEF X, r, p
    <3> QED
      BY <2>0, Part
  <2> QED
    BY ONLY <2>1, <2>2, <2>3
<1>3. r = p \o q
  BY DEF RemoveAt
<1> HIDE DEF p, q, X, r
<1>4. r \in Seq(X) /\ Len(r) = Len(s) - 1
      /\ \A k \in 1 .. Len(s) - 1 : r[k] = IF k <= i - 1 THEN p[k] ELSE q[k - (i - 1)]
  <2>1. (i - 1) + Len(q) = Len(s) - 1
    BY <1>1, <1>2
  <2>2. p \in Seq(X) /\ q \in Seq(X) /\ Len(p) = i - 1
    BY <1>2
  <2>3. /\ p \o q \in Seq(X) /\ Len(p \o q) = Len(p) + Len(q)
        /\ \A k \in 1 .. Len(p) + Len(q) : (p \o q)[k] = IF k <= Len(p) THEN p[k] ELSE q[k - Len(p)]
    BY ONLY <2>2, Joined
  <2> QED
    BY ONLY <1>3, <2>1, <2>2, <2>3
<1>5. \A x \in 1 .. Len(s) - 1 :
        \/ x < i /\ r[x] = s[x]
        \/ x >= i /\ x + 1 \in 1 .. Len(s) /\ r[x] = s[x + 1]
  <2> TAKE x \in 1 .. Len(s) - 1
  <2>1. CASE x < i
    BY <1>1, <1>2, <1>4, <2>1
  <2>2. CASE x >= i
    <3>1. x - (i - 1) \in 1 .. Len(s) - i /\ i + (x - (i - 1)) = x + 1 /\ ~(x <= i - 1)
          /\ x + 1 \in 1 .. Len(s)
      BY <1>1, <2>2
    <3> QED
      BY <1>2, <1>4, <2>2, <3>1
  <2> QED
    BY <1>1, <2>1, <2>2
<1>6. \A k, l \in 1 .. Len(s) : s[k].ref = s[l].ref => k = l
  BY <1>1 DEF Once
<1>7. ASSUME NEW k \in 1 .. Len(s) - 1, NEW l \in 1 .. Len(s) - 1, r[k].ref = r[l].ref
      PROVE  k = l
  <2>1. CASE k < i
    BY <1>1, <1>5, <1>6, <1>7, <2>1
  <2>2. CASE k >= i
    BY <1>1, <1>5, <1>6, <1>7, <2>2
  <2> QED
    BY <1>1, <2>1, <2>2
<1>8. r \in Seq(ToSet(r)) /\ DOMAIN r = 1 .. Len(s) - 1
  BY <1>1, <1>4, OwnSeq
<1> QED
  BY <1>7, <1>8 DEF Once, r

LEMMA ShownSnapshot == StackInv => Snapshot(Shown)
<1> SUFFICES ASSUME Once(members), base \in Nat PROVE Snapshot(Shown)
  BY DEF StackInv
<1> DEFINE n == Len(members)
           shown(i) == [pr |-> members[i].ref, head |-> heads[Origin][members[i].ref],
                        state |-> members[i].state]
           ms == [i \in DOMAIN members |-> shown(i)]
<1>1. n \in Nat /\ DOMAIN members = 1 .. n
  BY DEF Once
<1>2. ms \in Seq({shown(i) : i \in 1 .. n})
  BY <1>1
<1>3. ms \in Seq(ToSet(ms)) /\ DOMAIN ms = 1 .. n
  BY <1>1, <1>2, OwnSeq
<1>4. \A i \in 1 .. n : ms[i] = shown(i)
  BY <1>1
<1>5. Shown = [identity |-> open, members |-> ms, base |-> base]
  BY DEF Shown, WithBase, StackShown
<1> HIDE DEF ms, n
<1>6. \A m \in ToSet(ms) : m = [pr |-> m.pr, head |-> m.head, state |-> m.state]
  BY <1>3, <1>4 DEF ToSet
<1>7. \A i, j \in DOMAIN ms : ms[i].pr = ms[j].pr => i = j
  BY <1>1, <1>3, <1>4 DEF Once
<1> QED
  BY <1>3, <1>5, <1>6, <1>7 DEF Snapshot

-----------------------------------------------------------------------------
(* The readings under every step. *)

LEMMA ReadInit == StackInit => ReadInv
<1> SUFFICES ASSUME StackInit PROVE ReadInv
  OBVIOUS
<1>1. world \in Worlds
  BY DEF StackInit, PushInit
<1> DEFINE st == world.stack
<1>2. st \in Seq(world.refs) /\ \A i, j \in DOMAIN st : st[i] = st[j] => i = j
  BY <1>1, StackAssumption
<1>3. members = [i \in DOMAIN st |-> [ref |-> st[i], state |-> "open"]]
  BY DEF StackInit
<1> HIDE DEF st
<1>4. members \in Seq({[ref |-> r, state |-> "open"] : r \in world.refs})
  BY <1>2, <1>3
<1>5. Once(members)
  BY <1>2, <1>3, <1>4, OwnSeq DEF Once
<1> QED
  BY <1>5 DEF StackInit, ReadInv, StackInv, GotInv, KeptInv, VerdictTrue

\* What others do to the stack is not yet read.
LEMMA RestackKeeps == ReadInv /\ Restack => ReadInv'
<1> SUFFICES ASSUME ReadInv, Restack PROVE ReadInv'
  OBVIOUS
<1>1. UNCHANGED reading /\ Once(members) /\ base \in Nat
  BY DEF ReadInv, StackInv, Restack, Insert, Drop, Merge, Close, Advance, Stacks
<1>2. Once(members') /\ base' \in Nat /\ base <= base'
  <2>1. ASSUME NEW r \in Refs, Insert(r) PROVE Once(members') /\ base' = base
    <3>1. PICK i \in 1 .. Len(members) + 1 :
            members' = InsertAt(members, i, [ref |-> r, state |-> "open"])
      BY <2>1 DEF Insert
    <3>2. \A m \in ToSet(members) : m.ref # [ref |-> r, state |-> "open"].ref
      BY <2>1 DEF Insert
    <3> QED
      BY <1>1, <2>1, <3>1, <3>2, Inserted DEF Insert
  <2>2. ASSUME Drop PROVE Once(members') /\ base' = base
    BY <1>1, <2>2, Removed DEF Drop
  <2>3. ASSUME Merge PROVE Once(members') /\ base' = base
    <3>1. PICK i \in DOMAIN members : members' = [members EXCEPT ![i].state = "merged"]
      BY <2>3 DEF Merge
    <3> DEFINE X == ToSet(members) \union {[members[i] EXCEPT !.state = "merged"]}
    <3>2. members' = [members EXCEPT ![i] = [members[i] EXCEPT !.state = "merged"]]
      BY <3>1
    <3>3. members \in Seq(X) /\ DOMAIN members = 1 .. Len(members)
      BY <1>1 DEF Once
    <3>4. members' \in Seq(X) /\ DOMAIN members' = DOMAIN members
      BY <3>2, <3>3
    <3>5. \A k \in DOMAIN members : members'[k].ref = members[k].ref
      BY <1>1, <3>2 DEF Once
    <3>6. members' \in Seq(ToSet(members'))
      BY <3>4, OwnSeq
    <3>7. \A j, k \in DOMAIN members' : members'[j].ref = members'[k].ref => j = k
      BY <1>1, <3>4, <3>5 DEF Once
    <3> QED
      BY <2>3, <3>6, <3>7 DEF Once, Merge
  <2>4. ASSUME Close PROVE Once(members') /\ base' = base
    BY <1>1, <2>4 DEF Close
  <2>5. ASSUME Advance PROVE Once(members') /\ base' = base + 1
    BY <1>1, <2>5 DEF Advance
  <2> QED
    BY <1>1, <2>1, <2>2, <2>3, <2>4, <2>5 DEF Restack
<1>3. StackInv'
  BY <1>2 DEF StackInv
<1>4. GotInv'
  <2>1. /\ step' = step /\ verdict' = verdict /\ got' = got /\ is' = is
        /\ (Snapshot(is))' <=> Snapshot(is)
    BY <1>1 DEF reading, Snapshot
  <2>2. \A a \in Nat : a <= base => a <= base'
    BY ONLY <1>1, <1>2
  <2> QED
    BY <2>1, <2>2 DEF ReadInv, GotInv
<1>5. KeptInv' /\ VerdictTrue'
  BY <1>1 DEF ReadInv, KeptInv, VerdictTrue, reading, Snapshot, Reference, Evidence
<1> QED
  BY <1>1, <1>3, <1>4, <1>5 DEF ReadInv, reading

LEMMA Reflexive == \A n \in Nat : n <= n
OBVIOUS

LEMMA ReadKeeps == ReadInv /\ Observe => ReadInv'
<1> SUFFICES ASSUME ReadInv, Observe PROVE ReadInv'
  OBVIOUS
<1>1. UNCHANGED <<heads, members, open, base>> /\ StackInv /\ StackInv'
  BY DEF ReadInv, StackInv, Observe, ReadStack, ReadBase, ReadStackAgain, ReadBaseAgain,
         Reads, stack, pushVars, repository
<1> USE DEF ReadInv
<1>2. CASE ReadStack
  BY <1>1, <1>2 DEF ReadStack, GotInv, KeptInv, VerdictTrue, Snapshot
<1>3. CASE ReadBase
  <2>1. /\ step' = "stack again" /\ verdict' = NoVerdict /\ kept' = kept /\ was' = was
        /\ got'.base = base /\ base' = base /\ base \in Nat
    BY <1>1, <1>3 DEF ReadBase, WithBase, GotInv, StackInv
  <2>2. base <= base
    BY ONLY <2>1, Reflexive
  <2>3. GotInv'
    BY ONLY <2>1, <2>2 DEF GotInv
  <2>4. KeptInv' /\ VerdictTrue'
    BY <2>1 DEF KeptInv, VerdictTrue, Snapshot
  <2> QED
    BY <1>1, <2>1, <2>3, <2>4
<1>4. CASE ReadStackAgain
  <2>1. step = "stack again" /\ verdict = NoVerdict /\ got.base \in Nat /\ got.base <= base
    BY <1>4 DEF ReadStackAgain, GotInv
  <2>2. verdict' = NoVerdict /\ KeptInv' /\ VerdictTrue'
    BY <1>4, <2>1 DEF ReadStackAgain, KeptInv, VerdictTrue, Snapshot
  <2>3. CASE Legible /\ SameStack
    <3>1. step' = "base again" /\ is' = Shown /\ got' = WithBase(StackShown, got.base)
      BY <1>4, <2>3 DEF ReadStackAgain
    <3>2. Snapshot(is')
      BY <1>1, <3>1, ShownSnapshot
    <3>3. /\ is'.base = base /\ got'.base = got.base
          /\ got'.identity = is'.identity /\ got'.members = is'.members
      BY <3>1 DEF Shown, WithBase
    <3>4. base \in Nat /\ base' = base
      BY <1>1 DEF StackInv
    <3>5. verdict' = NoVerdict
      BY <2>2
    <3>6. got'.base \in Nat /\ is'.base \in Nat /\ got'.base <= is'.base /\ is'.base <= base'
      BY ONLY <2>1, <3>3, <3>4, Reflexive
    <3>7. GotInv'
      BY ONLY <3>1, <3>2, <3>3, <3>5, <3>6 DEF GotInv, Snapshot
    <3> QED
      BY <1>1, <2>2, <3>1, <3>7
  <2>4. CASE ~(Legible /\ SameStack)
    BY <1>1, <1>4, <2>2, <2>4 DEF ReadStackAgain, Again, GotInv
  <2> QED
    BY <2>3, <2>4
<1>5. CASE ReadBaseAgain
  <2>1. /\ verdict = NoVerdict /\ Snapshot(is) /\ is' = is /\ step' = "stack"
        /\ got.identity = is.identity /\ got.members = is.members
        /\ got.base \in Nat /\ is.base \in Nat /\ base \in Nat
        /\ got.base <= is.base /\ is.base <= base
    BY <1>1, <1>5 DEF ReadBaseAgain, Again, GotInv, StackInv
  <2>2. GotInv'
    BY <2>1 DEF GotInv
  <2>3. CASE ~SameBase
    BY <1>1, <1>5, <2>1, <2>2, <2>3 DEF ReadBaseAgain, KeptInv, VerdictTrue, Snapshot
  <2>4. ASSUME SameBase PROVE WithBase(got, base) = is
    <3>1. got.base = base
      BY <2>4 DEF SameBase
    <3>2. is.base = base
      BY ONLY <2>1, <3>1
    <3> QED
      BY <2>1, <3>2 DEF WithBase, Snapshot
  <2>5. CASE SameBase /\ kept = NoSnapshot
    <3>1. kept' = is' /\ was' = is' /\ verdict' = NoVerdict /\ Snapshot(is')
      BY <1>5, <2>1, <2>4, <2>5 DEF ReadBaseAgain
    <3> QED
      BY <1>1, <2>1, <2>2, <3>1 DEF KeptInv, VerdictTrue
  <2>6. CASE SameBase /\ kept # NoSnapshot
    <3>1. kept' = kept /\ was' = was /\ verdict' = Classified(kept, is)
      BY <1>5, <2>1, <2>4, <2>6 DEF ReadBaseAgain
    <3>2. kept = was /\ Snapshot(kept)
      BY <2>6 DEF KeptInv
    <3>3. verdict' = Reference(was, is)
      BY <2>1, <3>1, <3>2, Compared
    <3>4. VerdictTrue'
      BY <2>1, <3>1, <3>3 DEF VerdictTrue
    <3>5. KeptInv'
      BY <3>1, <3>2 DEF KeptInv
    <3> QED
      BY <1>1, <2>1, <2>2, <3>4, <3>5
  <2> QED
    BY <2>3, <2>5, <2>6
<1> QED
  BY <1>2, <1>3, <1>4, <1>5 DEF Observe

LEMMA ReadStep == ReadInv /\ [StackNext]_allVars => ReadInv'
<1> SUFFICES ASSUME ReadInv, [StackNext]_allVars PROVE ReadInv'
  OBVIOUS
<1>1. CASE UNCHANGED <<stack, reading>>
  <2>1. /\ UNCHANGED <<members, base, step, got, kept, verdict, was, is>>
    BY <1>1 DEF stack, reading
  <2>2. StackInv' /\ GotInv'
    BY <2>1 DEF ReadInv, StackInv, Once, GotInv, Snapshot
  <2>3. KeptInv' /\ VerdictTrue'
    BY <2>1 DEF ReadInv, KeptInv, VerdictTrue, Snapshot, Reference, Evidence
  <2> QED
    BY <2>1, <2>2, <2>3 DEF ReadInv
<1> QED
  BY <1>1, RestackKeeps, ReadKeeps DEF StackNext, allVars

\* A stack is read while pushes and others change it: what was read in four
\* requests is the stack and its base at one moment, and the caller's snapshot
\* is one as well.
THEOREM Moments == StackSpec => []ReadInv
<1> QED
  BY ReadInit, ReadStep, PTL DEF StackSpec

\* The verdict about two snapshots is the right one for the two moments, for
\* stacks of any size and whatever was inserted, dropped, merged or pushed.
THEOREM VerdictsAreTrue == StackSpec => []VerdictTrue
<1>1. ReadInv => VerdictTrue
  BY DEF ReadInv
<1> QED
  BY Moments, <1>1, PTL
=============================================================================
