---------------------------- MODULE LedgerProofs ----------------------------
(* Theorems about EventLedger: what ingest reports is in the ledger, once, the*)
(* ledger stays valid, a failed ingest is completed by repeating it, and what *)
(* is summed up is what the streams of a run have reached.                    *)
EXTENDS EventLedger, FiniteSetTheorems, WellFoundedInduction, TLAPS

Typed ==
    /\ world \in Worlds /\ failures \in Nat /\ late \in BOOLEAN
    /\ file \in Seq(ToSet(file))
    /\ ingest \in [Ingesters -> [pc : {"idle", "locked", "write", "closing"},
                                 batch : world.batches \union {<<>>},
                                 left : SUBSET Nat, part : Parts]]

\* Who holds the lock, and what it has read.
Holds(p) ==
    /\ ingest[p].pc \in {"locked", "write"} <=> lock = p
    /\ ingest[p].pc = "write" => admitted = p
    /\ ingest[p].left \subseteq DOMAIN ingest[p].batch
    /\ ingest[p].pc # "idle" =>
         ingest[p].batch \in world.batches /\ \A e \in ToSet(ingest[p].batch) : ValidEvent(e)

Locks == Typed /\ \A p \in Ingesters : Holds(p)

\* Nobody was admitted since p was: what p writes is in time.
Active(p) == admitted = p /\ ingest[p].pc \in {"write", "closing"}

\* A piece that is not the first of its line comes behind the one before it.
PartBefore(part) == IF part = "tail" THEN "head" ELSE "tail"
Joined == \A i \in DOMAIN file :
    /\ file[i] = Piece(file[i].event, file[i].part) /\ file[i].part \in Parts
    /\ file[i].part # "head" =>
         i - 1 \in DOMAIN file /\ file[i - 1] = Piece(file[i].event, PartBefore(file[i].part))

Distinct == \A i, j \in Heads : SameKey(file[i].event, file[j].event) => i = j

OnLine(e) == \E i \in Heads : file[i].event = e /\ OwnLine(i)
Recorded(A) == ~Glued => \A e \in A : OnLine(e)

Pending(p) == {ingest[p].batch[k] : k \in ingest[p].left}
Begun(p, k) == k = Min(ingest[p].left) /\ ingest[p].part # "head"

\* Where p is in its output, and that the rest of it is new.
Writer(p) ==
    /\ ingest[p].part # "head" =>
         /\ ingest[p].left # {} /\ Len(file) \in DOMAIN file
         /\ file[Len(file)] = Piece(NextEvent(p), PartBefore(ingest[p].part))
    /\ \A k \in ingest[p].left : Begun(p, k) \/
         \A i \in Heads : ~SameKey(ingest[p].batch[k], file[i].event)
    /\ \A k, l \in ingest[p].left :
         SameKey(ingest[p].batch[k], ingest[p].batch[l]) => k = l
    /\ Recorded(ToSet(ingest[p].batch) \ Pending(p))

InTime == ~late =>
    /\ Joined /\ Distinct /\ Recorded(acked)
    /\ \A p \in Ingesters : Active(p) => Writer(p)

ValidAll(E) == \A r \in RunIds(E) : ValidRun(OfRun(E, r), FALSE)
Ended == Len(file) \in DOMAIN file => file[Len(file)].part = "newline"

\* Without failures the ledger is valid, or will be when the batch is written.
Sound == failures = 0 =>
    /\ ~late /\ ~Glued /\ \A i \in Heads : ValidEvent(file[i].event)
    /\ \A p \in Ingesters :
         /\ ingest[p].pc # "closing"
         /\ ingest[p].pc = "write" =>
              /\ ValidAll(Events \union ToSet(ingest[p].batch))
              /\ ingest[p].part = "head" => Ended
    /\ (\A p \in Ingesters : ingest[p].pc # "write") => Ended /\ ValidAll(Events)

LInv == Locks /\ InTime /\ Sound

\* Whatever part of it is in the ledger already, a run with all of its last batch is valid.
Promised(E, r) == OfRun(E \union ToSet(last[r]), r)
Completable ==
    /\ RunIds(Events) \subseteq Runs
    /\ \A r \in Runs : Promised(Events, r) # {} => ValidRun(Promised(Events, r), FALSE)

\* Who writes in time writes the last batch of each of its runs.
Current == \A p \in Ingesters : Active(p) =>
    \A r \in RunIds(ToSet(ingest[p].batch)) : last[r] = ingest[p].batch

HInv == Locks /\ (~late => Completable /\ Current)

-----------------------------------------------------------------------------
(* Numbers and sequences. *)

LEMMA Least ==
  ASSUME NEW S \in SUBSET Nat, S # {}
  PROVE  Min(S) \in S /\ \A x \in S : Min(S) <= x
<1> DEFINE R == {p \in Nat \X Nat : p[1] < p[2]}
<1>1. IsWellFoundedOn(R, Nat)
  BY NatLessThanWellFounded DEF OpToRel
<1> HIDE DEF R
<1>2. PICK x \in S : \A y \in S : ~(<<y, x>> \in R)
  BY <1>1, WFMin
<1>3. \A y \in S : x <= y
  <2> TAKE y \in S
  <2>1. y < x => <<y, x>> \in R
    BY DEF R
  <2> QED
    BY <1>2, <2>1
<1> QED
  BY <1>3 DEF Min

LEMMA Greatest ==
  ASSUME NEW S \in SUBSET Nat, S # {}, NEW n \in Nat, \A x \in S : x <= n
  PROVE  Max(S) \in S /\ \A x \in S : x <= Max(S)
<1> DEFINE T == {n - x : x \in S}
<1>1. T \in SUBSET Nat /\ T # {}
  <2>1. \A x \in S : n - x \in Nat
    OBVIOUS
  <2> QED
    BY <2>1
<1> DEFINE y == Min(T)
<1>2. y \in T /\ \A z \in T : y <= z
  BY <1>1, Least
<1> HIDE DEF y
<1>3. PICK m \in S : y = n - m
  BY <1>2
<1>4. \A x \in S : m >= x
  BY <1>2, <1>3
<1> QED
  BY <1>4 DEF Max

\* A finite set of numbers is bounded.
LEMMA FiniteBound ==
  ASSUME NEW S \in SUBSET Nat, IsFiniteSet(S)
  PROVE  \E n \in Nat : \A x \in S : x <= n
<1>1. PICK m \in Nat : \E f : f \in Surjection(1 .. m, S)
  BY FS_NatSurjection DEF ExistsSurjection
<1>2. PICK f : f \in Surjection(1 .. m, S)
  BY <1>1
<1>3. f \in [1 .. m -> S] /\ \A x \in S : \E i \in 1 .. m : f[i] = x
  BY <1>2 DEF Surjection
<1>4. \A i \in 1 .. m : f[i] \in Nat
  <2>1. f \in [1 .. m -> Nat]
    BY <1>3
  <2> QED
    BY <2>1
<1> DEFINE B(k) == \E n \in Nat : \A i \in 1 .. k : f[i] <= n
           Bad == {k \in Nat : k <= m /\ ~B(k)}
<1>5. Bad = {}
  <2> SUFFICES ASSUME Bad # {} PROVE FALSE
    OBVIOUS
  <2> DEFINE k == Min(Bad)
  <2>1. k \in Bad /\ \A x \in Bad : k <= x
    <3>1. Bad \in SUBSET Nat
      OBVIOUS
    <3> HIDE DEF Bad
    <3> QED
      BY <3>1, Least
  <2> HIDE DEF k, B
  <2>2. B(0)
    <3>1. \A i \in 1 .. 0 : f[i] <= 0
      OBVIOUS
    <3> QED
      BY <3>1 DEF B
  <2>3. k \in Nat /\ k <= m /\ ~B(k) /\ k # 0 /\ k - 1 \in Nat
    BY <2>1, <2>2
  <2>4. B(k - 1)
    BY <2>1, <2>3
  <2>5. PICK n \in Nat : \A i \in 1 .. k - 1 : f[i] <= n
    BY <2>4 DEF B
  <2>6. \A i \in 1 .. k : f[i] \in Nat
    BY <1>4, <2>3
  <2>7. f[k] \in Nat
    <3>1. k \in 1 .. k
      BY <2>3
    <3> QED
      BY <2>6, <3>1
  <2>8. \A i \in 1 .. k : f[i] <= n + f[k]
    <3> TAKE i \in 1 .. k
    <3>1. i = k \/ i \in 1 .. k - 1
      BY <2>3
    <3> QED
      BY <2>5, <2>6, <2>7, <3>1
  <2> QED
    BY <2>3, <2>8, <2>7 DEF B
<1> HIDE DEF B
<1>6. B(m)
  BY <1>5
<1> QED
  BY <1>3, <1>6 DEF B

\* A sequence is one of its own elements.
LEMMA OwnSeq == \A X : \A s \in Seq(X) : s \in Seq(ToSet(s))
<1> SUFFICES ASSUME NEW X, NEW s \in Seq(X) PROVE s \in Seq(ToSet(s))
  OBVIOUS
<1>1. s \in [1 .. Len(s) -> X] /\ Len(s) \in Nat
  OBVIOUS
<1>2. s \in [1 .. Len(s) -> ToSet(s)]
  BY <1>1 DEF ToSet
<1> QED
  BY <1>1, <1>2

LEMMA OwnFunction ==
  ASSUME NEW n \in Nat, NEW s, s = [i \in 1 .. n |-> s[i]]
  PROVE  s \in Seq(ToSet(s)) /\ Len(s) = n /\ DOMAIN s = 1 .. n
<1>1. DOMAIN s = 1 .. n /\ \A i \in 1 .. n : s[i] \in ToSet(s)
  BY DEF ToSet
<1>2. s \in [1 .. n -> ToSet(s)]
  BY <1>1
<1> QED
  BY <1>1, <1>2

\* The file grew by x.
Grown(x) ==
    /\ Len(file) \in Nat /\ DOMAIN file = 1 .. Len(file)
    /\ Len(file') = Len(file) + 1 /\ DOMAIN file' = 1 .. Len(file) + 1
    /\ \A i \in 1 .. Len(file) : file'[i] = file[i]
    /\ file'[Len(file) + 1] = x

LEMMA Appended ==
  ASSUME file \in Seq(ToSet(file)), NEW x, file' = Append(file, x)
  PROVE  Grown(x) /\ file' \in Seq(ToSet(file'))
<1> DEFINE X == ToSet(file) \union {x}
<1>1. file \in Seq(X) /\ x \in X
  OBVIOUS
<1> HIDE DEF X
<1>2. /\ file' \in Seq(X) /\ Len(file') = Len(file) + 1 /\ Len(file) \in Nat
      /\ file'[Len(file) + 1] = x
  BY <1>1
<1>3. \A i \in 1 .. Len(file) : file'[i] = file[i]
  BY <1>1
<1>4. file' \in Seq(ToSet(file'))
  BY <1>2, OwnSeq
<1> QED
  BY <1>2, <1>3, <1>4 DEF Grown

LEMMA Thirds ==
  ASSUME NEW x \in Nat, NEW n \in Int, NEW r \in 0 .. 2, x = 3 * n + r
  PROVE  x % 3 = r /\ x \div 3 = n
<1>1. x % 3 = r
  OBVIOUS
<1>2. 3 * (x \div 3) <= x /\ x < 3 * (x \div 3) + 3 /\ x \div 3 \in Int
  OBVIOUS
<1> QED
  BY <1>1, <1>2

\* What a ledger of whole lines holds.
LEMMA TextAt ==
  ASSUME NEW L, L \in Seq(ToSet(L))
  PROVE  /\ Len(L) \in Nat /\ DOMAIN L = 1 .. Len(L)
         /\ Text(L) \in Seq(ToSet(Text(L))) /\ Len(Text(L)) = 3 * Len(L)
         /\ DOMAIN Text(L) = 1 .. 3 * Len(L)
         /\ \A k \in 1 .. Len(L) : /\ Text(L)[3 * k - 2] = Piece(L[k], "head")
                                   /\ Text(L)[3 * k - 1] = Piece(L[k], "tail")
                                   /\ Text(L)[3 * k] = Piece(L[k], "newline")
         /\ \A i \in 1 .. 3 * Len(L) : \E k \in 1 .. Len(L) : i \in {3 * k - 2, 3 * k - 1, 3 * k}
<1> DEFINE n == 3 * Len(L)
           T(i) == Piece(L[(i + 2) \div 3], CASE i % 3 = 1 -> "head" [] i % 3 = 2 -> "tail"
                                              [] i % 3 = 0 -> "newline")
           t == Text(L)
<1>1. Len(L) \in Nat /\ DOMAIN L = 1 .. Len(L) /\ n \in Nat
  OBVIOUS
<1>2. t = [i \in 1 .. n |-> T(i)]
  BY DEF Text
<1>whole. \A i, k : (i + 2) \div 3 = k =>
            /\ i % 3 = 1 => T(i) = Piece(L[k], "head")
            /\ i % 3 = 2 => T(i) = Piece(L[k], "tail")
            /\ i % 3 = 0 => T(i) = Piece(L[k], "newline")
  OBVIOUS
<1> HIDE DEF T, n, t
<1>3. t = [i \in 1 .. n |-> t[i]]
  BY <1>2
<1>4. t \in Seq(ToSet(t)) /\ Len(t) = n /\ DOMAIN t = 1 .. n
  BY <1>1, <1>3, OwnFunction
<1>5. ASSUME NEW k \in 1 .. Len(L)
      PROVE  /\ t[3 * k - 2] = Piece(L[k], "head")
             /\ t[3 * k - 1] = Piece(L[k], "tail")
             /\ t[3 * k] = Piece(L[k], "newline")
  <2>1. k \in Nat /\ k >= 1 /\ {3 * k - 2, 3 * k - 1, 3 * k} \subseteq 1 .. n
    BY <1>1 DEF n
  <2>2. /\ (3 * k - 2) % 3 = 1 /\ (3 * k - 2 + 2) \div 3 = k
        /\ (3 * k - 1) % 3 = 2 /\ (3 * k - 1 + 2) \div 3 = k
        /\ (3 * k) % 3 = 0 /\ (3 * k + 2) \div 3 = k
    <3>1. (3 * k - 2) % 3 = 1 /\ (3 * k - 1) % 3 = 2 /\ (3 * k) % 3 = 0
      <4>1. 3 * k - 2 = 3 * (k - 1) + 1 /\ 3 * k - 1 = 3 * (k - 1) + 2 /\ 3 * k = 3 * k + 0
        BY <2>1
      <4> QED
        BY <2>1, <4>1, Thirds
    <3>2. \A r \in 0 .. 2 : (3 * k + r) \div 3 = k
      BY <2>1, Thirds
    <3>3. 3 * k - 2 + 2 = 3 * k + 0 /\ 3 * k - 1 + 2 = 3 * k + 1
      BY <2>1
    <3> QED
      BY <3>1, <3>2, <3>3
  <2>3. /\ T(3 * k - 2) = Piece(L[k], "head")
        /\ T(3 * k - 1) = Piece(L[k], "tail")
        /\ T(3 * k) = Piece(L[k], "newline")
    BY <1>whole, <2>2
  <2> QED
    BY <1>2, <2>1, <2>3
<1>6. ASSUME NEW i \in 1 .. n
      PROVE  \E k \in 1 .. Len(L) : i \in {3 * k - 2, 3 * k - 1, 3 * k}
  <2> DEFINE k == (i + 2) \div 3
  <2>1. i \in Nat /\ i >= 1 /\ i <= 3 * Len(L)
    BY <1>1 DEF n
  <2>2. k \in Int /\ 3 * k <= i + 2 /\ i + 2 < 3 * k + 3
    BY <2>1
  <2> HIDE DEF k
  <2>3. k \in 1 .. Len(L) /\ i \in {3 * k - 2, 3 * k - 1, 3 * k}
    BY <1>1, <2>1, <2>2
  <2> QED
    BY <2>3
<1> QED
  BY <1>1, <1>4, <1>5, <1>6 DEF t, n

-----------------------------------------------------------------------------
(* Who holds the lock. *)

LEMMA Fits ==
  ASSUME world \in Worlds, NEW b \in world.batches
  PROVE  b \in Seq(ToSet(b)) /\ Len(b) \in Nat /\ DOMAIN b = 1 .. Len(b)
<1>1. b \in Seq(ToSet(b))
  BY LedgerAssumption
<1> QED
  BY <1>1

LEMMA BatchRuns ==
  ASSUME NEW b \in world.batches
  PROVE  RunIds(ToSet(b)) \subseteq Runs
BY DEF Runs, RunIds

LEMMA LocksInit ==
  ASSUME Init
  PROVE  Locks
<1>1. world \in Worlds /\ world.legacy \in Seq(ToSet(world.legacy))
  BY LedgerAssumption DEF Init
<1>2. file \in Seq(ToSet(file))
  BY <1>1, TextAt DEF Init
<1>3. \A p \in Ingesters : ingest[p] = [pc |-> "idle", batch |-> <<>>, left |-> {}, part |-> "head"]
  BY DEF Init, Idle
<1>4. Typed
  BY <1>1, <1>2 DEF Init, Typed, Idle, Parts
<1>5. \A p \in Ingesters : Holds(p)
  BY <1>3, LedgerAssumption DEF Init, Holds, Nobody
<1> QED
  BY <1>4, <1>5 DEF Locks

\* What a step that leaves the file alone may do: p moves to where it holds.
LEMMA Moved ==
  ASSUME Typed, UNCHANGED <<world, file>>, late' \in BOOLEAN, failures' \in Nat,
         NEW p \in Ingesters,
         NEW i \in [pc : {"idle", "locked", "write", "closing"},
                    batch : world.batches \union {<<>>}, left : SUBSET Nat, part : Parts],
         ingest' = [ingest EXCEPT ![p] = i]
  PROVE  Typed' /\ ingest'[p] = i /\ \A q \in Ingesters : q # p => ingest'[q] = ingest[q]
BY DEF Typed

\* Whoever has the lock, nobody else has it.
LEMMA Alone ==
  ASSUME Locks, NEW p \in Ingesters, ingest[p].pc \in {"locked", "write"}
  PROVE  lock = p /\ \A q \in Ingesters : ingest[q].pc \in {"locked", "write"} => q = p
BY DEF Locks, Holds

LEMMA Unlocked ==
  ASSUME Locks, lock = Nobody
  PROVE  \A q \in Ingesters : ingest[q].pc \in {"idle", "closing"}
BY LedgerAssumption DEF Locks, Holds, Typed, Nobody

LEMMA LocksLock ==
  ASSUME Locks, NEW p \in Ingesters, NEW batch \in world.batches, Lock(p, batch)
  PROVE  /\ Locks' /\ ingest'[p] = [pc |-> "locked", batch |-> batch, left |-> {}, part |-> "head"]
         /\ \A q \in Ingesters : q # p => ingest'[q] = ingest[q]
<1> DEFINE i == [pc |-> "locked", batch |-> batch, left |-> {}, part |-> "head"]
<1>1. i.pc = "locked" /\ i.batch = batch /\ i.left = {} /\ i.part = "head"
  OBVIOUS
<1>2. i \in [pc : {"idle", "locked", "write", "closing"},
             batch : world.batches \union {<<>>}, left : SUBSET Nat, part : Parts]
  BY DEF Parts
<1> HIDE DEF i
<1>3. /\ ingest' = [ingest EXCEPT ![p] = i] /\ lock = Nobody /\ lock' = p
      /\ UNCHANGED <<world, file, failures, admitted, late>>
      /\ \A e \in ToSet(batch) : ValidEvent(e)
  BY DEF i, Lock, LockFree, Accepts
<1>4. Typed' /\ ingest'[p] = i /\ \A q \in Ingesters : q # p => ingest'[q] = ingest[q]
  BY <1>2, <1>3, Moved DEF Locks, Typed
<1>5. Holds(p)'
  BY <1>1, <1>3, <1>4 DEF Holds
<1>6. ASSUME NEW q \in Ingesters, q # p PROVE Holds(q)'
  <2>1. ingest[q].pc \in {"idle", "closing"}
    BY <1>3, Unlocked
  <2> QED
    BY <1>3, <1>4, <1>6, <2>1 DEF Locks, Holds
<1> QED
  BY <1>4, <1>5, <1>6 DEF Locks, i

\* p goes back to the start, and no longer has the lock if it had it.
LEMMA LocksIdle ==
  ASSUME Locks, NEW p \in Ingesters, ingest' = [ingest EXCEPT ![p] = Idle],
         IF ingest[p].pc \in {"locked", "write"} THEN lock' = Nobody ELSE lock' = lock,
         UNCHANGED <<world, file, admitted, late>>, failures' \in Nat
  PROVE  /\ Locks' /\ ingest'[p] = Idle
         /\ \A q \in Ingesters : q # p => ingest'[q] = ingest[q]
<1>1. Idle \in [pc : {"idle", "locked", "write", "closing"},
                batch : world.batches \union {<<>>}, left : SUBSET Nat, part : Parts]
  BY DEF Idle, Parts
<1>2. Typed' /\ ingest'[p] = Idle /\ \A q \in Ingesters : q # p => ingest'[q] = ingest[q]
  BY <1>1, Moved DEF Locks, Typed
<1>3. Holds(p)'
  <2>1. ingest'[p].pc = "idle" /\ ingest'[p].left = {} /\ ingest'[p].batch = <<>>
    BY <1>2 DEF Idle
  <2>2. lock' # p
    BY LedgerAssumption DEF Locks, Holds, Nobody
  <2> QED
    BY <2>1, <2>2 DEF Holds
<1>4. ASSUME NEW q \in Ingesters, q # p PROVE Holds(q)'
  <2>1. (lock' = q) <=> (lock = q)
    BY <1>4, LedgerAssumption DEF Locks, Holds, Nobody
  <2> QED
    BY <1>2, <1>4, <2>1 DEF Locks, Holds
<1> QED
  BY <1>2, <1>3, <1>4 DEF Locks

\* What p writes when its batch was admitted.
LEMMA LocksAdmit ==
  ASSUME Locks, NEW p \in Ingesters, Admit(p), Parses, Admissible(Events, ingest[p].batch)
  PROVE  /\ Locks' /\ admitted' = p
         /\ ingest'[p] = [pc |-> "write", batch |-> ingest[p].batch,
                          left |-> New(Events, ingest[p].batch), part |-> "head"]
         /\ \A q \in Ingesters : q # p => ingest'[q] = ingest[q]
<1> DEFINE b == ingest[p].batch
           n == New(Events, b)
           i == [pc |-> "write", batch |-> b, left |-> n, part |-> "head"]
<1>1. /\ ingest[p] \in [pc : {"idle", "locked", "write", "closing"},
                        batch : world.batches \union {<<>>}, left : SUBSET Nat, part : Parts]
      /\ ingest[p].pc = "locked" /\ b \in world.batches
      /\ \A e \in ToSet(b) : ValidEvent(e)
  BY DEF Locks, Holds, Typed, Admit
<1>2. n \subseteq DOMAIN b /\ DOMAIN b \subseteq Nat
  BY <1>1, Fits DEF New, Locks, Typed
<1>3. /\ ingest' = [ingest EXCEPT ![p] = i]
      /\ UNCHANGED <<world, file, failures, late, lock>> /\ admitted' = p
  BY DEF Admit
<1>4. i \in [pc : {"idle", "locked", "write", "closing"},
             batch : world.batches \union {<<>>}, left : SUBSET Nat, part : Parts]
  BY <1>1, <1>2 DEF Parts
<1>5. Typed' /\ ingest'[p] = i /\ \A q \in Ingesters : q # p => ingest'[q] = ingest[q]
  <2> HIDE DEF i
  <2> QED
    BY <1>3, <1>4, Moved DEF Locks, Typed
<1>6. lock = p /\ \A q \in Ingesters : ingest[q].pc \in {"locked", "write"} => q = p
  BY <1>1, Alone
<1>whole. i.pc = "write" /\ i.batch = b /\ i.left = n /\ i.part = "head"
  OBVIOUS
<1> HIDE DEF n, b, i
<1>7. Holds(p)'
  BY <1>1, <1>2, <1>3, <1>5, <1>6, <1>whole DEF Holds
<1>8. ASSUME NEW q \in Ingesters, q # p PROVE Holds(q)'
  BY <1>3, <1>5, <1>6, <1>8 DEF Locks, Holds
<1> QED
  BY <1>3, <1>5, <1>7, <1>8 DEF Locks, b, n, i

LEMMA LocksClosing ==
  ASSUME Locks, NEW p \in Ingesters, ingest[p].pc = "write", lock' = Nobody,
         ingest' = [ingest EXCEPT ![p].pc = "closing"],
         UNCHANGED <<world, file, admitted, late>>, failures' \in Nat
  PROVE  /\ Locks' /\ ingest'[p] = [ingest[p] EXCEPT !.pc = "closing"]
         /\ \A q \in Ingesters : q # p => ingest'[q] = ingest[q]
<1> DEFINE old == ingest[p]
           i == [old EXCEPT !.pc = "closing"]
<1>1. old \in [pc : {"idle", "locked", "write", "closing"},
               batch : world.batches \union {<<>>}, left : SUBSET Nat, part : Parts]
  BY DEF Locks, Typed
<1>2. ingest' = [ingest EXCEPT ![p] = i]
  OBVIOUS
<1>3. /\ i \in [pc : {"idle", "locked", "write", "closing"},
                batch : world.batches \union {<<>>}, left : SUBSET Nat, part : Parts]
      /\ i.pc = "closing" /\ i.batch = old.batch /\ i.left = old.left
  <2> HIDE DEF old
  <2> QED
    BY <1>1
<1>4. Typed' /\ ingest'[p] = i /\ \A q \in Ingesters : q # p => ingest'[q] = ingest[q]
  <2> HIDE DEF i
  <2> QED
    BY <1>2, <1>3, Moved DEF Locks, Typed
<1>5. lock = p /\ \A q \in Ingesters : ingest[q].pc \in {"locked", "write"} => q = p
  BY Alone
<1> HIDE DEF i
<1>6. Holds(p)'
  BY <1>3, <1>4, LedgerAssumption DEF Locks, Holds, Nobody
<1>7. ASSUME NEW q \in Ingesters, q # p PROVE Holds(q)'
  BY <1>4, <1>5, <1>7, LedgerAssumption DEF Locks, Holds, Nobody
<1> QED
  BY <1>4, <1>6, <1>7 DEF Locks, i

LEMMA LocksWrite ==
  ASSUME Locks, NEW p \in Ingesters, Write(p)
  PROVE  /\ Locks' /\ Grown(NextPiece(p))
         /\ ingest'[p] = Written(ingest[p]) /\ ingest[p].left # {}
         /\ ingest[p].pc \in {"write", "closing"}
         /\ \A q \in Ingesters : q # p => ingest'[q] = ingest[q]
<1> DEFINE i == Written(ingest[p])
           x == NextPiece(p)
<1>1. /\ file' = Append(file, x) /\ ingest' = [ingest EXCEPT ![p] = i]
      /\ UNCHANGED <<world, lock, failures, admitted>>
      /\ late' = (late \/ (ingest[p].pc = "closing" /\ admitted # p))
      /\ ingest[p].left # {} /\ ingest[p].pc \in {"write", "closing"}
  BY DEF Write, Writing
<1>2. /\ ingest[p] \in [pc : {"idle", "locked", "write", "closing"},
                        batch : world.batches \union {<<>>}, left : SUBSET Nat, part : Parts]
      /\ Typed /\ file \in Seq(ToSet(file))
  BY DEF Locks, Typed
<1>3. Following(ingest[p].part) \in Parts
  BY <1>2 DEF Following, Parts
<1>4. /\ i \in [pc : {"idle", "locked", "write", "closing"},
                batch : world.batches \union {<<>>}, left : SUBSET Nat, part : Parts]
      /\ i.pc = ingest[p].pc /\ i.batch = ingest[p].batch /\ i.left \subseteq ingest[p].left
  BY <1>2, <1>3 DEF Written
<1> HIDE DEF i, x
<1>5. Grown(x) /\ file' \in Seq(ToSet(file'))
  BY <1>1, <1>2, Appended
<1>6. Typed' /\ ingest'[p] = i /\ \A q \in Ingesters : q # p => ingest'[q] = ingest[q]
  BY <1>1, <1>2, <1>4, <1>5 DEF Typed
<1>7. \A q \in Ingesters : Holds(q)'
  BY <1>1, <1>4, <1>6 DEF Locks, Holds
<1> QED
  BY <1>1, <1>5, <1>6, <1>7 DEF Locks, i, x

LEMMA LocksNext ==
  ASSUME Locks, [Next]_vars
  PROVE  Locks'
<1>1. CASE UNCHANGED vars
  BY <1>1 DEF vars, Locks, Typed, Holds
<1>2. CASE Next
  <2>1. world.ingesters \subseteq Ingesters
    BY LedgerAssumption DEF Locks, Typed
  <2>2. PICK p \in Ingesters :
          \/ \E batch \in world.batches : Lock(p, batch)
          \/ Admit(p) \/ Write(p) \/ Commit(p) \/ Fail(p) \/ Closed(p)
    BY <1>2, <2>1 DEF Next
  <2>f. failures \in Nat /\ failures + 1 \in Nat
    BY DEF Locks, Typed
  <2>3. CASE \E batch \in world.batches : Lock(p, batch)
    BY <2>3, LocksLock
  <2>4. CASE Admit(p)
    <3>1. CASE Parses /\ Admissible(Events, ingest[p].batch)
      BY <2>4, <3>1, LocksAdmit
    <3>2. CASE ~(Parses /\ Admissible(Events, ingest[p].batch))
      BY <2>4, <2>f, <3>2, LocksIdle DEF Admit, Release
    <3> QED
      BY <3>1, <3>2
  <2>5. CASE Write(p)
    BY <2>5, LocksWrite
  <2>6. CASE Commit(p)
    BY <2>6, <2>f, LocksIdle DEF Commit, Release
  <2>7. CASE Fail(p)
    <3>1. CASE Release(p)
      BY <2>7, <2>f, <3>1, LocksIdle DEF Fail, Release
    <3>2. CASE ~Release(p)
      BY <2>7, <2>f, <3>2, LocksClosing DEF Fail, Writing
    <3> QED
      BY <3>1, <3>2
  <2>8. CASE Closed(p)
    BY <2>8, <2>f, LocksIdle DEF Closed
  <2> QED
    BY <2>2, <2>3, <2>4, <2>5, <2>6, <2>7, <2>8
<1> QED
  BY <1>1, <1>2

-----------------------------------------------------------------------------
(* What is in the file. *)

LEMMA SameFile ==
  ASSUME UNCHANGED file
  PROVE  /\ Joined' = Joined /\ Distinct' = Distinct /\ Glued' = Glued /\ Ended' = Ended
         /\ Heads' = Heads /\ Events' = Events /\ Parses' = Parses
         /\ \A e : OnLine(e)' = OnLine(e)
<1>1. Heads' = Heads /\ Glued' = Glued /\ \A i : OwnLine(i)' = OwnLine(i)
  BY DEF Heads, Glued, OwnLine
<1>2. \A e : OnLine(e)' = OnLine(e)
  BY <1>1 DEF OnLine
<1> QED
  BY <1>1, <1>2 DEF Joined, Distinct, Ended, Events, Parses

\* A step that writes nothing, after which fewer may still write in time.
LEMMA Kept ==
  ASSUME InTime, UNCHANGED <<file, late, acked>>,
         \A q \in Ingesters : Active(q)' =>
           /\ Active(q) /\ ingest'[q].batch = ingest[q].batch
           /\ ingest'[q].left = ingest[q].left /\ ingest'[q].part = ingest[q].part
  PROVE  InTime'
<1> SUFFICES ASSUME ~late
             PROVE  /\ Joined' /\ Distinct' /\ Recorded(acked)'
                    /\ \A q \in Ingesters : Active(q)' => Writer(q)'
  BY DEF InTime
<1>1. /\ Joined /\ Distinct /\ Recorded(acked)
      /\ \A q \in Ingesters : Active(q) => Writer(q)
  BY DEF InTime
<1>2. /\ Joined' = Joined /\ Distinct' = Distinct /\ Heads' = Heads
  BY SameFile
<1>3. Joined' /\ Distinct' /\ Recorded(acked)'
  <2>1. ~Glued' => \A e \in acked : OnLine(e)'
    BY <1>1, SameFile DEF Recorded
  <2> QED
    BY <1>1, <1>2, <2>1 DEF Recorded
<1>4. ASSUME NEW q \in Ingesters, Active(q)' PROVE Writer(q)'
  <2>1. /\ ingest'[q].batch = ingest[q].batch
        /\ ingest'[q].left = ingest[q].left /\ ingest'[q].part = ingest[q].part /\ Writer(q)
    BY <1>1, <1>4
  <2>2. NextEvent(q)' = NextEvent(q) /\ Pending(q)' = Pending(q)
        /\ \A k : Begun(q, k)' = Begun(q, k)
    BY <2>1 DEF NextEvent, Pending, Begun
  <2>3. Recorded(ToSet(ingest[q].batch) \ Pending(q))'
    <3> DEFINE A == ToSet(ingest[q].batch) \ Pending(q)
    <3>1. A' = A
      BY <2>1, <2>2
    <3>2. Recorded(A)
      BY <2>1 DEF Writer
    <3>3. ~Glued' => \A e \in A : OnLine(e)'
      BY <3>2, SameFile DEF Recorded
    <3> QED
      BY <3>1, <3>3 DEF Recorded
  <2> QED
    BY <1>2, <2>1, <2>2, <2>3 DEF Writer
<1> QED
  BY <1>3, <1>4

\* What a piece adds.
LEMMA GrownHeads ==
  ASSUME NEW e, NEW part \in Parts, Grown(Piece(e, part))
  PROVE  /\ \A i \in DOMAIN file : i \in DOMAIN file' /\ file'[i] = file[i]
         /\ \A i \in DOMAIN file' : i \in DOMAIN file \/ i = Len(file) + 1
         /\ Len(file) + 1 \in DOMAIN file' /\ Len(file) + 1 \notin DOMAIN file
         /\ file'[Len(file) + 1].event = e /\ file'[Len(file) + 1].part = part
         /\ Heads' = IF part = "head" THEN Heads \union {Len(file) + 1} ELSE Heads
         /\ Events' = IF part = "head" THEN Events \union {e} ELSE Events
<1> DEFINE n == Len(file)
<1>1. /\ n \in Nat /\ DOMAIN file = 1 .. n /\ DOMAIN file' = 1 .. n + 1
      /\ \A i \in 1 .. n : file'[i] = file[i]
      /\ file'[n + 1].event = e /\ file'[n + 1].part = part
  BY DEF Grown, Piece
<1> HIDE DEF n
<1>2. Heads' = IF part = "head" THEN Heads \union {n + 1} ELSE Heads
  <2>1. \A i \in 1 .. n + 1 : i \in 1 .. n \/ i = n + 1
    BY <1>1
  <2>2. \A i \in 1 .. n : i \in 1 .. n + 1
    BY <1>1
  <2>3. \A i : i \in Heads' <=> i \in Heads \/ (i = n + 1 /\ part = "head")
    BY <1>1, <2>1, <2>2 DEF Heads
  <2> QED
    BY <2>3
<1>3. Events' = IF part = "head" THEN Events \union {e} ELSE Events
  <2>1. \A i \in Heads : file'[i] = file[i]
    BY <1>1 DEF Heads
  <2> QED
    BY <1>1, <1>2, <2>1 DEF Events
<1> QED
  BY <1>1, <1>2, <1>3 DEF n

\* Lines stay as they are, unless the text of another event is glued to them.
LEMMA GrownLines ==
  ASSUME NEW e, NEW part \in Parts, Grown(Piece(e, part)), Joined', ~Glued'
  PROVE  ~Glued /\ \A f : OnLine(f) => OnLine(f)'
<1> DEFINE n == Len(file)
<1>1. /\ \A i \in DOMAIN file : i \in DOMAIN file' /\ file'[i] = file[i]
      /\ \A i \in DOMAIN file' : i \in DOMAIN file \/ i = n + 1
      /\ n + 1 \in DOMAIN file' /\ n + 1 \notin DOMAIN file
      /\ file'[n + 1].event = e /\ file'[n + 1].part = part
      /\ Heads \subseteq Heads'
  BY GrownHeads
<1>2. n \in Nat /\ DOMAIN file = 1 .. n /\ Heads \subseteq DOMAIN file
  BY DEF Grown, Heads
<1> HIDE DEF n
<1>3. ~Glued
  BY <1>1, <1>2 DEF Glued
<1>4. ASSUME NEW i \in Heads, OwnLine(i) PROVE OwnLine(i)'
  <2>1. i \in 1 .. n /\ i + 1 \in DOMAIN file /\ i - 1 # n + 1
    BY <1>2, <1>4 DEF OwnLine
  <2>2. i + 1 # n + 1
    BY <1>1, <2>1
  <2>3. /\ i - 1 \in DOMAIN file' => file'[i - 1].part = "newline"
        /\ i + 1 \in DOMAIN file'
        /\ file'[i + 1] = Piece(file'[i].event, "tail")
    <3>1. i \in DOMAIN file /\ file'[i] = file[i] /\ file'[i + 1] = file[i + 1]
      BY <1>1, <1>2, <2>1
    <3>2. i - 1 \in DOMAIN file' => i - 1 \in DOMAIN file /\ file'[i - 1] = file[i - 1]
      BY <1>1, <2>1
    <3> QED
      BY <1>1, <1>4, <2>1, <3>1, <3>2 DEF OwnLine
  <2>4. ASSUME i + 2 \in DOMAIN file' PROVE file'[i + 2].part = "newline"
    <3>1. CASE i + 2 \in DOMAIN file
      BY <1>1, <1>4, <3>1 DEF OwnLine
    <3>2. CASE i + 2 \notin DOMAIN file
      <4>1. i + 2 = n + 1
        BY <1>1, <2>4, <3>2
      <4> DEFINE m == i + 2
      <4>2. m - 1 = i + 1 /\ m - 1 \in DOMAIN file' /\ m \in DOMAIN file' /\ file'[m].part = part
        BY <1>1, <1>2, <2>1, <2>3, <4>1
      <4>3. file'[m - 1].part = "tail" /\ file'[m - 1].part # "head"
        BY <2>3, <4>2 DEF Piece
      <4> HIDE DEF m
      <4>4. part # "head"
        BY <1>3, <4>2, <4>3 DEF Glued, Heads
      <4>5. part # "tail"
        <5>1. part = "tail" => file'[m - 1] = Piece(file'[m].event, "head")
          BY <4>2 DEF Joined, PartBefore
        <5> QED
          BY <4>3, <5>1 DEF Piece
      <4> QED
        BY <1>1, <4>1, <4>4, <4>5 DEF Parts
    <3> QED
      BY <3>1, <3>2
  <2> QED
    BY <2>3, <2>4 DEF OwnLine
<1>5. \A i \in Heads : i \in Heads' /\ file'[i].event = file[i].event
  BY <1>1, <1>2
<1> QED
  BY <1>3, <1>4, <1>5 DEF OnLine

\* Only the ingester that was admitted last writes in time.
LEMMA InTimeWriter ==
  ASSUME Locks, NEW p \in Ingesters, Write(p), ~late'
  PROVE  ~late /\ Active(p) /\ admitted' = admitted
BY DEF Write, Writing, Locks, Holds, Active

\* The event that is written is one of the batch.
LEMMA NextOfBatch ==
  ASSUME Locks, NEW p \in Ingesters, ingest[p].left # {}, ingest[p].pc # "idle"
  PROVE  /\ Min(ingest[p].left) \in ingest[p].left
         /\ NextEvent(p) \in ToSet(ingest[p].batch) /\ ValidEvent(NextEvent(p))
<1>1. /\ ingest[p].left \in SUBSET Nat /\ ingest[p].left \subseteq DOMAIN ingest[p].batch
      /\ \A e \in ToSet(ingest[p].batch) : ValidEvent(e)
  BY DEF Locks, Typed, Holds
<1>2. Min(ingest[p].left) \in ingest[p].left
  BY <1>1, Least
<1> QED
  BY <1>1, <1>2 DEF NextEvent, ToSet

\* The piece is glued to nothing it does not belong to, and its event is new.
LEMMA WriteFile ==
  ASSUME Locks, NEW p \in Ingesters, Write(p), Joined, Distinct, Writer(p)
  PROVE  Joined' /\ Distinct'
<1> DEFINE e == NextEvent(p)
           q == ingest[p].part
           n == Len(file)
<1>1. /\ Grown(Piece(e, q)) /\ ingest[p].left # {} /\ q \in Parts
      /\ Min(ingest[p].left) \in ingest[p].left
  BY LocksWrite, NextOfBatch DEF NextPiece, Locks, Typed
<1>2. /\ \A i \in DOMAIN file : i \in DOMAIN file' /\ file'[i] = file[i]
      /\ \A i \in DOMAIN file' : i \in DOMAIN file \/ i = n + 1
      /\ n + 1 \in DOMAIN file'
      /\ file'[n + 1].event = e /\ file'[n + 1].part = q
      /\ Heads' = IF q = "head" THEN Heads \union {n + 1} ELSE Heads
  BY <1>1, GrownHeads
<1>3. file'[n + 1] = Piece(e, q) /\ n \in Nat
  BY <1>1 DEF Grown
<1>4. q # "head" => n \in DOMAIN file /\ file[n] = Piece(e, PartBefore(q))
  BY DEF Writer
<1>5. q = "head" => \A i \in Heads : ~SameKey(e, file[i].event)
  BY <1>1 DEF Writer, Begun, NextEvent
<1> HIDE DEF e, q, n
<1>6. Joined'
  <2> SUFFICES ASSUME NEW i \in DOMAIN file'
               PROVE  /\ file'[i] = Piece(file'[i].event, file'[i].part) /\ file'[i].part \in Parts
                      /\ file'[i].part # "head" =>
                           /\ i - 1 \in DOMAIN file'
                           /\ file'[i - 1] = Piece(file'[i].event, PartBefore(file'[i].part))
    BY DEF Joined
  <2>1. CASE i \in DOMAIN file
    <3>1. /\ file[i] = Piece(file[i].event, file[i].part) /\ file[i].part \in Parts
          /\ file[i].part # "head" =>
               /\ i - 1 \in DOMAIN file
               /\ file[i - 1] = Piece(file[i].event, PartBefore(file[i].part))
      BY <2>1 DEF Joined
    <3> QED
      BY <1>2, <2>1, <3>1
  <2>2. CASE i = n + 1
    <3>1. i - 1 = n
      BY <1>3, <2>2
    <3>2. q # "head" => n \in DOMAIN file' /\ file'[n] = Piece(e, PartBefore(q))
      BY <1>2, <1>4
    <3> QED
      BY <1>1, <1>2, <1>3, <2>2, <3>1, <3>2 DEF q
  <2> QED
    BY <1>2, <2>1, <2>2
<1>7. Distinct'
  <2>1. \A i \in Heads : i \in DOMAIN file /\ file'[i] = file[i]
    BY <1>2 DEF Heads
  <2>2. \A i, j \in Heads : SameKey(file'[i].event, file'[j].event) => i = j
    BY <2>1 DEF Distinct
  <2>3. q = "head" => \A i \in Heads : ~SameKey(e, file'[i].event) /\ ~SameKey(file'[i].event, e)
    BY <1>5, <2>1 DEF SameKey
  <2> QED
    BY <1>2, <2>2, <2>3 DEF Distinct
<1> QED
  BY <1>6, <1>7

\* Where p is when the piece is in the file.
LEMMA WriteOn ==
  ASSUME Locks, NEW p \in Ingesters, Write(p), Joined', Joined, Writer(p)
  PROVE  Writer(p)'
<1> DEFINE e == NextEvent(p)
           q == ingest[p].part
           n == Len(file)
           b == ingest[p].batch
           old == ingest[p].left
           new == ingest'[p].left
           m == Min(old)
<1>1. /\ Grown(Piece(e, q)) /\ old # {} /\ q \in Parts /\ m \in old /\ e = b[m]
      /\ ingest'[p] = Written(ingest[p]) /\ old \in SUBSET Nat
  BY LocksWrite, NextOfBatch DEF NextPiece, NextEvent, Locks, Typed, Write
<1>2. /\ ingest'[p].batch = b /\ ingest'[p].part = Following(q)
      /\ new = IF q = "newline" THEN old \ {m} ELSE old
  BY <1>1 DEF Written
<1>3. /\ \A i \in DOMAIN file : i \in DOMAIN file' /\ file'[i] = file[i]
      /\ n + 1 \in DOMAIN file'
      /\ file'[n + 1].event = e /\ file'[n + 1].part = q
      /\ Heads' = IF q = "head" THEN Heads \union {n + 1} ELSE Heads
  BY <1>1, GrownHeads
<1>4. file'[n + 1] = Piece(e, q) /\ n \in Nat /\ Len(file') = n + 1
  BY <1>1 DEF Grown
<1>5. /\ \A k \in old : (k = m /\ q # "head") \/ \A i \in Heads : ~SameKey(b[k], file[i].event)
      /\ \A k, l \in old : SameKey(b[k], b[l]) => k = l
      /\ Recorded(ToSet(b) \ Pending(p))
  BY DEF Writer, Begun
<1>6. Min(old) = m
  OBVIOUS
<1>7. Pending(p) = {b[k] : k \in old} /\ Pending(p)' = {b[k] : k \in new}
  BY <1>2 DEF Pending
<1>8. ~Glued' => ~Glued /\ \A f : OnLine(f) => OnLine(f)'
  BY <1>1, GrownLines
<1>9. NextEvent(p)' = b[Min(new)]
  BY <1>2 DEF NextEvent
<1>10. \A k : Begun(p, k)' <=> k = Min(new) /\ Following(q) # "head"
  BY <1>2 DEF Begun
<1>11. new \subseteq old
  BY <1>2
<1>lf. Joined'
  OBVIOUS
<1> HIDE DEF e, q, n, b, old, new, m
<1>12. Following(q) # "head" =>
         new # {} /\ Len(file') \in DOMAIN file' /\ file'[Len(file')] = Piece(b[Min(new)], PartBefore(Following(q)))
  <2>1. q \in {"head", "tail"} => new = old /\ Min(new) = m
    BY <1>2, <1>6
  <2>2. q = "head" => PartBefore(Following(q)) = "head"
    BY DEF PartBefore, Following
  <2>3. q = "tail" => PartBefore(Following(q)) = "tail"
    BY DEF PartBefore, Following
  <2>4. q = "newline" => Following(q) = "head"
    BY DEF Following
  <2> QED
    BY <1>1, <1>3, <1>4, <2>1, <2>2, <2>3, <2>4 DEF Parts
<1>13. ASSUME NEW k \in new
       PROVE  (k = Min(new) /\ Following(q) # "head") \/
                \A i \in Heads' : ~SameKey(b[k], file'[i].event)
  <2>1. \A i \in Heads : file'[i] = file[i]
    BY <1>3 DEF Heads
  <2>2. CASE q = "newline"
    <3>1. k \in old /\ k # m /\ Heads' = Heads
      BY <1>2, <1>3, <2>2
    <3> QED
      BY <1>5, <2>1, <3>1
  <2>3. CASE q # "newline"
    <3>1. new = old /\ Following(q) # "head"
      BY <1>1, <1>2, <2>3 DEF Parts, Following
    <3>2. CASE k = m
      BY <1>6, <3>1, <3>2
    <3>3. CASE k # m
      <4>1. \A i \in Heads : ~SameKey(b[k], file'[i].event)
        BY <1>5, <2>1, <3>1, <3>3
      <4>2. ~SameKey(b[k], e)
        BY <1>1, <1>5, <3>1, <3>3
      <4> QED
        BY <1>3, <4>1, <4>2
    <3> QED
      BY <3>2, <3>3
  <2> QED
    BY <2>2, <2>3
<1>14. ASSUME ~Glued', NEW f \in ToSet(b), f \notin {b[k] : k \in new} PROVE OnLine(f)'
  <2>1. CASE f \notin {b[k] : k \in old}
    BY <1>5, <1>7, <1>8, <1>14, <2>1 DEF Recorded
  <2>2. CASE f \in {b[k] : k \in old}
    <3>1. q = "newline" /\ f = e
      BY <1>1, <1>2, <1>14, <2>2
    <3> PICK z \in Int, h \in Int : z = n + 1 /\ h = n - 1
      BY <1>4
    <3>2. z - 1 = n /\ h + 1 = n /\ h + 2 = z
      BY <1>4
    <3>3. z \in DOMAIN file' /\ file'[z].event = e /\ file'[z].part = "newline"
      BY <1>3, <3>1
    <3>4. n - 1 = h
      OBVIOUS
    <3>5. n \in DOMAIN file' /\ file'[n] = Piece(e, "tail")
      BY <1>lf, <3>2, <3>3 DEF Joined, PartBefore
    <3>6. h \in DOMAIN file' /\ file'[h] = Piece(e, "head")
      <4>1. file'[n].part = "tail" /\ file'[n].event = e
        BY <3>5 DEF Piece
      <4> QED
        BY <1>lf, <3>4, <3>5, <4>1 DEF Joined, PartBefore
    <3>7. h \in Heads' /\ file'[h].event = e
      BY <3>6 DEF Heads, Piece
    <3>8. OwnLine(h)'
      <4>1. h - 1 \in DOMAIN file' => file'[h - 1].part = "newline"
        BY <1>14, <3>7 DEF Glued
      <4> QED
        BY <3>2, <3>3, <3>5, <3>7, <4>1 DEF OwnLine
    <3> QED
      BY <3>1, <3>7, <3>8 DEF OnLine
  <2> QED
    BY <2>1, <2>2
<1>15. Recorded(ToSet(ingest[p].batch) \ Pending(p))'
  <2>1. ToSet(ingest'[p].batch) \ Pending(p)' = ToSet(b) \ {b[k] : k \in new}
    BY <1>2, <1>7
  <2> QED
    BY <1>14, <2>1 DEF Recorded
<1>16. \A k, l \in new : SameKey(b[k], b[l]) => k = l
  BY <1>5, <1>11
<1>17. new = ingest'[p].left /\ ingest'[p].batch = b /\ ingest'[p].part = Following(q)
  BY <1>2 DEF new
<1> QED
  BY <1>9, <1>10, <1>12, <1>13, <1>15, <1>16, <1>17 DEF Writer

LEMMA WriteInTime ==
  ASSUME Locks, InTime, NEW p \in Ingesters, Write(p)
  PROVE  InTime'
<1> SUFFICES ASSUME ~late'
             PROVE  /\ Joined' /\ Distinct' /\ Recorded(acked)'
                    /\ \A q \in Ingesters : Active(q)' => Writer(q)'
  BY DEF InTime
<1>1. ~late /\ Active(p) /\ admitted' = admitted
  BY InTimeWriter
<1>2. Joined /\ Distinct /\ Recorded(acked) /\ Writer(p)
  BY <1>1 DEF InTime
<1>3. Joined' /\ Distinct'
  BY <1>2, WriteFile
<1>4. Writer(p)'
  BY <1>2, <1>3, WriteOn
<1>5. \A q \in Ingesters : Active(q)' => q = p
  BY <1>1 DEF Active
<1>6. Recorded(acked)'
  <2>1. Grown(Piece(NextEvent(p), ingest[p].part)) /\ ingest[p].part \in Parts
    BY LocksWrite DEF NextPiece, Locks, Typed
  <2>2. ~Glued' => ~Glued /\ \A f : OnLine(f) => OnLine(f)'
    BY <1>3, <2>1, GrownLines
  <2>3. acked' = acked
    BY DEF Write
  <2> QED
    BY <1>2, <2>2, <2>3 DEF Recorded
<1> QED
  BY <1>3, <1>4, <1>5, <1>6

\* In a ledger that parses every event is on a line of its own.
LEMMA ParsedLines ==
  ASSUME Parses
  PROVE  \A e \in Events : OnLine(e)
BY DEF Parses, Events, OnLine, Heads

\* The batch was judged with all that is in the ledger.
LEMMA AdmitInTime ==
  ASSUME Locks, InTime, NEW p \in Ingesters, Admit(p), Parses, Admissible(Events, ingest[p].batch)
  PROVE  InTime'
<1> DEFINE b == ingest[p].batch
           n == New(Events, b)
<1>1. /\ admitted' = p /\ UNCHANGED <<file, late, acked>>
      /\ ingest'[p] = [pc |-> "write", batch |-> b, left |-> n, part |-> "head"]
  BY LocksAdmit DEF Admit
<1> SUFFICES ASSUME ~late
             PROVE  /\ Joined' /\ Distinct' /\ Recorded(acked)'
                    /\ \A q \in Ingesters : Active(q)' => Writer(q)'
  BY <1>1 DEF InTime
<1>2. Joined /\ Distinct /\ Recorded(acked)
  BY DEF InTime
<1>3. Joined' /\ Distinct' /\ Recorded(acked)'
  <2>1. ~Glued' => \A e \in acked : OnLine(e)'
    BY <1>1, <1>2, SameFile DEF Recorded
  <2> QED
    BY <1>1, <1>2, <2>1, SameFile DEF Recorded
<1>4. \A q \in Ingesters : Active(q)' => q = p
  BY <1>1 DEF Active
<1>5. /\ b \in Seq(ToSet(b)) /\ DOMAIN b = 1 .. Len(b) /\ Len(b) \in Nat
      /\ ~Conflicts(Events, b)
  BY Fits DEF Locks, Typed, Holds, Admit, Admissible
<1>6. \A k \in n : \A i \in Heads : ~SameKey(b[k], file[i].event)
  <2>1. \A i \in Heads : file[i].event \in Events
    BY DEF Events
  <2>2. \A k \in n : b[k] \in ToSet(b) /\ b[k] \notin Events
    BY DEF New, ToSet
  <2> QED
    BY <1>5, <2>1, <2>2 DEF Conflicts
<1>7. \A k, l \in n : SameKey(b[k], b[l]) => k = l
  <2> SUFFICES ASSUME NEW k \in n, NEW l \in n, SameKey(b[k], b[l]) PROVE k = l
    OBVIOUS
  <2>1. k \in 1 .. Len(b) /\ l \in 1 .. Len(b) /\ b[k] \in ToSet(b) /\ b[l] \in ToSet(b)
    BY <1>5 DEF New, ToSet
  <2>2. b[k] = b[l]
    BY <1>5, <2>1 DEF Conflicts
  <2>3. ~(k \in 1 .. l - 1) /\ ~(l \in 1 .. k - 1)
    BY <2>2 DEF New
  <2> QED
    BY <1>5, <2>1, <2>3
<1>8. ASSUME NEW e \in ToSet(b), e \notin Events PROVE \E k \in n : b[k] = e
  <2> DEFINE S == {k \in DOMAIN b : b[k] = e}
             m == Min(S)
  <2>1. S \in SUBSET Nat /\ S # {}
    BY <1>5 DEF ToSet
  <2>2. m \in S /\ \A k \in S : m <= k
    BY <2>1, Least
  <2> HIDE DEF m
  <2>3. m \in DOMAIN b /\ b[m] = e /\ m \in Nat
    BY <2>1, <2>2
  <2>4. ASSUME NEW j \in 1 .. m - 1 PROVE b[j] # e
    <3>1. j \in Nat /\ j < m /\ j \in DOMAIN b
      BY <1>5, <2>3
    <3>2. b[j] = e => m <= j
      BY <2>2, <3>1
    <3> QED
      BY <2>3, <3>1, <3>2
  <2>5. m \in n
    BY <1>8, <2>3, <2>4 DEF New
  <2> QED
    BY <2>3, <2>5
<1>9. \A e \in ToSet(b) : e \notin {b[k] : k \in n} => OnLine(e)'
  BY <1>1, <1>8, ParsedLines, SameFile
<1>10. Writer(p)'
  <2> HIDE DEF b, n
  <2>1. ingest'[p].part = "head" /\ ingest'[p].left = n /\ ingest'[p].batch = b
    BY <1>1
  <2>2. Pending(p)' = {b[k] : k \in n}
    BY <2>1 DEF Pending
  <2>3. Recorded(ToSet(ingest[p].batch) \ Pending(p))'
    BY <1>9, <2>1, <2>2 DEF Recorded
  <2>4. Heads' = Heads /\ file' = file
    BY <1>1, SameFile
  <2> QED
    BY <1>6, <1>7, <2>1, <2>3, <2>4 DEF Writer
<1> QED
  BY <1>3, <1>4, <1>10

\* What of a batch was written or found is in the ledger.
LEMMA CommitInTime ==
  ASSUME Locks, InTime, NEW p \in Ingesters, Commit(p)
  PROVE  InTime'
<1>1. /\ ingest[p].pc = "write" /\ ingest[p].left = {} /\ UNCHANGED <<file, late, admitted>>
      /\ acked' = acked \union ToSet(ingest[p].batch)
      /\ ingest' = [ingest EXCEPT ![p] = Idle] /\ lock' = Nobody
      /\ UNCHANGED <<world, failures>> /\ failures' \in Nat
  BY DEF Commit, Release, Locks, Typed
<1>2. admitted = p /\ Active(p)
  BY <1>1 DEF Locks, Holds, Active
<1>3. ingest'[p] = Idle
  BY <1>1, LocksIdle
<1> SUFFICES ASSUME ~late
             PROVE  /\ Joined' /\ Distinct' /\ Recorded(acked)'
                    /\ \A q \in Ingesters : Active(q)' => Writer(q)'
  BY <1>1 DEF InTime
<1>4. \A q \in Ingesters : ~Active(q)'
  BY <1>1, <1>2, <1>3 DEF Active, Idle
<1>5. Joined /\ Distinct /\ Recorded(acked) /\ Recorded(ToSet(ingest[p].batch) \ Pending(p))
  BY <1>2 DEF InTime, Writer
<1>6. Pending(p) = {}
  BY <1>1 DEF Pending
<1>7. ~Glued' => \A e \in acked' : OnLine(e)'
  <2>1. ~Glued => \A e \in acked \union ToSet(ingest[p].batch) : OnLine(e)
    BY <1>5, <1>6 DEF Recorded
  <2> QED
    BY <1>1, <2>1, SameFile
<1> QED
  BY <1>1, <1>4, <1>5, <1>7, SameFile DEF Recorded

LEMMA InTimeInit ==
  ASSUME Init
  PROVE  InTime /\ Sound
<1> DEFINE L == world.legacy
           n == Len(L)
<1>1. world \in Worlds /\ L \in Seq(ToSet(L)) /\ file = Text(L)
  BY LedgerAssumption DEF Init
<1>2. /\ \A e \in ToSet(L) : ValidEvent(e)
      /\ \A i, j \in DOMAIN L : SameKey(L[i], L[j]) => i = j
      /\ \A r \in RunIds(ToSet(L)) : ValidRun(OfRun(ToSet(L), r), FALSE)
  BY <1>1, LegacyAssumption
<1>3. /\ n \in Nat /\ DOMAIN L = 1 .. n /\ Len(file) = 3 * n /\ DOMAIN file = 1 .. 3 * n
      /\ \A k \in 1 .. n : /\ file[3 * k - 2] = Piece(L[k], "head")
                           /\ file[3 * k - 1] = Piece(L[k], "tail")
                           /\ file[3 * k] = Piece(L[k], "newline")
      /\ \A i \in 1 .. 3 * n : \E k \in 1 .. n : i \in {3 * k - 2, 3 * k - 1, 3 * k}
  BY <1>1, TextAt
<1> HIDE DEF L, n
<1>4. \A k \in 1 .. n : /\ file[3 * k - 2].event = L[k] /\ file[3 * k - 2].part = "head"
                        /\ file[3 * k - 1].event = L[k] /\ file[3 * k - 1].part = "tail"
                        /\ file[3 * k].event = L[k] /\ file[3 * k].part = "newline"
                        /\ 3 * k - 2 \in DOMAIN file
  <2> TAKE k \in 1 .. n
  <2>1. 3 * k - 2 \in 1 .. 3 * n
    BY <1>3
  <2>2. /\ file[3 * k - 2] = Piece(L[k], "head")
        /\ file[3 * k - 1] = Piece(L[k], "tail")
        /\ file[3 * k] = Piece(L[k], "newline")
    BY <1>3
  <2> QED
    BY <1>3, <2>1, <2>2 DEF Piece
<1>5. ASSUME NEW i \in Heads PROVE \E k \in 1 .. n : i = 3 * k - 2
  <2>1. i \in 1 .. 3 * n /\ file[i].part = "head"
    BY <1>3 DEF Heads
  <2>2. PICK k \in 1 .. n : i \in {3 * k - 2, 3 * k - 1, 3 * k}
    BY <1>3, <2>1
  <2> QED
    BY <1>4, <2>1, <2>2
<1>6. \A k \in 1 .. n : 3 * k - 2 \in Heads
  BY <1>4 DEF Heads
<1>7. Joined
  <2> SUFFICES ASSUME NEW i \in DOMAIN file
               PROVE  /\ file[i] = Piece(file[i].event, file[i].part) /\ file[i].part \in Parts
                      /\ file[i].part # "head" =>
                           /\ i - 1 \in DOMAIN file
                           /\ file[i - 1] = Piece(file[i].event, PartBefore(file[i].part))
    BY DEF Joined
  <2>1. PICK k \in 1 .. n : i \in {3 * k - 2, 3 * k - 1, 3 * k}
    BY <1>3
  <2>2. k \in Nat /\ k >= 1 /\ k <= n /\ 3 * k - 1 - 1 = 3 * k - 2
    BY <1>3
  <2>3. 3 * k - 2 \in 1 .. 3 * n /\ 3 * k - 1 \in 1 .. 3 * n
    BY <1>3, <2>2
  <2>4. CASE i = 3 * k - 2
    BY <1>3, <1>4, <2>4 DEF Parts
  <2>5. CASE i = 3 * k - 1
    <3>1. i - 1 = 3 * k - 2
      BY <2>2, <2>5
    <3>2. file[i] = Piece(L[k], "tail") /\ file[i - 1] = Piece(L[k], "head") /\ i - 1 \in DOMAIN file
      BY <1>3, <2>1, <2>3, <2>5, <3>1
    <3>3. file[i].event = L[k] /\ file[i].part = "tail"
      BY <3>2 DEF Piece
    <3> QED
      BY <3>2, <3>3 DEF Parts, PartBefore
  <2>6. CASE i = 3 * k
    <3>1. i - 1 = 3 * k - 1
      BY <2>2, <2>6
    <3>2. file[i] = Piece(L[k], "newline") /\ file[i - 1] = Piece(L[k], "tail") /\ i - 1 \in DOMAIN file
      BY <1>3, <2>1, <2>3, <2>6, <3>1
    <3>3. file[i].event = L[k] /\ file[i].part = "newline"
      BY <3>2 DEF Piece
    <3> QED
      BY <3>2, <3>3 DEF Parts, PartBefore
  <2> QED
    BY <2>1, <2>4, <2>5, <2>6
<1>8. Distinct
  <2> SUFFICES ASSUME NEW i \in Heads, NEW j \in Heads, SameKey(file[i].event, file[j].event)
               PROVE  i = j
    BY DEF Distinct
  <2>1. PICK k \in 1 .. n : i = 3 * k - 2
    BY <1>5
  <2>2. PICK l \in 1 .. n : j = 3 * l - 2
    BY <1>5
  <2>3. SameKey(L[k], L[l])
    BY <1>4, <2>1, <2>2
  <2> QED
    BY <1>2, <1>3, <2>1, <2>2, <2>3
<1>9. ~Glued
  <2> SUFFICES ASSUME NEW i \in Heads, i - 1 \in DOMAIN file PROVE file[i - 1].part = "newline"
    BY DEF Glued
  <2>1. PICK k \in 1 .. n : i = 3 * k - 2
    BY <1>5
  <2>2. k - 1 \in 1 .. n /\ i - 1 = 3 * (k - 1)
    BY <1>3, <2>1
  <2> QED
    BY <1>4, <2>2
<1>10. Ended
  <2>1. CASE n = 0
    BY <1>3, <2>1 DEF Ended
  <2>2. CASE n # 0
    <3>1. n \in 1 .. n /\ Len(file) = 3 * n
      BY <1>3, <2>2
    <3> QED
      BY <1>4, <3>1 DEF Ended
  <2> QED
    BY <2>1, <2>2
<1>11. Events = ToSet(L)
  <2>1. \A e \in Events : e \in ToSet(L)
    <3> SUFFICES ASSUME NEW i \in Heads PROVE file[i].event \in ToSet(L)
      BY DEF Events
    <3>1. PICK k \in 1 .. n : i = 3 * k - 2
      BY <1>5
    <3>2. file[i].event = L[k]
      BY <1>4, <3>1
    <3> QED
      BY <1>3, <3>2 DEF ToSet
  <2>2. \A k \in 1 .. n : L[k] \in Events
    BY <1>4, <1>6 DEF Events
  <2> QED
    BY <1>3, <2>1, <2>2 DEF ToSet
<1>12. ValidAll(Events) /\ \A i \in Heads : ValidEvent(file[i].event)
  BY <1>2, <1>11 DEF ValidAll, Events
<1>13. \A p \in Ingesters : ingest[p].pc = "idle"
  BY DEF Init, Idle
<1>14. InTime
  BY <1>7, <1>8, <1>13 DEF InTime, Init, Recorded, Active
<1>15. Sound
  BY <1>9, <1>10, <1>12, <1>13 DEF Sound, Init
<1> QED
  BY <1>14, <1>15

-----------------------------------------------------------------------------
(* Validity. *)

\* Judged against the whole ledger, the batch leaves every run valid.
LEMMA JudgedValid ==
  ASSUME NEW E, ValidAll(E), NEW batch, Admissible(E, batch)
  PROVE  ValidAll(E \union ToSet(batch))
<1> DEFINE B == ToSet(batch)
<1> SUFFICES ASSUME NEW r \in RunIds(E \union B)
             PROVE  ValidRun(OfRun(E \union B, r), FALSE)
  BY DEF ValidAll
<1>1. CASE r \in RunIds(B)
  BY <1>1 DEF Admissible
<1>2. CASE r \notin RunIds(B)
  <2>1. r \in RunIds(E) /\ OfRun(E \union B, r) = OfRun(E, r)
    BY <1>2 DEF RunIds, OfRun
  <2> QED
    BY <2>1 DEF ValidAll
<1> QED
  BY <1>1, <1>2

\* Nobody writes before or after the step, or fewer do than the file is good for.
LEMMA SoundIdle ==
  ASSUME Sound, UNCHANGED <<file, late>>, failures' = 0 => failures = 0,
         Ended /\ ValidAll(Events),
         \A q \in Ingesters : ingest'[q].pc \notin {"write", "closing"}
  PROVE  Sound'
<1>1. /\ Glued' = Glued /\ Heads' = Heads /\ Events' = Events /\ Ended' = Ended
  BY SameFile
<1> QED
  BY <1>1 DEF Sound

LEMMA SoundWrite ==
  ASSUME Locks, InTime, Sound, NEW p \in Ingesters, Write(p)
  PROVE  Sound'
<1> DEFINE e == NextEvent(p)
           x == ingest[p].part
           n == Len(file)
           b == ingest[p].batch
<1>1. failures' = failures
  BY DEF Write
<1> SUFFICES ASSUME failures = 0
             PROVE  /\ ~late' /\ ~Glued' /\ \A i \in Heads' : ValidEvent(file'[i].event)
                    /\ \A q \in Ingesters :
                         /\ ingest'[q].pc # "closing"
                         /\ ingest'[q].pc = "write" =>
                              /\ ValidAll(Events' \union ToSet(ingest'[q].batch))
                              /\ ingest'[q].part = "head" => Ended'
                    /\ \E q \in Ingesters : ingest'[q].pc = "write"
  BY <1>1 DEF Sound
<1>2. /\ ~late /\ ~Glued /\ (\A i \in Heads : ValidEvent(file[i].event))
      /\ ingest[p].pc = "write" /\ (x = "head" => Ended)
      /\ ValidAll(Events \union ToSet(b))
      /\ \A q \in Ingesters : ingest[q].pc # "closing"
  BY LocksWrite DEF Sound
<1>3. \A q \in Ingesters : ingest[q].pc = "write" => q = p
  BY <1>2, Alone
<1>4. /\ ingest'[p] = Written(ingest[p]) /\ Grown(Piece(e, x)) /\ x \in Parts
      /\ \A q \in Ingesters : q # p => ingest'[q] = ingest[q]
      /\ e \in ToSet(b) /\ ValidEvent(e)
  BY <1>2, LocksWrite, NextOfBatch DEF NextPiece, Locks, Typed
<1>5. ingest'[p].pc = "write" /\ ingest'[p].batch = b /\ ingest'[p].part = Following(x)
  BY <1>2, <1>4 DEF Written
<1>6. /\ \A i \in DOMAIN file : i \in DOMAIN file' /\ file'[i] = file[i]
      /\ \A i \in DOMAIN file' : i \in DOMAIN file \/ i = n + 1
      /\ n + 1 \in DOMAIN file' /\ file'[n + 1].event = e /\ file'[n + 1].part = x
      /\ Heads' = IF x = "head" THEN Heads \union {n + 1} ELSE Heads
      /\ Events' = IF x = "head" THEN Events \union {e} ELSE Events
  BY <1>4, GrownHeads
<1>7. n \in Nat /\ DOMAIN file = 1 .. n /\ Len(file') = n + 1
  BY <1>4 DEF Grown
<1> HIDE DEF e, x, n, b
<1>8. ~late'
  BY <1>2 DEF Write
<1>9. ~Glued'
  <2> SUFFICES ASSUME NEW i \in Heads', i - 1 \in DOMAIN file' PROVE file'[i - 1].part = "newline"
    BY DEF Glued
  <2>1. CASE i \in Heads
    <3>1. i \in 1 .. n /\ i - 1 # n + 1
      BY <1>7, <2>1 DEF Heads
    <3>2. i - 1 \in DOMAIN file
      BY <1>6, <3>1
    <3> QED
      BY <1>2, <1>6, <2>1, <3>2 DEF Glued
  <2>2. CASE i \notin Heads
    <3>1. i = n + 1 /\ x = "head" /\ i - 1 = n
      BY <1>6, <1>7, <2>2
    <3>2. n \in DOMAIN file
      BY <1>6, <1>7, <3>1
    <3>3. file[n].part = "newline"
      BY <1>2, <3>1, <3>2 DEF Ended, n
    <3> QED
      BY <1>6, <3>1, <3>2, <3>3
  <2> QED
    BY <2>1, <2>2
<1>10. \A i \in Heads' : ValidEvent(file'[i].event)
  <2>1. \A i \in Heads : i \in DOMAIN file /\ file'[i] = file[i]
    BY <1>6 DEF Heads
  <2> QED
    BY <1>2, <1>4, <1>6, <2>1
<1>11. Events' \union ToSet(b) = Events \union ToSet(b)
  BY <1>4, <1>6
<1>12. Following(x) = "head" => Ended'
  <2>1. Following(x) = "head" => x = "newline"
    BY <1>4 DEF Following, Parts
  <2> QED
    BY <1>6, <1>7, <2>1 DEF Ended
<1>13. ASSUME NEW q \in Ingesters
       PROVE  /\ ingest'[q].pc # "closing"
              /\ ingest'[q].pc = "write" =>
                   /\ ValidAll(Events' \union ToSet(ingest'[q].batch))
                   /\ ingest'[q].part = "head" => Ended'
  <2>1. CASE q = p
    BY <1>2, <1>5, <1>11, <1>12, <2>1
  <2>2. CASE q # p
    BY <1>2, <1>3, <1>4, <2>2
  <2> QED
    BY <2>1, <2>2
<1> QED
  BY <1>5, <1>8, <1>9, <1>10, <1>13

LEMMA SoundCommit ==
  ASSUME Locks, InTime, Sound, NEW p \in Ingesters, Commit(p)
  PROVE  Sound'
<1>1. /\ ingest[p].pc = "write" /\ ingest[p].left = {} /\ UNCHANGED <<file, late, failures>>
      /\ lock' = Nobody /\ ingest' = [ingest EXCEPT ![p] = Idle]
      /\ UNCHANGED <<world, admitted>> /\ failures' \in Nat
  BY DEF Commit, Release, Locks, Typed
<1> SUFFICES ASSUME failures = 0 PROVE Sound'
  BY <1>1 DEF Sound
<1>2. ~late /\ ~Glued /\ ValidAll(Events \union ToSet(ingest[p].batch)) /\ Writer(p)
  BY <1>1 DEF Sound, InTime, Active, Locks, Holds
<1>3. Ended
  BY <1>1, <1>2 DEF Writer, Sound
<1>4. ToSet(ingest[p].batch) \subseteq Events
  <2>1. Pending(p) = {}
    BY <1>1 DEF Pending
  <2>2. \A e \in ToSet(ingest[p].batch) : OnLine(e)
    BY <1>2, <2>1 DEF Writer, Recorded
  <2> QED
    BY <2>2 DEF OnLine, Events
<1>5. ValidAll(Events)
  <2>1. Events \union ToSet(ingest[p].batch) = Events
    BY <1>4
  <2> QED
    BY <1>2, <2>1
<1>6. /\ ingest'[p] = Idle /\ \A q \in Ingesters : q # p => ingest'[q] = ingest[q]
  BY <1>1, LocksIdle
<1>7. \A q \in Ingesters : ingest'[q].pc \notin {"write", "closing"}
  <2>1. \A q \in Ingesters : ingest[q].pc # "closing"
    BY DEF Sound
  <2>2. \A q \in Ingesters : ingest[q].pc = "write" => q = p
    BY <1>1, Alone
  <2>3. ingest'[p].pc = "idle"
    BY <1>6 DEF Idle
  <2> QED
    BY <1>6, <2>1, <2>2, <2>3
<1> QED
  BY <1>1, <1>3, <1>5, <1>7, SoundIdle

\* When p has the lock and does not write yet, nobody writes and the file is good.
LEMMA SoundLocked ==
  ASSUME Locks, Sound, failures = 0, NEW p \in Ingesters,
         ingest[p].pc = "locked" \/ lock = Nobody
  PROVE  /\ Ended /\ ValidAll(Events)
         /\ \A q \in Ingesters : ingest[q].pc \notin {"write", "closing"}
<1>1. \A q \in Ingesters : ingest[q].pc # "write"
  BY Alone, Unlocked
<1> QED
  BY <1>1 DEF Sound

LEMMA SoundAdmit ==
  ASSUME Locks, Sound, NEW p \in Ingesters, Admit(p)
  PROVE  Sound'
<1>1. UNCHANGED <<world, file, late, failures>> /\ ingest[p].pc = "locked"
  BY DEF Admit
<1> SUFFICES ASSUME failures = 0 PROVE Sound'
  BY <1>1 DEF Sound
<1>2. /\ Ended /\ ValidAll(Events)
      /\ \A q \in Ingesters : ingest[q].pc \notin {"write", "closing"}
  BY <1>1, SoundLocked
<1>3. CASE ~(Parses /\ Admissible(Events, ingest[p].batch))
  <2>1. ingest' = [ingest EXCEPT ![p] = Idle] /\ lock' = Nobody /\ UNCHANGED admitted /\ failures' \in Nat
    BY <1>3 DEF Admit, Release, Locks, Typed
  <2>2. /\ ingest'[p] = Idle /\ \A q \in Ingesters : q # p => ingest'[q] = ingest[q]
    BY <1>1, <2>1, LocksIdle
  <2>3. \A q \in Ingesters : ingest'[q].pc \notin {"write", "closing"}
    BY <1>2, <2>2 DEF Idle
  <2> QED
    BY <1>1, <1>2, <2>3, SoundIdle
<1>4. CASE Parses /\ Admissible(Events, ingest[p].batch)
  <2> DEFINE b == ingest[p].batch
  <2>1. /\ ingest'[p].pc = "write" /\ ingest'[p].batch = b
        /\ \A q \in Ingesters : q # p => ingest'[q] = ingest[q]
    <3>1. /\ ingest'[p] = [pc |-> "write", batch |-> b, left |-> New(Events, b), part |-> "head"]
          /\ \A q \in Ingesters : q # p => ingest'[q] = ingest[q]
      BY <1>4, LocksAdmit
    <3> QED
      BY <3>1
  <2>2. ValidAll(Events \union ToSet(b))
    BY <1>2, <1>4, JudgedValid
  <2>3. /\ Glued' = Glued /\ Heads' = Heads /\ Events' = Events /\ Ended' = Ended
    BY <1>1, SameFile
  <2>4. \A q \in Ingesters : ingest'[q].pc # "closing" /\ (ingest'[q].pc = "write" => q = p)
    BY <1>2, <2>1
  <2>5. ~late /\ ~Glued /\ \A i \in Heads : ValidEvent(file[i].event)
    BY DEF Sound
  <2> HIDE DEF b
  <2>6. ASSUME NEW q \in Ingesters
        PROVE  /\ ingest'[q].pc # "closing"
               /\ ingest'[q].pc = "write" =>
                    /\ ValidAll(Events' \union ToSet(ingest'[q].batch))
                    /\ ingest'[q].part = "head" => Ended'
    BY <1>2, <2>1, <2>2, <2>3, <2>4
  <2> QED
    BY <1>1, <2>1, <2>3, <2>5, <2>6 DEF Sound
<1> QED
  BY <1>3, <1>4

LEMMA LedgerNext ==
  ASSUME LInv, [Next]_vars
  PROVE  LInv'
<1>1. Locks /\ InTime /\ Sound /\ Locks'
  BY LocksNext DEF LInv
<1>2. CASE UNCHANGED vars
  <2>1. UNCHANGED <<world, file, ingest, acked, failures, admitted, late>>
    BY <1>2 DEF vars
  <2>2. \A q \in Ingesters : Active(q)' = Active(q)
    BY <2>1 DEF Active
  <2>3. InTime'
    BY <1>1, <2>1, <2>2, Kept
  <2>4. Sound'
    BY <1>1, <2>1, SameFile DEF Sound
  <2> QED
    BY <1>1, <2>3, <2>4 DEF LInv
<1>3. CASE Next
  <2>1. world.ingesters \subseteq Ingesters /\ failures \in Nat /\ failures + 1 \in Nat /\ failures + 1 # 0
    BY <1>1, LedgerAssumption DEF Locks, Typed
  <2>2. PICK p \in Ingesters :
          \/ \E batch \in world.batches : Lock(p, batch)
          \/ Admit(p) \/ Write(p) \/ Commit(p) \/ Fail(p) \/ Closed(p)
    BY <1>3, <2>1 DEF Next
  <2>3. CASE \E batch \in world.batches : Lock(p, batch)
    <3>1. PICK batch \in world.batches : Lock(p, batch)
      BY <2>3
    <3>2. /\ ingest'[p].pc = "locked" /\ \A q \in Ingesters : q # p => ingest'[q] = ingest[q]
      <4>1. /\ ingest'[p] = [pc |-> "locked", batch |-> batch, left |-> {}, part |-> "head"]
            /\ \A q \in Ingesters : q # p => ingest'[q] = ingest[q]
        BY <1>1, <3>1, LocksLock
      <4> QED
        BY <4>1
    <3>3. /\ UNCHANGED <<file, late, acked, admitted, failures>> /\ lock = Nobody
      BY <3>1 DEF Lock, LockFree
    <3>4. InTime'
      BY <1>1, <3>2, <3>3, Kept DEF Active
    <3>5. failures = 0 => /\ Ended /\ ValidAll(Events)
                          /\ \A q \in Ingesters : ingest'[q].pc \notin {"write", "closing"}
      BY <1>1, <3>2, <3>3, SoundLocked
    <3>6. Sound'
      BY <1>1, <3>3, <3>5, SoundIdle DEF Sound
    <3> QED
      BY <1>1, <3>4, <3>6 DEF LInv
  <2>4. CASE Admit(p)
    <3>1. InTime'
      <4>1. CASE Parses /\ Admissible(Events, ingest[p].batch)
        BY <1>1, <2>4, <4>1, AdmitInTime
      <4>2. CASE ~(Parses /\ Admissible(Events, ingest[p].batch))
        <5>1. /\ ingest' = [ingest EXCEPT ![p] = Idle] /\ lock' = Nobody /\ ingest[p].pc = "locked"
              /\ UNCHANGED <<world, file, late, acked, admitted, failures>>
          BY <2>4, <4>2 DEF Admit, Release
        <5>2. /\ ingest'[p] = Idle /\ \A q \in Ingesters : q # p => ingest'[q] = ingest[q]
          BY <1>1, <2>1, <5>1, LocksIdle
        <5> QED
          BY <1>1, <5>1, <5>2, Kept DEF Active, Idle
      <4> QED
        BY <4>1, <4>2
    <3> QED
      BY <1>1, <2>4, <3>1, SoundAdmit DEF LInv
  <2>5. CASE Write(p)
    BY <1>1, <2>5, WriteInTime, SoundWrite DEF LInv
  <2>6. CASE Commit(p)
    BY <1>1, <2>6, CommitInTime, SoundCommit DEF LInv
  <2>7. CASE Fail(p)
    <3>1. /\ UNCHANGED <<world, file, late, acked, admitted>> /\ failures' = failures + 1
          /\ ingest[p].pc \in {"locked", "write"}
      BY <2>7 DEF Fail
    <3>2. \A q \in Ingesters : q # p => ingest'[q] = ingest[q]
      <4>1. CASE Release(p)
        BY <1>1, <2>1, <3>1, <4>1, LocksIdle DEF Release
      <4>2. CASE ~Release(p)
        BY <1>1, <2>1, <2>7, <3>1, <4>2, LocksClosing DEF Fail, Writing
      <4> QED
        BY <4>1, <4>2
    <3>3. Active(p)' => /\ Active(p) /\ ingest'[p].batch = ingest[p].batch
                        /\ ingest'[p].left = ingest[p].left /\ ingest'[p].part = ingest[p].part
      <4>1. CASE Release(p)
        <5>1. ingest'[p] = Idle
          BY <1>1, <2>1, <3>1, <4>1, LocksIdle DEF Release
        <5> QED
          BY <5>1 DEF Active, Idle
      <4>2. CASE ~Release(p)
        <5>1. ingest'[p] = [ingest[p] EXCEPT !.pc = "closing"] /\ ingest[p].pc = "write"
          BY <1>1, <2>1, <2>7, <3>1, <4>2, LocksClosing DEF Fail, Writing
        <5>2. ingest[p] \in [pc : {"idle", "locked", "write", "closing"},
                             batch : world.batches \union {<<>>}, left : SUBSET Nat, part : Parts]
          BY <1>1 DEF Locks, Typed
        <5> QED
          BY <3>1, <5>1, <5>2 DEF Active
      <4> QED
        BY <4>1, <4>2
    <3>4. InTime'
      BY <1>1, <3>1, <3>2, <3>3, Kept DEF Active
    <3>5. Sound'
      BY <2>1, <3>1 DEF Sound
    <3> QED
      BY <1>1, <3>4, <3>5 DEF LInv
  <2>8. CASE Closed(p)
    <3>1. /\ ingest[p].pc = "closing" /\ ingest' = [ingest EXCEPT ![p] = Idle]
          /\ UNCHANGED <<world, file, lock, late, acked, admitted, failures>>
      BY <2>8 DEF Closed
    <3>2. /\ ingest'[p] = Idle /\ \A q \in Ingesters : q # p => ingest'[q] = ingest[q]
      BY <1>1, <2>1, <3>1, LocksIdle
    <3>3. InTime'
      BY <1>1, <3>1, <3>2, Kept DEF Active, Idle
    <3>4. Sound'
      BY <1>1, <3>1 DEF Sound
    <3> QED
      BY <1>1, <3>3, <3>4 DEF LInv
  <2> QED
    BY <2>2, <2>3, <2>4, <2>5, <2>6, <2>7, <2>8
<1> QED
  BY <1>2, <1>3

-----------------------------------------------------------------------------
(* Theorems. *)

\* The file keeps its shape: as long as nobody writes out of time, every piece is
\* behind the one it belongs to, no event is begun twice, and whoever writes has
\* judged what it writes against all that is in the file.
THEOREM LedgerInductive == Spec => []LInv
<1>1. Init => LInv
  BY LocksInit, InTimeInit DEF LInv
<1>2. LInv /\ [Next]_vars => LInv'
  BY LedgerNext
<1> QED
  BY <1>1, <1>2, PTL DEF Spec

\* No event is in the ledger twice, and what was reported as ingested is there on a
\* line of its own: whoever fails, with whatever part of its output written within
\* the lock or after it, and whatever is offered again, as long as no failed ingest
\* writes after another was admitted.
THEOREM IngestedOnce == Spec => []WrittenOnce
<1>1. LInv => WrittenOnce
  BY DEF LInv, InTime, Distinct, Recorded, OnLine, WrittenOnce
<1> QED
  BY <1>1, LedgerInductive, PTL

\* As long as no ingest fails, the ledger parses and every run in it is valid when
\* nobody is at work.
THEOREM LedgerStaysValid == Spec => []LedgerValid
<1>1. LInv => LedgerValid
  <2> SUFFICES ASSUME LInv, failures = 0, lock = Nobody
               PROVE  Parses /\ Valid
    BY DEF LedgerValid
  <2>1. Locks /\ Sound /\ InTime
    BY DEF LInv
  <2>2. \A p \in Ingesters : ingest[p].pc # "write"
    BY <2>1, Unlocked
  <2>3. ~late /\ ~Glued /\ Ended /\ ValidAll(Events) /\ \A i \in Heads : ValidEvent(file[i].event)
    BY <2>1, <2>2 DEF Sound
  <2>4. Joined
    BY <2>1, <2>3 DEF InTime
  <2>5. DOMAIN file = 1 .. Len(file) /\ Len(file) \in Nat
    BY <2>1 DEF Locks, Typed
  <2>6. ASSUME NEW i \in Heads PROVE OwnLine(i)
    <3>1. i \in 1 .. Len(file) /\ file[i].part = "head"
      BY <2>5 DEF Heads
    <3>2. i + 1 \in DOMAIN file
      BY <2>3, <2>5, <3>1 DEF Ended
    <3> PICK j \in Int, k \in Int : j = i + 1 /\ k = i + 2
      BY <3>1
    <3>3. j - 1 = i /\ k - 1 = j /\ i \in DOMAIN file /\ j \in DOMAIN file
      BY <2>5, <3>1, <3>2
    <3>4. file[j].part # "head"
      BY <2>3, <3>1, <3>3 DEF Glued, Heads
    <3>5. file[i] = Piece(file[j].event, PartBefore(file[j].part))
      BY <2>4, <3>3, <3>4 DEF Joined
    <3>6. file[j].part = "tail" /\ file[j].event = file[i].event
      BY <3>1, <3>5 DEF Piece, PartBefore
    <3>7. file[j] = Piece(file[i].event, "tail")
      BY <2>4, <3>3, <3>6 DEF Joined
    <3>8. k \in DOMAIN file => file[k].part = "newline"
      <4> SUFFICES ASSUME k \in DOMAIN file PROVE file[k].part = "newline"
        OBVIOUS
      <4>1. file[k].part # "head"
        BY <2>3, <3>3, <3>6 DEF Glued, Heads
      <4>2. file[j] = Piece(file[k].event, PartBefore(file[k].part)) /\ file[k].part \in Parts
        BY <2>4, <3>3, <4>1 DEF Joined
      <4>3. PartBefore(file[k].part) = "tail"
        BY <3>6, <4>2 DEF Piece
      <4> QED
        BY <4>1, <4>2, <4>3 DEF PartBefore, Parts
    <3>9. i - 1 \in DOMAIN file => file[i - 1].part = "newline"
      BY <2>3 DEF Glued
    <3> QED
      BY <3>2, <3>7, <3>8, <3>9 DEF OwnLine
  <2>7. ASSUME NEW i \in DOMAIN file, file[i].part = "tail" PROVE i - 1 \in Heads
    <3>1. i - 1 \in DOMAIN file /\ file[i - 1] = Piece(file[i].event, "head")
      BY <2>4, <2>7 DEF Joined, PartBefore
    <3>2. file[i - 1].part = "head"
      BY <3>1 DEF Piece
    <3> QED
      BY <3>1, <3>2 DEF Heads
  <2>8. Parses
    BY <2>3, <2>6, <2>7 DEF Parses
  <2> QED
    BY <2>3, <2>8 DEF Valid, ValidAll
<1> QED
  BY <1>1, LedgerInductive, PTL

-----------------------------------------------------------------------------
(* Repeating a failed ingest. *)

LEMMA HealsInit ==
  ASSUME Init
  PROVE  HInv
<1> DEFINE L == world.legacy
<1>1. world \in Worlds /\ L \in Seq(ToSet(L)) /\ Locks
  BY LedgerAssumption, LocksInit DEF Init
<1>2. \A r \in RunIds(ToSet(L)) : ValidRun(OfRun(ToSet(L), r), FALSE)
  BY <1>1, LegacyAssumption
<1>3. last = [r \in Runs |-> <<>>]
  BY DEF Init
<1> HIDE DEF L
<1>4. \A e \in Events : e \in ToSet(L)
  <2> SUFFICES ASSUME NEW i \in Heads PROVE file[i].event \in ToSet(L)
    BY DEF Events
  <2>1. file = Text(L) /\ i \in DOMAIN Text(L)
    BY DEF Init, L, Heads
  <2>2. PICK k \in 1 .. Len(L) : i \in {3 * k - 2, 3 * k - 1, 3 * k}
    BY <1>1, <2>1, TextAt
  <2>3. /\ file[3 * k - 2] = Piece(L[k], "head")
        /\ file[3 * k - 1] = Piece(L[k], "tail")
        /\ file[3 * k] = Piece(L[k], "newline")
    BY <1>1, <2>1, TextAt
  <2>4. file[i].event = L[k]
    BY <2>2, <2>3 DEF Piece
  <2> QED
    BY <1>1, <2>4, TextAt DEF ToSet
<1>5. ToSet(L) \subseteq Events
  <2> SUFFICES ASSUME NEW k \in 1 .. Len(L) PROVE L[k] \in Events
    BY <1>1, TextAt DEF ToSet
  <2>1. file = Text(L)
    BY DEF Init, L
  <2>2. file[3 * k - 2] = Piece(L[k], "head") /\ 3 * k - 2 \in DOMAIN file
    BY <1>1, <2>1, TextAt
  <2> QED
    BY <2>2 DEF Heads, Events, Piece
<1>6. Events = ToSet(L)
  BY <1>4, <1>5
<1>7. RunIds(ToSet(L)) \subseteq Runs
  BY DEF Runs, RunIds, L
<1>8. \A r \in Runs : Promised(Events, r) = OfRun(ToSet(L), r)
  <2>1. \A r \in Runs : ToSet(last[r]) = {}
    <3>1. ToSet(<<>>) = {}
      BY DEF ToSet
    <3> QED
      BY <1>3, <3>1
  <2> QED
    BY <1>6, <2>1 DEF Promised
<1>9. \A r \in Runs : OfRun(ToSet(L), r) # {} => r \in RunIds(ToSet(L))
  BY DEF OfRun, RunIds
<1>10. Completable
  BY <1>2, <1>6, <1>7, <1>8, <1>9 DEF Completable
<1>11. \A p \in Ingesters : ingest[p].pc = "idle"
  BY DEF Init, Idle
<1> QED
  BY <1>1, <1>10, <1>11 DEF HInv, Current, Active

LEMMA SameRuns == world' = world => Runs' = Runs
BY DEF Runs

\* A step that leaves the file and the batches the runs were last found valid with.
LEMMA StillHeals ==
  ASSUME HInv, Locks', UNCHANGED <<world, file, last, late>>,
         \A q \in Ingesters : Active(q)' => Active(q) /\ ingest'[q].batch = ingest[q].batch
  PROVE  HInv'
<1>1. Events' = Events /\ Runs' = Runs
  BY SameRuns, SameFile
<1>2. Completable => Completable'
  BY <1>1 DEF Completable, Promised
<1>3. Current => Current'
  BY DEF Current
<1> QED
  BY <1>2, <1>3 DEF HInv

\* One of the batch's events joins the ledger.
LEMMA HealsWrite ==
  ASSUME HInv, NEW p \in Ingesters, Write(p)
  PROVE  HInv'
<1> DEFINE e == NextEvent(p)
           b == ingest[p].batch
<1>1. /\ Locks /\ Locks' /\ ingest'[p] = Written(ingest[p])
      /\ ingest[p].left # {} /\ ingest[p].pc \in {"write", "closing"}
      /\ Grown(Piece(e, ingest[p].part)) /\ ingest[p].part \in Parts
      /\ \A q \in Ingesters : q # p => ingest'[q] = ingest[q]
      /\ UNCHANGED <<world, last, admitted>>
  BY LocksWrite DEF HInv, NextPiece, Locks, Typed, Write
<1> SUFFICES ASSUME ~late' PROVE Completable' /\ Current'
  BY <1>1 DEF HInv
<1>2. Active(p) /\ Completable /\ Current
  BY <1>1, InTimeWriter DEF HInv
<1>3. e \in ToSet(b) /\ b \in world.batches
  BY <1>1, NextOfBatch DEF Locks, Holds
<1>4. last[e.run] = b /\ e.run \in Runs
  BY <1>2, <1>3, BatchRuns DEF Current, RunIds
<1>5. Events' = Events \union {e} \/ Events' = Events
  BY <1>1, GrownHeads
<1> HIDE DEF e, b
<1>6. Runs' = Runs /\ RunIds(Events) \subseteq Runs
  BY <1>1, <1>2, SameRuns DEF Completable
<1>7. RunIds(Events') \subseteq Runs
  BY <1>4, <1>5, <1>6 DEF RunIds
<1>8. ASSUME NEW r \in Runs
      PROVE  OfRun(Events' \union ToSet(last[r]), r) = OfRun(Events \union ToSet(last[r]), r)
  <2>1. CASE r = e.run
    <3>1. e \in ToSet(last[r])
      BY <1>3, <1>4, <2>1
    <3>2. Events' \union ToSet(last[r]) = Events \union ToSet(last[r])
      BY <1>5, <3>1
    <3> QED
      BY <3>2
  <2>2. CASE r # e.run
    BY <1>5, <2>2 DEF OfRun
  <2> QED
    BY <2>1, <2>2
<1>9. Completable'
  BY <1>1, <1>2, <1>6, <1>7, <1>8 DEF Completable, Promised
<1>10. ingest'[p].batch = ingest[p].batch
  BY <1>1 DEF Written
<1>11. Current'
  BY <1>1, <1>2, <1>10 DEF Current, Active
<1> QED
  BY <1>9, <1>11

LEMMA HealsAdmit ==
  ASSUME HInv, NEW p \in Ingesters, Admit(p), Parses, Admissible(Events, ingest[p].batch)
  PROVE  HInv'
<1> DEFINE b == ingest[p].batch
<1>1. /\ Locks /\ Locks' /\ UNCHANGED <<world, file, late>> /\ b \in world.batches /\ admitted' = p
      /\ last' = [r \in Runs |-> IF r \in RunIds(ToSet(b)) THEN b ELSE last[r]]
      /\ ingest'[p] = [pc |-> "write", batch |-> b, left |-> New(Events, b), part |-> "head"]
  BY LocksAdmit DEF HInv, Admit, Locks, Holds
<1> SUFFICES ASSUME ~late PROVE Completable' /\ Current'
  BY <1>1 DEF HInv
<1>2. Completable
  BY DEF HInv
<1>3. Events' = Events /\ Runs' = Runs /\ RunIds(ToSet(b)) \subseteq Runs
  BY <1>1, SameFile, SameRuns, BatchRuns
<1>4. ingest'[p].batch = b
  BY <1>1
<1> HIDE DEF b
<1>5. \A r \in Runs : last'[r] = IF r \in RunIds(ToSet(b)) THEN b ELSE last[r]
  BY <1>1
<1>6. Current'
  BY <1>1, <1>3, <1>4, <1>5 DEF Current, Active
<1>7. ASSUME NEW r \in Runs, OfRun(Events \union ToSet(last'[r]), r) # {}
      PROVE  ValidRun(OfRun(Events \union ToSet(last'[r]), r), FALSE)
  <2>1. CASE r \in RunIds(ToSet(b))
    BY <1>5, <2>1 DEF Admissible, b
  <2>2. CASE r \notin RunIds(ToSet(b))
    <3>1. last'[r] = last[r]
      BY <1>5, <2>2
    <3> QED
      BY <1>2, <1>7, <3>1 DEF Completable, Promised
  <2> QED
    BY <2>1, <2>2
<1>8. Completable'
  BY <1>2, <1>3, <1>7 DEF Completable, Promised
<1> QED
  BY <1>6, <1>8

LEMMA HealsNext ==
  ASSUME HInv, [Next]_vars
  PROVE  HInv'
<1>1. Locks /\ Locks'
  BY LocksNext DEF HInv
<1>2. CASE UNCHANGED vars
  BY <1>1, <1>2, StillHeals DEF vars, Active
<1>3. CASE Next
  <2>1. world.ingesters \subseteq Ingesters /\ failures \in Nat /\ failures + 1 \in Nat
    BY <1>1, LedgerAssumption DEF Locks, Typed
  <2>2. PICK p \in Ingesters :
          \/ \E batch \in world.batches : Lock(p, batch)
          \/ Admit(p) \/ Write(p) \/ Commit(p) \/ Fail(p) \/ Closed(p)
    BY <1>3, <2>1 DEF Next
  <2>3. CASE \E batch \in world.batches : Lock(p, batch)
    <3>1. PICK batch \in world.batches : Lock(p, batch)
      BY <2>3
    <3>2. /\ ingest'[p] = [pc |-> "locked", batch |-> batch, left |-> {}, part |-> "head"]
          /\ \A q \in Ingesters : q # p => ingest'[q] = ingest[q]
          /\ UNCHANGED <<world, file, last, late, admitted>>
      BY <1>1, <3>1, LocksLock DEF Lock
    <3> QED
      BY <1>1, <3>2, StillHeals DEF Active
  <2>4. ASSUME ingest' = [ingest EXCEPT ![p] = Idle], UNCHANGED <<world, file, last, late, admitted>>,
               IF ingest[p].pc \in {"locked", "write"} THEN lock' = Nobody ELSE lock' = lock,
               failures' \in Nat
        PROVE  HInv'
    <3>1. /\ ingest'[p] = Idle /\ \A q \in Ingesters : q # p => ingest'[q] = ingest[q]
      BY <1>1, <2>4, LocksIdle
    <3> QED
      BY <1>1, <2>4, <3>1, StillHeals DEF Active, Idle
  <2>5. CASE Admit(p)
    <3>1. CASE Parses /\ Admissible(Events, ingest[p].batch)
      BY <2>5, <3>1, HealsAdmit
    <3>2. CASE ~(Parses /\ Admissible(Events, ingest[p].batch))
      BY <2>1, <2>4, <2>5, <3>2 DEF Admit, Release
    <3> QED
      BY <3>1, <3>2
  <2>6. CASE Write(p)
    BY <2>6, HealsWrite
  <2>7. CASE Commit(p)
    BY <2>1, <2>4, <2>7 DEF Commit, Release
  <2>8. CASE Fail(p)
    <3>1. CASE Release(p)
      BY <2>1, <2>4, <2>8, <3>1 DEF Fail, Release
    <3>2. CASE ~Release(p)
      <4>1. /\ ingest'[p] = [ingest[p] EXCEPT !.pc = "closing"] /\ ingest[p].pc = "write"
            /\ \A q \in Ingesters : q # p => ingest'[q] = ingest[q]
            /\ UNCHANGED <<world, file, last, late, admitted>>
        BY <1>1, <2>1, <2>8, <3>2, LocksClosing DEF Fail, Writing
      <4>2. ingest[p] \in [pc : {"idle", "locked", "write", "closing"},
                           batch : world.batches \union {<<>>}, left : SUBSET Nat, part : Parts]
        BY <1>1 DEF Locks, Typed
      <4>3. ingest'[p].batch = ingest[p].batch
        BY <4>1, <4>2
      <4> QED
        BY <1>1, <4>1, <4>3, StillHeals DEF Active
    <3> QED
      BY <3>1, <3>2
  <2>9. CASE Closed(p)
    BY <2>1, <2>4, <2>9 DEF Closed
  <2> QED
    BY <2>2, <2>3, <2>5, <2>6, <2>7, <2>8, <2>9
<1> QED
  BY <1>2, <1>3

\* The strengthening that RetryHeals needs, of files that do not parse too: whatever
\* ingests wrote, before they failed or in their close, is part of the batch their
\* runs were last found valid with, as long as none writes after another was admitted.
THEOREM HealsInductive == Spec => []HInv
<1>1. Init => HInv
  BY HealsInit
<1>2. HInv /\ [Next]_vars => HInv'
  BY HealsNext
<1> QED
  BY <1>1, <1>2, PTL DEF Spec

\* Whatever batches are offered, however often an ingest dies or fails to write and
\* whatever it leaves, as long as the ledger parses and no failed ingest wrote after
\* another was admitted, every run lacks nothing but events of the batch it was last
\* found valid with, and that batch, offered again, is taken.
THEOREM RetriesHeal == Spec => []RetryHeals
<1>1. HInv => RetryHeals
  <2> SUFFICES ASSUME HInv, ~late, Parses
               PROVE  /\ \A r \in RunIds(Events) :
                           ValidRun(OfRun(Events \union ToSet(last[r]), r), FALSE)
                      /\ \A batch \in world.batches :
                           (\A r \in RunIds(ToSet(batch)) : last[r] = batch) =>
                             Admissible(Events, batch)
    BY DEF RetryHeals
  <2>1. /\ RunIds(Events) \subseteq Runs
        /\ \A r \in Runs : OfRun(Events \union ToSet(last[r]), r) # {} =>
             ValidRun(OfRun(Events \union ToSet(last[r]), r), FALSE)
    BY DEF HInv, Completable, Promised
  <2>2. ASSUME NEW r \in RunIds(Events)
        PROVE  ValidRun(OfRun(Events \union ToSet(last[r]), r), FALSE)
    <3>1. OfRun(Events \union ToSet(last[r]), r) # {}
      BY DEF OfRun, RunIds
    <3> QED
      BY <2>1, <3>1
  <2>3. ASSUME NEW batch \in world.batches, \A r \in RunIds(ToSet(batch)) : last[r] = batch
        PROVE  Admissible(Events, batch)
    <3> DEFINE B == ToSet(batch)
    <3>1. \A r \in RunIds(B) : ValidRun(OfRun(Events \union B, r), FALSE)
      <4> TAKE r \in RunIds(B)
      <4>1. r \in Runs /\ last[r] = batch
        BY <2>3, BatchRuns
      <4>2. OfRun(Events \union B, r) # {}
        BY DEF OfRun, RunIds
      <4> QED
        BY <2>1, <4>1, <4>2
    <3>2. ASSUME NEW e \in B, NEW f \in Events \union B, SameKey(e, f) PROVE e = f
      <4>1. e.run \in RunIds(B) /\ e.run = f.run /\ e.id = f.id
        BY <3>2 DEF RunIds, SameKey
      <4>2. NoConflict(OfRun(Events \union B, e.run))
        BY <3>1, <4>1 DEF ValidRun
      <4>3. e \in OfRun(Events \union B, e.run) /\ f \in OfRun(Events \union B, e.run)
        BY <4>1 DEF OfRun
      <4> QED
        BY <4>1, <4>2, <4>3 DEF NoConflict
    <3> QED
      BY <3>1, <3>2 DEF Admissible, Conflicts
  <2> QED
    BY <2>2, <2>3
<1> QED
  BY <1>1, HealsInductive, PTL

-----------------------------------------------------------------------------
(* Sums over finite sets. *)

\* Some of the subsets of a finite set, one of them without a smaller one.
LEMMA Minimal ==
  ASSUME NEW S, IsFiniteSet(S), NEW B, B \subseteq SUBSET S, B # {}
  PROVE  \E T \in B : \A U \in B : U \subseteq T => U = T
<1> DEFINE R == StrictSubsetOrdering(S)
<1>1. IsWellFoundedOn(R, FiniteSubsetsOf(S))
  BY FS_StrictSubsetOrderingWellFounded
<1>2. B \subseteq FiniteSubsetsOf(S)
  BY FS_Subset DEF FiniteSubsetsOf
<1>3. PICK T \in B : \A U \in B : ~(<<U, T>> \in R)
  <2> HIDE DEF R
  <2> QED
    BY <1>1, <1>2, WFMin
<1>4. ASSUME NEW U \in B, U \subseteq T, U # T PROVE FALSE
  <2>1. <<U, T>> \in R
    BY <1>4 DEF StrictSubsetOrdering
  <2> QED
    BY <1>3, <2>1
<1> QED
  BY <1>4

Pick(s) == CHOOSE x \in s : TRUE
Partial(f, it, S) ==
    it = [s \in SUBSET S |-> IF s = {} THEN 0 ELSE f[Pick(s)] + it[s \ {Pick(s)}]]

LEMMA Picked == \A s : s # {} => Pick(s) \in s
BY DEF Pick

LEMMA Unfold ==
  ASSUME NEW f, NEW S
  PROVE  SumFunctionOnSet(f, S) = (CHOOSE it : Partial(f, it, S))[S]
BY SMTT(30) DEF SumFunctionOnSet, FoldFunctionOnSet, MapThenFoldSet, Partial, Pick

\* The recursion of the sum has a solution.
LEMMA PartialExists ==
  ASSUME NEW f, NEW S, IsFiniteSet(S)
  PROVE  \E it : Partial(f, it, S)
<1> DEFINE G(s, v) == IF s = {} THEN 0 ELSE f[Pick(s)] + v
           Small(n) == {s \in SUBSET S : Cardinality(s) <= n}
           Upto(n) == \E it : it = [s \in Small(n) |-> G(s, it[s \ {Pick(s)}])]
           Bad == {n \in Nat : ~Upto(n)}
<1>1. \A s \in SUBSET S : Cardinality(s) \in Nat /\ (s # {} => Cardinality(s) # 0)
  BY FS_Subset, FS_CardinalityType, FS_EmptySet
<1>a. \A s \in SUBSET S : s # {} =>
        s \ {Pick(s)} \in SUBSET S /\ Cardinality(s \ {Pick(s)}) = Cardinality(s) - 1
  BY FS_Subset, FS_RemoveElement, Picked
<1>g. \A v, w : G({}, v) = G({}, w)
  OBVIOUS
<1>s. \A s \in SUBSET S, n \in Nat : s \in Small(n) <=> Cardinality(s) <= n
  OBVIOUS
<1>t. \A n : Small(n) \subseteq SUBSET S
  OBVIOUS
<1> HIDE DEF G, Small
<1>2. Upto(0)
  <2>1. \A s \in Small(0) : s = {}
    <3> TAKE s \in Small(0)
    <3>1. Cardinality(s) <= 0 /\ s \in SUBSET S
      BY <1>s, <1>t
    <3> QED
      BY <3>1, <1>1
  <2> DEFINE it == [s \in Small(0) |-> G(s, 0)]
  <2>2. \A s \in Small(0) : G(s, 0) = G(s, it[s \ {Pick(s)}])
    BY <2>1, <1>g
  <2>3. it = [s \in Small(0) |-> G(s, it[s \ {Pick(s)}])]
    BY <2>2
  <2> QED
    BY <2>3
<1>3. ASSUME NEW n \in Nat, Upto(n) PROVE Upto(n + 1)
  <2>1. PICK it : it = [s \in Small(n) |-> G(s, it[s \ {Pick(s)}])]
    BY <1>3
  <2> DEFINE new == [s \in Small(n + 1) |-> G(s, it[s \ {Pick(s)}])]
  <2>2. \A s \in Small(n) : s \in Small(n + 1)
    BY <1>s, <1>t, <1>1
  <2>3. \A s \in Small(n) : new[s] = it[s]
    BY <2>1, <2>2
  <2>4. \A s \in Small(n + 1) : s # {} => s \ {Pick(s)} \in Small(n)
    BY <1>s, <1>t, <1>1, <1>a
  <2>5. \A s \in Small(n + 1) : G(s, it[s \ {Pick(s)}]) = G(s, new[s \ {Pick(s)}])
    <3> HIDE DEF new
    <3> QED
      BY <2>3, <2>4, <1>g
  <2>6. new = [s \in Small(n + 1) |-> G(s, new[s \ {Pick(s)}])]
    BY <2>5
  <2> QED
    BY <2>6
<1> HIDE DEF Upto
<1>4. Bad = {}
  <2> SUFFICES ASSUME Bad # {} PROVE FALSE
    OBVIOUS
  <2> DEFINE k == Min(Bad)
  <2>1. k \in Bad /\ \A x \in Bad : k <= x
    <3>1. Bad \in SUBSET Nat
      OBVIOUS
    <3> HIDE DEF Bad
    <3> QED
      BY <3>1, Least
  <2> HIDE DEF k
  <2>2. k \in Nat /\ ~Upto(k) /\ k # 0 /\ k - 1 \in Nat /\ k = (k - 1) + 1
    BY <2>1, <1>2
  <2>3. Upto(k - 1)
    BY <2>1, <2>2
  <2> QED
    BY <2>2, <2>3, <1>3
<1> DEFINE n == Cardinality(S)
<1>5. n \in Nat /\ \A s \in SUBSET S : Cardinality(s) <= n
  BY FS_Subset, FS_CardinalityType
<1>6. Small(n) = SUBSET S
  BY <1>5, <1>s, <1>t
<1>7. Upto(n)
  BY <1>4, <1>5
<1>8. PICK it : it = [s \in SUBSET S |-> G(s, it[s \ {Pick(s)}])]
  BY <1>6, <1>7 DEF Upto
<1> QED
  BY <1>8 DEF Partial, G

\* Two of its solutions agree where both are defined.
LEMMA PartialSame ==
  ASSUME NEW f, NEW S, IsFiniteSet(S), NEW T, T \subseteq S,
         NEW it, Partial(f, it, S), NEW jt, Partial(f, jt, T)
  PROVE  it[T] = jt[T]
<1> DEFINE Bad == {U \in SUBSET T : it[U] # jt[U]}
<1> SUFFICES ASSUME Bad # {} PROVE FALSE
  OBVIOUS
<1>1. IsFiniteSet(T)
  BY FS_Subset
<1>2. PICK U \in Bad : \A V \in Bad : V \subseteq U => V = U
  <2>1. Bad \subseteq SUBSET T
    OBVIOUS
  <2> HIDE DEF Bad
  <2> QED
    BY <1>1, <2>1, Minimal
<1>3. /\ it[U] = IF U = {} THEN 0 ELSE f[Pick(U)] + it[U \ {Pick(U)}]
      /\ jt[U] = IF U = {} THEN 0 ELSE f[Pick(U)] + jt[U \ {Pick(U)}]
  BY DEF Partial
<1>4. U # {}
  BY <1>3
<1>5. U \ {Pick(U)} \in SUBSET T /\ U \ {Pick(U)} # U
  BY <1>4, Picked
<1>6. it[U \ {Pick(U)}] = jt[U \ {Pick(U)}]
  BY <1>2, <1>5
<1> QED
  BY <1>3, <1>6

LEMMA SumEmpty == \A f : SumFunctionOnSet(f, {}) = 0
<1> TAKE f
<1>1. IsFiniteSet({})
  BY FS_EmptySet
<1> DEFINE it == CHOOSE i : Partial(f, i, {})
<1>2. Partial(f, it, {})
  BY <1>1, PartialExists
<1>3. SumFunctionOnSet(f, {}) = it[{}]
  BY Unfold
<1> HIDE DEF it
<1> QED
  BY <1>2, <1>3 DEF Partial

LEMMA SumStep ==
  ASSUME NEW f, NEW S, IsFiniteSet(S), S # {}
  PROVE  SumFunctionOnSet(f, S) = f[Pick(S)] + SumFunctionOnSet(f, S \ {Pick(S)})
<1> DEFINE T == S \ {Pick(S)}
           it == CHOOSE i : Partial(f, i, S)
           jt == CHOOSE i : Partial(f, i, T)
<1>1. IsFiniteSet(T)
  BY FS_RemoveElement
<1>2. Partial(f, it, S) /\ SumFunctionOnSet(f, S) = it[S]
  BY PartialExists, Unfold
<1>3. Partial(f, jt, T) /\ SumFunctionOnSet(f, T) = jt[T]
  <2> HIDE DEF T
  <2> QED
    BY <1>1, PartialExists, Unfold
<1> HIDE DEF it, jt
<1>4. it[T] = jt[T]
  BY <1>2, <1>3, PartialSame
<1>5. it[S] = f[Pick(S)] + it[T]
  BY <1>2 DEF Partial
<1> QED
  BY <1>2, <1>3, <1>4, <1>5

\* Sums of integers.
LEMMA SumInt ==
  ASSUME NEW f, NEW S, IsFiniteSet(S), \A x \in S : f[x] \in Int
  PROVE  SumFunctionOnSet(f, S) \in Int
<1> DEFINE Bad == {T \in SUBSET S : SumFunctionOnSet(f, T) \notin Int}
<1> SUFFICES ASSUME Bad # {} PROVE FALSE
  OBVIOUS
<1>1. PICK T \in Bad : \A U \in Bad : U \subseteq T => U = T
  <2>1. Bad \subseteq SUBSET S
    OBVIOUS
  <2> HIDE DEF Bad
  <2> QED
    BY <2>1, Minimal
<1>2. IsFiniteSet(T) /\ T # {}
  <2>1. SumFunctionOnSet(f, {}) \in Int
    BY SumEmpty
  <2> QED
    BY <2>1, FS_Subset
<1>3. SumFunctionOnSet(f, T) = f[Pick(T)] + SumFunctionOnSet(f, T \ {Pick(T)})
  BY <1>2, SumStep
<1>4. Pick(T) \in T
  BY <1>2, Picked
<1>5. SumFunctionOnSet(f, T \ {Pick(T)}) \in Int
  BY <1>1, <1>4
<1> QED
  BY <1>3, <1>4, <1>5

\* The order of summation does not matter.
LEMMA SumTake ==
  ASSUME NEW f, NEW S, IsFiniteSet(S), \A x \in S : f[x] \in Int, NEW x \in S
  PROVE  SumFunctionOnSet(f, S) = f[x] + SumFunctionOnSet(f, S \ {x})
<1> DEFINE Sum(T) == SumFunctionOnSet(f, T)
           Bad == {T \in SUBSET S : \E z \in T : Sum(T) # f[z] + Sum(T \ {z})}
<1>1. \A T \in SUBSET S : T \notin Bad => \A z \in T : Sum(T) = f[z] + Sum(T \ {z})
  OBVIOUS
<1> SUFFICES ASSUME Bad # {} PROVE FALSE
  <2> HIDE DEF Sum, Bad
  <2>1. Bad = {} => Sum(S) = f[x] + Sum(S \ {x})
    BY <1>1
  <2> QED
    BY <2>1 DEF Sum
<1>2. PICK T \in Bad : \A U \in Bad : U \subseteq T => U = T
  <2>1. Bad \subseteq SUBSET S
    OBVIOUS
  <2> HIDE DEF Bad
  <2> QED
    BY <2>1, Minimal
<1>3. T \in SUBSET S /\ \E z \in T : Sum(T) # f[z] + Sum(T \ {z})
  OBVIOUS
<1>4. PICK z \in T : Sum(T) # f[z] + Sum(T \ {z})
  BY <1>3
<1>5. IsFiniteSet(T)
  BY <1>3, FS_Subset
<1> DEFINE y == Pick(T)
<1>6. Sum(T) = f[y] + Sum(T \ {y}) /\ y \in T
  BY <1>4, <1>5, SumStep, Picked
<1> HIDE DEF y
<1>7. y # z
  BY <1>4, <1>6
<1> DEFINE U == T \ {z, y}
<1>8. Sum(T \ {y}) = f[z] + Sum(U)
  <2>1. T \ {y} \in SUBSET S /\ z \in T \ {y} /\ T \ {y} # T
    BY <1>3, <1>4, <1>6, <1>7
  <2>2. T \ {y} \notin Bad
    <3> HIDE DEF Bad
    <3> QED
      BY <1>2, <2>1
  <2>3. (T \ {y}) \ {z} = U
    OBVIOUS
  <2> HIDE DEF Sum, U, Bad
  <2> QED
    BY <1>1, <2>1, <2>2, <2>3
<1>9. Sum(T \ {z}) = f[y] + Sum(U)
  <2>1. T \ {z} \in SUBSET S /\ y \in T \ {z} /\ T \ {z} # T
    BY <1>3, <1>4, <1>6, <1>7
  <2>2. T \ {z} \notin Bad
    <3> HIDE DEF Bad
    <3> QED
      BY <1>2, <2>1
  <2>3. (T \ {z}) \ {y} = U
    OBVIOUS
  <2> HIDE DEF Sum, U, Bad
  <2> QED
    BY <1>1, <2>1, <2>2, <2>3
<1>10. Sum(U) \in Int
  <2>1. IsFiniteSet(U) /\ \A u \in U : f[u] \in Int
    BY <1>3, <1>5, FS_Subset
  <2> HIDE DEF U
  <2> QED
    BY <2>1, SumInt
<1>11. f[y] \in Int /\ f[z] \in Int
  BY <1>3, <1>4, <1>6
<1> HIDE DEF Sum, U, Bad
<1> QED
  BY <1>4, <1>6, <1>8, <1>9, <1>10, <1>11

LEMMA SumInto ==
  ASSUME NEW f, NEW S, IsFiniteSet(S), NEW x, x \notin S,
         f[x] \in Int, \A y \in S : f[y] \in Int
  PROVE  SumFunctionOnSet(f, S \union {x}) = f[x] + SumFunctionOnSet(f, S)
<1> DEFINE T == S \union {x}
<1>1. IsFiniteSet(T) /\ x \in T /\ (\A y \in T : f[y] \in Int) /\ T \ {x} = S
  BY FS_AddElement
<1> HIDE DEF T
<1>2. SumFunctionOnSet(f, T) = f[x] + SumFunctionOnSet(f, T \ {x})
  BY <1>1, SumTake
<1> QED
  BY <1>1, <1>2 DEF T

\* The sums of functions one of which adds up the others.
LEMMA SumPlus ==
  ASSUME NEW f, NEW g, NEW h, NEW S, IsFiniteSet(S),
         \A x \in S : f[x] \in Int /\ g[x] \in Int /\ h[x] = f[x] + g[x]
  PROVE  SumFunctionOnSet(h, S) = SumFunctionOnSet(f, S) + SumFunctionOnSet(g, S)
<1> DEFINE F(T) == SumFunctionOnSet(f, T)
           G(T) == SumFunctionOnSet(g, T)
           H(T) == SumFunctionOnSet(h, T)
           Bad == {T \in SUBSET S : H(T) # F(T) + G(T)}
<1> SUFFICES ASSUME Bad # {} PROVE FALSE
  OBVIOUS
<1>1. PICK T \in Bad : \A U \in Bad : U \subseteq T => U = T
  <2>1. Bad \subseteq SUBSET S
    OBVIOUS
  <2> HIDE DEF Bad
  <2> QED
    BY <2>1, Minimal
<1>2. T \in SUBSET S /\ H(T) # F(T) + G(T)
  OBVIOUS
<1>3. IsFiniteSet(T) /\ T # {}
  <2>1. F({}) = 0 /\ G({}) = 0 /\ H({}) = 0
    BY SumEmpty
  <2>2. H({}) = F({}) + G({})
    <3> HIDE DEF F, G, H
    <3> QED
      BY <2>1
  <2>3. IsFiniteSet(T)
    BY <1>2, FS_Subset
  <2> HIDE DEF F, G, H
  <2> QED
    BY <1>2, <2>2, <2>3
<1> DEFINE x == Pick(T)
           U == T \ {x}
<1>4. x \in T
  BY <1>3, Picked
<1>5. F(T) = f[x] + F(U) /\ G(T) = g[x] + G(U) /\ H(T) = h[x] + H(U)
  BY <1>3, SumStep
<1> HIDE DEF x
<1>6. U \in SUBSET S /\ U # T /\ U \subseteq T /\ IsFiniteSet(U)
  BY <1>2, <1>3, <1>4, FS_RemoveElement
<1>7. H(U) = F(U) + G(U)
  <2>1. U \notin Bad
    BY <1>1, <1>6
  <2> HIDE DEF F, G, H, U
  <2> QED
    BY <1>6, <2>1
<1>8. \A u \in U : f[u] \in Int /\ g[u] \in Int
  BY <1>6
<1>9. F(U) \in Int /\ G(U) \in Int
  <2> HIDE DEF U
  <2> QED
    BY <1>6, <1>8, SumInt
<1>10. f[x] \in Int /\ g[x] \in Int /\ h[x] = f[x] + g[x]
  BY <1>2, <1>4
<1> HIDE DEF F, G, H, U, Bad
<1> QED
  BY <1>2, <1>5, <1>7, <1>9, <1>10

LEMMA SumSame ==
  ASSUME NEW f, NEW g, NEW S, IsFiniteSet(S),
         \A x \in S : f[x] \in Int /\ g[x] = f[x]
  PROVE  SumFunctionOnSet(g, S) = SumFunctionOnSet(f, S)
<1> DEFINE Bad == {T \in SUBSET S : SumFunctionOnSet(g, T) # SumFunctionOnSet(f, T)}
<1> SUFFICES ASSUME Bad # {} PROVE FALSE
  OBVIOUS
<1>1. PICK T \in Bad : \A U \in Bad : U \subseteq T => U = T
  <2>1. Bad \subseteq SUBSET S
    OBVIOUS
  <2> HIDE DEF Bad
  <2> QED
    BY <2>1, Minimal
<1>2. T \in SUBSET S /\ SumFunctionOnSet(g, T) # SumFunctionOnSet(f, T)
  OBVIOUS
<1>3. IsFiniteSet(T) /\ T # {}
  BY <1>2, FS_Subset, SumEmpty
<1> DEFINE x == Pick(T)
           U == T \ {x}
<1>4. x \in T
  BY <1>3, Picked
<1>5. /\ SumFunctionOnSet(f, T) = f[x] + SumFunctionOnSet(f, U)
      /\ SumFunctionOnSet(g, T) = g[x] + SumFunctionOnSet(g, U)
  BY <1>3, SumStep
<1> HIDE DEF x
<1>6. U \in SUBSET S /\ U # T /\ U \subseteq T
  BY <1>2, <1>4
<1>7. SumFunctionOnSet(g, U) = SumFunctionOnSet(f, U)
  BY <1>1, <1>6
<1> HIDE DEF U
<1> QED
  BY <1>2, <1>4, <1>5, <1>7

LEMMA SumZero ==
  ASSUME NEW f, NEW S, IsFiniteSet(S), \A x \in S : f[x] = 0
  PROVE  SumFunctionOnSet(f, S) = 0
<1> DEFINE Bad == {T \in SUBSET S : SumFunctionOnSet(f, T) # 0}
<1> SUFFICES ASSUME Bad # {} PROVE FALSE
  OBVIOUS
<1>1. PICK T \in Bad : \A U \in Bad : U \subseteq T => U = T
  <2>1. Bad \subseteq SUBSET S
    OBVIOUS
  <2> HIDE DEF Bad
  <2> QED
    BY <2>1, Minimal
<1>2. T \in SUBSET S /\ SumFunctionOnSet(f, T) # 0
  OBVIOUS
<1>3. IsFiniteSet(T) /\ T # {}
  BY <1>2, FS_Subset, SumEmpty
<1> DEFINE x == Pick(T)
           U == T \ {x}
<1>4. x \in T
  BY <1>3, Picked
<1>5. SumFunctionOnSet(f, T) = f[x] + SumFunctionOnSet(f, U)
  BY <1>3, SumStep
<1> HIDE DEF x
<1>6. U \in SUBSET S /\ U # T /\ U \subseteq T
  BY <1>2, <1>4
<1>7. SumFunctionOnSet(f, U) = 0
  BY <1>1, <1>6
<1> HIDE DEF U
<1> QED
  BY <1>2, <1>4, <1>5, <1>7

\* What is summed in two parts.
LEMMA SumParts ==
  ASSUME NEW f, NEW S, IsFiniteSet(S), \A x \in S : f[x] \in Int,
         NEW A, A \subseteq S
  PROVE  SumFunctionOnSet(f, S) = SumFunctionOnSet(f, A) + SumFunctionOnSet(f, S \ A)
<1> DEFINE Sum(T) == SumFunctionOnSet(f, T)
           Bad == {T \in SUBSET A : Sum(S) # Sum(T) + Sum(S \ T)}
<1>1. Sum(S) \in Int /\ \A T \in SUBSET S : IsFiniteSet(T) /\ Sum(T) \in Int
  <2>1. \A T \in SUBSET S : IsFiniteSet(T) /\ \A x \in T : f[x] \in Int
    BY FS_Subset
  <2>2. \A T \in SUBSET S : Sum(T) \in Int
    BY <2>1, SumInt
  <2> QED
    BY <2>1, <2>2
<1> SUFFICES ASSUME Bad # {} PROVE FALSE
  OBVIOUS
<1>2. PICK T \in Bad : \A U \in Bad : U \subseteq T => U = T
  <2>1. Bad \subseteq SUBSET A /\ IsFiniteSet(A)
    BY <1>1
  <2> HIDE DEF Bad
  <2> QED
    BY <2>1, Minimal
<1>3. T \in SUBSET A /\ Sum(S) # Sum(T) + Sum(S \ T)
  OBVIOUS
<1>4. T # {}
  <2>1. Sum({}) = 0
    BY SumEmpty
  <2>2. S \ {} = S
    OBVIOUS
  <2>3. Sum(S) = Sum({}) + Sum(S \ {})
    <3>1. Sum(S \ {}) = Sum(S)
      BY <2>2
    <3> HIDE DEF Sum
    <3> QED
      BY <1>1, <2>1, <3>1
  <2> HIDE DEF Sum
  <2> QED
    BY <1>3, <2>3
<1>5. PICK x \in T : TRUE
  BY <1>4
<1> DEFINE U == T \ {x}
<1>6. x \in S /\ f[x] \in Int /\ U \in SUBSET A /\ U # T /\ U \subseteq T /\ U \in SUBSET S
  BY <1>3
<1>7. Sum(S) = Sum(U) + Sum(S \ U)
  <2>1. U \notin Bad
    <3> HIDE DEF Bad
    <3> QED
      BY <1>2, <1>6
  <2> HIDE DEF Sum, U
  <2> QED
    BY <1>6, <2>1
<1>8. Sum(T) = f[x] + Sum(U)
  <2>1. IsFiniteSet(T) /\ \A y \in T : f[y] \in Int
    BY <1>1, <1>3
  <2> QED
    BY <2>1, SumTake
<1>9. Sum(S \ U) = f[x] + Sum(S \ T)
  <2> DEFINE V == S \ U
  <2>1. V \in SUBSET S /\ x \in V /\ V \ {x} = S \ T
    BY <1>6
  <2>2. IsFiniteSet(V) /\ \A y \in V : f[y] \in Int
    BY <1>1, <2>1
  <2> HIDE DEF V
  <2>3. Sum(V) = f[x] + Sum(V \ {x})
    BY <2>1, <2>2, SumTake
  <2> QED
    BY <2>1, <2>3 DEF V
<1>10. Sum(U) \in Int /\ Sum(S \ T) \in Int
  <2>1. S \ T \in SUBSET S
    OBVIOUS
  <2> HIDE DEF Sum, U
  <2> QED
    BY <1>1, <1>6, <2>1
<1> HIDE DEF Sum, U, Bad
<1> QED
  BY <1>3, <1>6, <1>7, <1>8, <1>9, <1>10

-----------------------------------------------------------------------------
(* What a stream adds up to. *)

\* What ingest and summarize_run judged of a stream.
Measuring(R) ==
    /\ IsFiniteSet(R) /\ ValidStream(R)
    /\ \A e \in R : /\ e.value \in Nat \union {Null} /\ e.seq \in Nat
                    /\ \/ e.mode = "delta" /\ e.baseline = "none"
                       \/ e.mode = "snapshot" /\ e.baseline \in {"zero", "start"}
Measured(R) == {e \in R : e.value # Null}
Before(R, k) == {e \in R : e.seq < k}
Final(M) == CHOOSE f \in M : \A g \in M : g.seq <= f.seq
Base(R) == IF \E e \in R : e.baseline = "start"
           THEN Min({e.value : e \in Measured(R)}) ELSE 0
Contributions(R) == [e \in R |-> Contribution(R, e)]

LEMMA FiniteImage ==
  ASSUME NEW S, IsFiniteSet(S), NEW f
  PROVE  IsFiniteSet({f[x] : x \in S})
<1> DEFINE T == {f[x] : x \in S}
           g == [x \in S |-> f[x]]
<1>1. g \in Surjection(S, T)
  BY DEF Surjection
<1> HIDE DEF g
<1> QED
  BY <1>1, FS_Surjection

\* Some samples have a last one.
LEMMA FinalOne ==
  ASSUME NEW M, IsFiniteSet(M), M # {}, \A e \in M : e.seq \in Nat
  PROVE  Final(M) \in M /\ \A e \in M : e.seq <= Final(M).seq
<1> DEFINE S == {e.seq : e \in M}
<1>1. IsFiniteSet(S) /\ S \in SUBSET Nat /\ S # {}
  <2> DEFINE f == [e \in M |-> e.seq]
             T == {f[e] : e \in M}
  <2>1. IsFiniteSet(T)
    <3> HIDE DEF f
    <3> QED
      BY FiniteImage
  <2>2. T = S
    OBVIOUS
  <2> QED
    BY <2>1, <2>2
<1>2. PICK n \in Nat : \A x \in S : x <= n
  <2> HIDE DEF S
  <2> QED
    BY <1>1, FiniteBound
<1> DEFINE m == Max(S)
<1>3. m \in S /\ \A x \in S : x <= m
  <2> HIDE DEF S
  <2> QED
    BY <1>1, <1>2, Greatest
<1> HIDE DEF m
<1>4. PICK f \in M : f.seq = m
  BY <1>3
<1>5. \A g \in M : g.seq <= f.seq
  BY <1>3, <1>4
<1> QED
  BY <1>5 DEF Final

LEMMA PreviousOf ==
  ASSUME NEW R, NEW e
  PROVE  LET M == Measured(Before(R, e.seq))
         IN  Previous(R, e) = IF M = {} THEN Null ELSE Final(M).value
<1> DEFINE M == Measured(Before(R, e.seq))
           N == {f \in R : f.seq < e.seq /\ f.value # Null}
<1>1. M = N
  BY DEF Measured, Before
<1>2. Previous(R, e) = IF N = {} THEN Null ELSE Final(N).value
  BY DEF Previous, Final
<1> QED
  BY <1>1, <1>2

LEMMA Finite ==
  ASSUME NEW R, Measuring(R), NEW k
  PROVE  /\ IsFiniteSet(Before(R, k)) /\ IsFiniteSet(Measured(Before(R, k)))
         /\ Before(R, k) \subseteq R /\ Measured(Before(R, k)) \subseteq R
         /\ IsFiniteSet(Measured(R)) /\ Measured(R) \subseteq R
         /\ \A e \in Measured(R) : e.value \in Nat
BY FS_Subset DEF Measuring, Before, Measured

LEMMA AddedInt ==
  ASSUME NEW R, Measuring(R)
  PROVE  \A e \in R : Contributions(R)[e] \in Int
<1> SUFFICES ASSUME NEW e \in R PROVE Contribution(R, e) \in Int
  BY DEF Contributions
<1> DEFINE M == Measured(Before(R, e.seq))
<1>1. IsFiniteSet(M) /\ M \subseteq R
  BY Finite
<1>2. \A f \in R : f.seq \in Nat /\ f.value \in Int
  BY DEF Measuring, Null
<1>3. Previous(R, e) \in Int
  <2>1. Previous(R, e) = IF M = {} THEN Null ELSE Final(M).value
    BY PreviousOf
  <2>2. M # {} => Final(M) \in M
    <3> HIDE DEF M
    <3> QED
      BY <1>1, <1>2, FinalOne
  <2> HIDE DEF M
  <2> QED
    BY <1>1, <1>2, <2>1, <2>2 DEF Null
<1> HIDE DEF M
<1> QED
  BY <1>2, <1>3 DEF Contribution, FromNothing

LEMMA BaseInt ==
  ASSUME NEW R, Measuring(R), Measured(R) # {}
  PROVE  Base(R) \in Int
<1> DEFINE V == {e.value : e \in Measured(R)}
<1>1. V \in SUBSET Nat /\ V # {}
  BY Finite
<1>2. Min(V) \in V
  <2> HIDE DEF V
  <2> QED
    BY <1>1, Least
<1>3. Min(V) \in Int
  BY <1>1, <1>2
<1> QED
  BY <1>3 DEF Base

\* One more sample of a cumulative counter: what was added so far is what lies
\* between the base and the last value measured.
Spanned(R, k) ==
    SumFunctionOnSet(Contributions(R), Before(R, k)) =
      (IF Measured(Before(R, k)) = {} THEN 0
       ELSE Final(Measured(Before(R, k))).value - Base(R))

LEMMA FirstValue ==
  ASSUME NEW R, Measuring(R), NEW e \in R, e.value # Null, e.mode = "snapshot",
         \A f \in Measured(R) : e.seq <= f.seq
  PROVE  FromNothing(e) = e.value - Base(R)
<1> DEFINE V == {f.value : f \in Measured(R)}
<1>1. e \in Measured(R) /\ \A f \in Measured(R) : e.value <= f.value
  <2>1. Grows(R)
    BY DEF Measuring, ValidStream
  <2>2. e \in Measured(R)
    BY DEF Measured
  <2>3. ASSUME NEW f \in Measured(R) PROVE e.value <= f.value
    <3>1. f \in R /\ f.value # Null /\ f.value \in Nat /\ e.value \in Nat
      BY <2>2, Finite DEF Measured
    <3>2. e.seq \in Nat /\ f.seq \in Nat /\ e.seq <= f.seq /\ (e.seq = f.seq => e = f)
      BY <3>1 DEF Measuring, ValidStream
    <3>3. e.seq < f.seq => e.value <= f.value
      <4>1. Null \notin {e.value, f.value}
        BY <3>1
      <4> QED
        BY <2>1, <3>1, <4>1 DEF Grows
    <3> QED
      BY <3>1, <3>2, <3>3
  <2> QED
    BY <2>2, <2>3
<1>2. e.value \in Nat
  BY <1>1, Finite
<1>3. Min(V) = e.value
  <2>1. e.value \in V /\ V \in SUBSET Nat /\ \A v \in V : e.value <= v
    BY <1>1, Finite
  <2>2. Min(V) \in V /\ \A v \in V : Min(V) <= v
    <3> HIDE DEF V
    <3> QED
      BY <2>1, Least
  <2> DEFINE m == Min(V)
  <2>3. m \in V /\ \A v \in V : m <= v
    BY <2>2
  <2> HIDE DEF V, m
  <2>4. m = e.value
    <3>1. m \in Nat /\ m <= e.value /\ e.value <= m
      BY <2>1, <2>3
    <3> QED
      BY <1>2, <3>1
  <2> QED
    BY ONLY <2>4 DEF m
<1>4. e.baseline \in {"zero", "start"}
  BY DEF Measuring
<1>5. \A f \in R : f.baseline = e.baseline
  BY DEF Measuring, ValidStream
<1> QED
  BY <1>2, <1>3, <1>4, <1>5 DEF Base, FromNothing


LEMMA SpannedMore ==
  ASSUME NEW R, Measuring(R), \A e \in R : e.mode = "snapshot",
         NEW k \in Nat, Spanned(R, k)
  PROVE  Spanned(R, k + 1)
<1> DEFINE c == Contributions(R)
           B == Before(R, k)
           M == Measured(B)
<1>1. \A e, f \in R : e.seq \in Nat /\ (e.seq = f.seq => e = f)
  BY DEF Measuring, ValidStream
<1>2. SumFunctionOnSet(c, B) = (IF M = {} THEN 0 ELSE Final(M).value - Base(R))
  BY DEF Spanned
<1>3. CASE \A e \in R : e.seq # k
  <2>1. Before(R, k + 1) = B
    BY <1>1, <1>3 DEF Before
  <2> QED
    BY <1>2, <2>1 DEF Spanned
<1>4. CASE \E e \in R : e.seq = k
  <2>1. PICK e \in R : e.seq = k
    BY <1>4
  <2>2. Before(R, k + 1) = B \union {e} /\ e \notin B
    BY <1>1, <2>1 DEF Before
  <2>3. SumFunctionOnSet(c, B \union {e}) = c[e] + SumFunctionOnSet(c, B)
    <3>1. IsFiniteSet(B) /\ B \subseteq R
      BY Finite
    <3>2. c[e] \in Int /\ \A f \in B : c[f] \in Int
      BY <3>1, AddedInt
    <3> HIDE DEF c, B
    <3> QED
      BY <2>2, <3>1, <3>2, SumInto
  <2>4. c[e] = Contribution(R, e)
    BY DEF Contributions
  <2>5. CASE e.value = Null
    <3>1. Measured(B \union {e}) = M
      BY <2>5 DEF Measured
    <3>2. c[e] = 0
      BY <2>4, <2>5 DEF Contribution
    <3>3. SumFunctionOnSet(c, B) \in Int
      <4>1. IsFiniteSet(B) /\ B \subseteq R
        BY Finite
      <4>2. \A f \in B : c[f] \in Int
        BY <4>1, AddedInt
      <4> HIDE DEF c, B
      <4> QED
        BY <4>1, <4>2, SumInt
    <3>4. SumFunctionOnSet(c, B \union {e}) = SumFunctionOnSet(c, B)
      <4> HIDE DEF c, B
      <4> QED
        BY <2>3, <3>2, <3>3
    <3> HIDE DEF c, B, M
    <3>5. SumFunctionOnSet(c, B \union {e}) =
            (IF Measured(B \union {e}) = {} THEN 0
             ELSE Final(Measured(B \union {e})).value - Base(R))
      BY <1>2, <3>1, <3>4
    <3> QED
      BY <2>2, <3>5 DEF Spanned, c
  <2>6. CASE e.value # Null
    <3> DEFINE N == Measured(B \union {e})
    <3>1. N = M \union {e}
      BY <2>6 DEF Measured
    <3>2. Final(N) = e
      <4>1. IsFiniteSet(N) /\ N # {} /\ N \subseteq R /\ e \in N
        <5>1. N = Measured(Before(R, k + 1))
          BY <2>2
        <5>2. IsFiniteSet(N) /\ N \subseteq R
          <6> HIDE DEF N
          <6> QED
            BY <5>1, Finite
        <5> QED
          BY <3>1, <5>2
      <4>2. \A f \in N : f.seq \in Nat /\ f.seq <= k
        <5>1. \A f \in N : f \in R /\ (f \in B \/ f = e)
          BY <4>1 DEF Measured
        <5> HIDE DEF N
        <5> QED
          BY <1>1, <2>1, <5>1 DEF Before
      <4>3. Final(N) \in N /\ \A f \in N : f.seq <= Final(N).seq
        <5> HIDE DEF N
        <5> QED
          BY <4>1, <4>2, FinalOne
      <4> HIDE DEF N
      <4>4. Final(N).seq = k /\ Final(N) \in R
        BY <2>1, <4>1, <4>2, <4>3
      <4> QED
        BY <1>1, <2>1, <4>4
    <3>3. Previous(R, e) = IF M = {} THEN Null ELSE Final(M).value
      BY <2>1, PreviousOf
    <3>4. e.mode = "snapshot" /\ e.value \in Nat
      BY <2>6 DEF Measuring
    <3>5. c[e] + SumFunctionOnSet(c, B) = e.value - Base(R)
      <4>1. CASE M = {}
        <5>1. \A f \in Measured(R) : e.seq <= f.seq
          BY <1>1, <2>1, <4>1 DEF Measured, Before
        <5>2. FromNothing(e) = e.value - Base(R)
          BY <2>6, <3>4, <5>1, FirstValue
        <5>3. c[e] = FromNothing(e)
          BY <2>4, <2>6, <3>3, <3>4, <4>1 DEF Contribution
        <5>4. FromNothing(e) \in Int
          BY <3>4 DEF FromNothing
        <5> HIDE DEF c, B, M
        <5> QED
          BY <1>2, <4>1, <5>2, <5>3, <5>4
      <4>2. CASE M # {}
        <5>1. M \subseteq R /\ IsFiniteSet(M)
          BY Finite
        <5>2. \A f \in M : f.value \in Nat /\ f.value # Null
          BY <5>1 DEF Measured, Measuring
        <5>3. Final(M) \in M
          <6> HIDE DEF M
          <6> QED
            BY <4>2, <5>1, <1>1, FinalOne
        <5>4. Final(M).value \in Nat /\ Final(M).value # Null
          <6> HIDE DEF M
          <6> QED
            BY <5>2, <5>3
        <5>5. c[e] = e.value - Final(M).value
          <6> HIDE DEF M
          <6> QED
            BY <2>4, <2>6, <3>3, <3>4, <4>2, <5>4 DEF Contribution
        <5>6. Base(R) \in Int
          BY BaseInt, <3>4, <2>6 DEF Measured
        <5> HIDE DEF c, B, M
        <5> QED
          BY <1>2, <3>4, <4>2, <5>4, <5>5, <5>6
      <4> QED
        BY <4>1, <4>2
    <3>6. N # {}
      BY <3>1
    <3> HIDE DEF c, B, M, N
    <3>7. SumFunctionOnSet(c, B \union {e}) =
            (IF N = {} THEN 0 ELSE Final(N).value - Base(R))
      BY <2>3, <3>2, <3>5, <3>6
    <3> QED
      BY <2>2, <3>7 DEF Spanned, c, N
  <2> QED
    BY <2>5, <2>6
<1> QED
  BY <1>3, <1>4


LEMMA SpannedAll ==
  ASSUME NEW R, Measuring(R), \A e \in R : e.mode = "snapshot"
  PROVE  SumFunctionOnSet(Contributions(R), R) =
           (IF Measured(R) = {} THEN 0 ELSE Final(Measured(R)).value - Base(R))
<1>1. Spanned(R, 0)
  <2>1. Before(R, 0) = {}
    BY DEF Before, Measuring
  <2>2. Measured({}) = {}
    BY DEF Measured
  <2> QED
    BY <2>1, <2>2, SumEmpty DEF Spanned
<1>2. \A k \in Nat : Spanned(R, k)
  <2> DEFINE Bad == {k \in Nat : ~Spanned(R, k)}
  <2> SUFFICES ASSUME Bad # {} PROVE FALSE
    OBVIOUS
  <2> DEFINE k == Min(Bad)
  <2>1. k \in Bad /\ \A x \in Bad : k <= x
    <3>1. Bad \in SUBSET Nat
      OBVIOUS
    <3> HIDE DEF Bad
    <3> QED
      BY <3>1, Least
  <2> HIDE DEF k
  <2>2. k \in Nat /\ ~Spanned(R, k) /\ k # 0 /\ k - 1 \in Nat /\ k = (k - 1) + 1
    BY <2>1, <1>1
  <2>3. Spanned(R, k - 1)
    BY <2>1, <2>2
  <2> QED
    BY <2>2, <2>3, SpannedMore
<1> DEFINE S == {e.seq : e \in R}
<1>3. IsFiniteSet(S) /\ S \in SUBSET Nat
  <2> DEFINE f == [e \in R |-> e.seq]
             T == {f[e] : e \in R}
  <2>1. IsFiniteSet(T)
    <3> HIDE DEF f
    <3> QED
      BY FiniteImage DEF Measuring
  <2>2. T = S
    OBVIOUS
  <2> QED
    BY <2>1, <2>2 DEF Measuring
<1>4. PICK n \in Nat : \A x \in S : x <= n
  <2> HIDE DEF S
  <2> QED
    BY <1>3, FiniteBound
<1>5. Before(R, n + 1) = R
  BY <1>3, <1>4 DEF Before
<1>6. Spanned(R, n + 1)
  BY <1>2
<1> QED
  BY <1>5, <1>6 DEF Spanned

LEMMA FinalValue ==
  ASSUME NEW R, Measuring(R), \A e \in R : e.mode = "snapshot", Measured(R) # {}
  PROVE  Final(Measured(R)).value = Max({e.value : e \in Measured(R)})
<1> DEFINE M == Measured(R)
           V == {e.value : e \in M}
           l == Final(M)
<1>1. IsFiniteSet(M) /\ M \subseteq R /\ \A e \in M : e.value \in Nat /\ e.value # Null
  BY Finite DEF Measured
<1>2. \A e, f \in R : e.seq \in Nat /\ (e.seq = f.seq => e = f)
  BY DEF Measuring, ValidStream
<1>3. l \in M /\ \A e \in M : e.seq <= l.seq
  <2>1. M # {} /\ \A e \in M : e.seq \in Nat
    BY <1>1, <1>2
  <2> HIDE DEF M
  <2> QED
    BY <1>1, <2>1, FinalOne
<1>4. Grows(R)
  BY <1>1 DEF Measuring, ValidStream
<1> HIDE DEF l, M
<1>5. \A e \in M : e.value <= l.value
  <2> TAKE e \in M
  <2>1. e \in R /\ l \in R /\ e.value \in Nat /\ l.value \in Nat /\ Null \notin {e.value, l.value}
    BY <1>1, <1>3
  <2>2. e.seq < l.seq \/ e = l
    BY <1>2, <1>3, <2>1
  <2>3. e.seq < l.seq => e.value <= l.value
    BY <1>4, <2>1 DEF Grows
  <2> QED
    BY <2>1, <2>2, <2>3
<1>6. l.value \in V /\ V \in SUBSET Nat /\ \A v \in V : v <= l.value
  BY <1>1, <1>3, <1>5
<1> DEFINE x == l.value
           m == Max(V)
<1>7. x \in Nat
  BY <1>6
<1>8. m \in V /\ \A v \in V : v <= m
  <2> HIDE DEF V, x
  <2>1. x \in V /\ V \in SUBSET Nat /\ \A v \in V : v <= x
    BY <1>6 DEF x
  <2> QED
    BY <1>7, <2>1, Greatest
<1> HIDE DEF m, V, x
<1>9. m = x
  <2>1. m \in Nat /\ m <= x /\ x <= m
    BY <1>6, <1>8 DEF x
  <2> QED
    BY <1>7, <2>1
<1> QED
  BY <1>9 DEF m, V, x, l, M

LEMMA DeltaSum ==
  ASSUME NEW R, Measuring(R), \A e \in R : e.mode = "delta"
  PROVE  SumFunctionOnSet(Contributions(R), R) = SumFunction([e \in Measured(R) |-> e.value])
<1> DEFINE c == Contributions(R)
           M == Measured(R)
           v == [e \in M |-> e.value]
<1>1. IsFiniteSet(M) /\ M \subseteq R /\ IsFiniteSet(R) /\ IsFiniteSet(R \ M)
  BY Finite, FS_Subset DEF Measuring
<1>2. \A e \in R : c[e] \in Int
  BY AddedInt
<1>3. \A e \in R : c[e] = IF e.value = Null THEN 0 ELSE e.value
  BY DEF Contributions, Contribution
<1>4. \A e \in R \ M : c[e] = 0
  BY <1>3 DEF Measured
<1>5. \A e \in M : v[e] \in Int /\ c[e] = v[e]
  BY <1>1, <1>2, <1>3 DEF Measured
<1>6. SumFunction(v) = SumFunctionOnSet(v, M)
  BY DEF SumFunction
<1> HIDE DEF c, M, v
<1>7. SumFunctionOnSet(c, R) = SumFunctionOnSet(c, M) + SumFunctionOnSet(c, R \ M)
  BY <1>1, <1>2, SumParts
<1>8. SumFunctionOnSet(c, R \ M) = 0
  BY <1>1, <1>4, SumZero
<1>9. SumFunctionOnSet(c, M) = SumFunctionOnSet(v, M)
  BY <1>1, <1>5, SumSame
<1>10. SumFunctionOnSet(v, M) \in Int
  BY <1>1, <1>5, SumInt
<1>11. SumFunctionOnSet(c, R) = SumFunction(v)
  BY <1>6, <1>7, <1>8, <1>9, <1>10
<1> QED
  BY <1>11 DEF c, v, M

\* What the events of a stream add is what the stream has reached.
LEMMA StreamSum ==
  ASSUME NEW R, Measuring(R)
  PROVE  SumFunctionOnSet(Contributions(R), R) = Reached(R)
<1> DEFINE M == Measured(R)
           V == {e.value : e \in M}
<1>1. Reached(R) =
        IF V = {} THEN 0
        ELSE IF \E e \in R : e.mode = "delta" THEN SumFunction([e \in M |-> e.value])
        ELSE IF \E e \in R : e.baseline = "start" THEN Max(V) - Min(V) ELSE Max(V)
  BY DEF Reached, Measured
<1>2. \A e, f \in R : e.mode = f.mode /\ e.baseline = f.baseline
  BY DEF Measuring, ValidStream
<1>3. \A e \in R : e.mode \in {"delta", "snapshot"}
  BY DEF Measuring
<1>4. V = {} <=> M = {}
  OBVIOUS
<1>5. CASE M = {}
  <2> DEFINE c == Contributions(R)
  <2>1. \A e \in R : e.value = Null
    BY <1>5 DEF Measured
  <2>2. IsFiniteSet(R) /\ \A e \in R : c[e] = 0
    BY <2>1 DEF Contributions, Contribution, Measuring
  <2> HIDE DEF c
  <2>3. SumFunctionOnSet(c, R) = 0
    BY <2>2, SumZero
  <2> QED
    BY <1>1, <1>5, <2>3 DEF c
<1>6. CASE M # {} /\ \E e \in R : e.mode = "delta"
  <2>1. \A e \in R : e.mode = "delta"
    BY <1>2, <1>6
  <2>2. SumFunctionOnSet(Contributions(R), R) = SumFunction([e \in M |-> e.value])
    BY <2>1, DeltaSum
  <2> HIDE DEF M, V
  <2> QED
    BY <1>1, <1>4, <1>6, <2>2
<1>7. CASE M # {} /\ ~ \E e \in R : e.mode = "delta"
  <2>1. \A e \in R : e.mode = "snapshot"
    BY <1>3, <1>7
  <2>2. SumFunctionOnSet(Contributions(R), R) = Final(M).value - Base(R)
    BY <1>7, <2>1, SpannedAll
  <2>3. Final(M).value = Max(V)
    BY <1>7, <2>1, FinalValue
  <2>4. Base(R) = IF \E e \in R : e.baseline = "start" THEN Min(V) ELSE 0
    BY DEF Base
  <2>5. Final(M).value \in Int
    <3>1. IsFiniteSet(M) /\ M \subseteq R /\ \A e \in M : e.value \in Nat
      BY Finite
    <3>2. \A e \in M : e.seq \in Nat
      BY <3>1 DEF Measuring
    <3> HIDE DEF M
    <3> QED
      BY <1>7, <3>1, <3>2, FinalOne
  <2> HIDE DEF M, V
  <2> QED
    BY <1>1, <1>4, <1>7, <2>2, <2>3, <2>4, <2>5
<1> QED
  BY <1>5, <1>6, <1>7

LEMMA ReachedInt ==
  ASSUME NEW R, Measuring(R)
  PROVE  Reached(R) \in Int
<1> DEFINE c == Contributions(R)
<1>1. IsFiniteSet(R) /\ \A e \in R : c[e] \in Int
  BY AddedInt DEF Measuring
<1>2. c = Contributions(R)
  OBVIOUS
<1> HIDE DEF c
<1>3. SumFunctionOnSet(c, R) \in Int
  BY <1>1, SumInt
<1> QED
  BY <1>2, <1>3, StreamSum

-----------------------------------------------------------------------------
(* What a run adds up to. *)

\* A run as a reader without the lock judged it.
Summed(E) == IsFiniteSet(E) /\ ValidRun(E, TRUE) /\ \A e \in E : ValidEvent(e)
Part(E, some, s) == SumFunctionOnSet(Contributions(OfStream(E, s)), OfStream(E, s) \intersect some)
Shares(E, some) == [s \in Streams(E) |-> Part(E, some, s)]
Models(E) == {e.model : e \in E}
OfModels(E, X) == {e \in E : e.model \in X}

LEMMA CountedAs ==
  \A E, some : Counted(E, some) = SumFunctionOnSet(Shares(E, some), Streams(E))
<1> TAKE E, some
<1>1. DOMAIN Shares(E, some) = Streams(E)
  BY DEF Shares
<1>2. Counted(E, some) = SumFunction(Shares(E, some))
  BY DEF Counted, Shares, Part, Contributions
<1> QED
  BY <1>1, <1>2 DEF SumFunction

LEMMA StreamsMeasuring ==
  ASSUME NEW E, Summed(E)
  PROVE  IsFiniteSet(Streams(E)) /\ \A s \in Streams(E) : Measuring(OfStream(E, s))
<1>1. IsFiniteSet(Streams(E))
  <2> DEFINE f == [e \in E |-> e.stream]
             T == {f[e] : e \in E}
  <2>1. IsFiniteSet(T)
    <3> HIDE DEF f
    <3> QED
      BY FiniteImage DEF Summed
  <2>2. Streams(E) \subseteq T
    BY DEF Streams
  <2> QED
    BY <2>1, <2>2, FS_Subset
<1>2. ASSUME NEW s \in Streams(E) PROVE Measuring(OfStream(E, s))
  <2> DEFINE R == OfStream(E, s)
  <2>1. R \subseteq E /\ (\A e \in R : e.version = 2 /\ e.stream = s) /\ s # NoStream
    BY DEF OfStream, Streams
  <2>2. IsFiniteSet(R)
    BY <2>1, FS_Subset DEF Summed
  <2>3. ValidStream(R)
    BY DEF Summed, ValidRun
  <2>4. ASSUME NEW e \in R
        PROVE  /\ e.value \in Nat \union {Null} /\ e.seq \in Nat
               /\ \/ e.mode = "delta" /\ e.baseline = "none"
                  \/ e.mode = "snapshot" /\ e.baseline \in {"zero", "start"}
    <3>1. ValidMetric(e) /\ ValidMeasurement(e)
      BY <2>1 DEF Summed, ValidEvent
    <3> QED
      BY <2>1, <3>1 DEF ValidMetric, ValidMeasurement
  <2> QED
    BY <2>2, <2>3, <2>4 DEF Measuring
<1> QED
  BY <1>1, <1>2

LEMMA PartInt ==
  ASSUME NEW E, Summed(E), NEW some, NEW s \in Streams(E)
  PROVE  Part(E, some, s) \in Int
<1> DEFINE R == OfStream(E, s)
           c == Contributions(R)
           T == R \intersect some
<1>1. Measuring(R)
  BY StreamsMeasuring
<1>2. IsFiniteSet(T) /\ \A e \in T : c[e] \in Int
  <2> HIDE DEF R
  <2> QED
    BY <1>1, AddedInt, FS_Subset DEF Measuring
<1>3. Part(E, some, s) = SumFunctionOnSet(c, T)
  BY DEF Part
<1> HIDE DEF c, T
<1> QED
  BY <1>2, <1>3, SumInt

LEMMA CountedInt ==
  ASSUME NEW E, Summed(E), NEW some
  PROVE  Counted(E, some) \in Int
<1> DEFINE p == Shares(E, some)
           S == Streams(E)
<1>1. IsFiniteSet(S) /\ \A s \in S : p[s] \in Int
  BY StreamsMeasuring, PartInt DEF Shares
<1>2. Counted(E, some) = SumFunctionOnSet(p, S)
  BY CountedAs
<1> HIDE DEF p, S
<1> QED
  BY <1>1, <1>2, SumInt

\* Counting some events is counting part of them and the others.
LEMMA CountedParts ==
  ASSUME NEW E, Summed(E), NEW A, NEW B, A \subseteq B
  PROVE  Counted(E, B) = Counted(E, A) + Counted(E, B \ A)
<1> DEFINE S == Streams(E)
           f == Shares(E, A)
           g == Shares(E, B \ A)
           h == Shares(E, B)
<1>1. IsFiniteSet(S)
  BY StreamsMeasuring
<1>2. ASSUME NEW s \in S
      PROVE  f[s] \in Int /\ g[s] \in Int /\ h[s] = f[s] + g[s]
  <2>1. f[s] = Part(E, A, s) /\ g[s] = Part(E, B \ A, s) /\ h[s] = Part(E, B, s)
    BY DEF Shares
  <2>2. Part(E, A, s) \in Int /\ Part(E, B \ A, s) \in Int
    BY PartInt
  <2> DEFINE R == OfStream(E, s)
             c == Contributions(R)
             T == R \intersect B
             U == R \intersect A
  <2>3. Measuring(R)
    BY StreamsMeasuring
  <2>4. IsFiniteSet(T) /\ \A e \in T : c[e] \in Int
    <3> HIDE DEF R
    <3> QED
      BY <2>3, AddedInt, FS_Subset DEF Measuring
  <2>5. U \subseteq T /\ T \ U = R \intersect (B \ A)
    OBVIOUS
  <2>6. /\ Part(E, B, s) = SumFunctionOnSet(c, T)
        /\ Part(E, A, s) = SumFunctionOnSet(c, U)
        /\ Part(E, B \ A, s) = SumFunctionOnSet(c, T \ U)
    BY <2>5 DEF Part
  <2> HIDE DEF c, T, U
  <2>7. SumFunctionOnSet(c, T) = SumFunctionOnSet(c, U) + SumFunctionOnSet(c, T \ U)
    BY <2>4, <2>5, SumParts
  <2> HIDE DEF f, g, h
  <2> QED
    BY <2>1, <2>2, <2>6, <2>7
<1>3. /\ Counted(E, A) = SumFunctionOnSet(f, S)
      /\ Counted(E, B \ A) = SumFunctionOnSet(g, S)
      /\ Counted(E, B) = SumFunctionOnSet(h, S)
  BY CountedAs
<1> HIDE DEF f, g, h, S
<1>4. SumFunctionOnSet(h, S) = SumFunctionOnSet(f, S) + SumFunctionOnSet(g, S)
  BY <1>1, <1>2, SumPlus
<1> QED
  BY <1>3, <1>4

LEMMA CountedNone ==
  ASSUME NEW E, Summed(E)
  PROVE  Counted(E, {}) = 0
<1> DEFINE p == Shares(E, {})
           S == Streams(E)
<1>1. IsFiniteSet(S)
  BY StreamsMeasuring
<1>2. ASSUME NEW s \in S PROVE p[s] = 0
  <2>1. p[s] = SumFunctionOnSet(Contributions(OfStream(E, s)), OfStream(E, s) \intersect {})
    BY DEF Shares, Part
  <2>2. OfStream(E, s) \intersect {} = {}
    OBVIOUS
  <2> HIDE DEF p
  <2> QED
    BY <2>1, <2>2, SumEmpty
<1>3. Counted(E, {}) = SumFunctionOnSet(p, S)
  BY CountedAs
<1> HIDE DEF p, S
<1> QED
  BY <1>1, <1>2, <1>3, SumZero

\* The models of a run add up to the whole.
LEMMA ModelsSum ==
  ASSUME NEW E, Summed(E)
  PROVE  Total(E) = SumFunction([m \in Models(E) |-> OfModel(E, m)])
<1> DEFINE o == [m \in Models(E) |-> OfModel(E, m)]
           Ms == Models(E)
           C(X) == Counted(E, OfModels(E, X))
           Bad == {X \in SUBSET Ms : C(X) # SumFunctionOnSet(o, X)}
<1>1. IsFiniteSet(Ms)
  <2> DEFINE f == [e \in E |-> e.model]
             T == {f[e] : e \in E}
  <2>1. IsFiniteSet(T)
    <3> HIDE DEF f
    <3> QED
      BY FiniteImage DEF Summed
  <2>2. Models(E) = T
    BY DEF Models
  <2> QED
    BY <2>1, <2>2
<1>2. \A m \in Ms : o[m] = C({m}) /\ o[m] \in Int
  <2> TAKE m \in Ms
  <2>1. {e \in E : e.model = m} = OfModels(E, {m})
    BY DEF OfModels
  <2>2. o[m] = Counted(E, {e \in E : e.model = m})
    BY DEF OfModel
  <2>3. Counted(E, OfModels(E, {m})) \in Int
    BY CountedInt
  <2> HIDE DEF o
  <2> QED
    BY <2>1, <2>2, <2>3
<1>3. Bad = {}
  <2> SUFFICES ASSUME Bad # {} PROVE FALSE
    OBVIOUS
  <2>1. PICK X \in Bad : \A Y \in Bad : Y \subseteq X => Y = X
    <3>1. Bad \subseteq SUBSET Ms
      OBVIOUS
    <3> HIDE DEF Bad, Ms
    <3> QED
      BY <1>1, <3>1, Minimal
  <2>2. X \in SUBSET Ms /\ C(X) # SumFunctionOnSet(o, X)
    OBVIOUS
  <2>3. X # {}
    <3>1. OfModels(E, {}) = {}
      BY DEF OfModels
    <3>2. C({}) = 0
      BY <3>1, CountedNone
    <3>3. SumFunctionOnSet(o, {}) = 0
      BY SumEmpty
    <3> HIDE DEF C, o
    <3> QED
      BY <2>2, <3>2, <3>3
  <2>4. PICK m \in X : TRUE
    BY <2>3
  <2> DEFINE Y == X \ {m}
  <2>5. Y \in SUBSET Ms /\ Y \subseteq X /\ Y # X /\ m \in Ms
    BY <2>2
  <2>6. C(Y) = SumFunctionOnSet(o, Y)
    <3>1. Y \notin Bad
      <4> HIDE DEF Bad, Y
      <4> QED
        BY <2>1, <2>5
    <3> HIDE DEF C, o, Y
    <3> QED
      BY <2>5, <3>1
  <2>7. C(X) = C({m}) + C(Y)
    <3>1. OfModels(E, {m}) \subseteq OfModels(E, X)
      BY DEF OfModels
    <3>2. OfModels(E, X) \ OfModels(E, {m}) = OfModels(E, Y)
      BY DEF OfModels
    <3> HIDE DEF Y
    <3> QED
      BY <3>1, <3>2, CountedParts
  <2>8. SumFunctionOnSet(o, X) = o[m] + SumFunctionOnSet(o, Y)
    <3>1. IsFiniteSet(X) /\ \A x \in X : o[x] \in Int
      <4> HIDE DEF o, C, Ms
      <4> QED
        BY <1>1, <1>2, <2>2, FS_Subset
    <3> HIDE DEF o
    <3> QED
      BY <3>1, SumTake
  <2> HIDE DEF C, o, Y, Bad
  <2> QED
    BY <1>2, <2>2, <2>5, <2>6, <2>7, <2>8
<1>4. C(Ms) = SumFunctionOnSet(o, Ms)
  <2> HIDE DEF C, o, Ms
  <2> QED
    BY <1>3
<1>5. OfModels(E, Ms) = E
  BY DEF OfModels, Models
<1>6. DOMAIN o = Ms
  OBVIOUS
<1> HIDE DEF o, Ms
<1> QED
  BY <1>4, <1>5, <1>6 DEF Total, SumFunction, o, Ms

\* The streams of a run add up to what they have reached.
LEMMA StreamsSum ==
  ASSUME NEW E, Summed(E)
  PROVE  Total(E) = SumFunction([s \in Streams(E) |-> Reached(OfStream(E, s))])
<1> DEFINE f == [s \in Streams(E) |-> Reached(OfStream(E, s))]
<1>1. ASSUME NEW s \in Streams(E) PROVE Part(E, E, s) = Reached(OfStream(E, s))
  <2>1. OfStream(E, s) \intersect E = OfStream(E, s)
    BY DEF OfStream
  <2>2. Measuring(OfStream(E, s))
    BY StreamsMeasuring
  <2> QED
    BY <2>1, <2>2, StreamSum DEF Part
<1>2. Shares(E, E) = f
  BY <1>1 DEF Shares
<1>3. DOMAIN f = Streams(E)
  OBVIOUS
<1> HIDE DEF f
<1>4. Total(E) = SumFunction(f)
  BY <1>2, <1>3, CountedAs DEF Total, SumFunction
<1> QED
  BY <1>4 DEF f

-----------------------------------------------------------------------------
(* Summaries. *)

\* The events of a file that parses are finitely many, and valid.
LEMMA ParsedEvents ==
  ASSUME Typed, Parses
  PROVE  IsFiniteSet(Events) /\ \A e \in Events : ValidEvent(e)
<1> DEFINE f == [i \in Heads |-> file[i].event]
           T == {f[i] : i \in Heads}
<1>1. IsFiniteSet(Heads)
  <2>1. DOMAIN file = 1 .. Len(file) /\ Len(file) \in Nat
    BY DEF Typed
  <2>2. IsFiniteSet(1 .. Len(file))
    BY <2>1, FS_Interval
  <2> QED
    BY <2>1, <2>2, FS_Subset DEF Heads
<1>2. Events = T
  BY DEF Events
<1>3. IsFiniteSet(T)
  <2> HIDE DEF f
  <2> QED
    BY <1>1, FiniteImage
<1>4. \A i \in Heads : ValidEvent(file[i].event)
  BY DEF Parses, Heads
<1> QED
  BY <1>2, <1>3, <1>4 DEF Events

\* Whenever a reader without the lock finds a ledger that parses, what it sums up for
\* a run that validates is what the run's streams have reached, and its models add
\* up to it, whatever streams and models there are and however their events arrived.
THEOREM SummariesExact == Spec => []SummaryExact
<1>1. HInv => SummaryExact
  <2> SUFFICES ASSUME HInv, Parses, NEW r \in RunIds(Events),
                      NEW E, E = OfRun(Events, r), ValidRun(E, TRUE)
               PROVE  /\ Total(E) = SumFunction([s \in Streams(E) |-> Reached(OfStream(E, s))])
                      /\ Total(E) = SumFunction([m \in {e.model : e \in E} |-> OfModel(E, m)])
    BY DEF SummaryExact
  <2>1. IsFiniteSet(Events) /\ \A e \in Events : ValidEvent(e)
    BY ParsedEvents DEF HInv, Locks
  <2>2. E \subseteq Events
    BY DEF OfRun
  <2>3. Summed(E)
    BY <2>1, <2>2, FS_Subset DEF Summed
  <2>4. Models(E) = {e.model : e \in E}
    BY DEF Models
  <2> QED
    BY <2>3, <2>4, StreamsSum, ModelsSum
<1> QED
  BY <1>1, HealsInductive, PTL
=============================================================================
