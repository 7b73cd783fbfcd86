--------------------------- MODULE DeliveryProofs ---------------------------
(* Theorems about a delivery wait.  WaitTransition, the loop that runs it, for *)
(* any observations and any number of changes and kills: the state file never  *)
(* runs ahead of what the caller was told, and a deadline hides nothing that   *)
(* was observed.  DeliveryCommands, what one observation and its verdict say,  *)
(* for any commands and any bounds on what GitHub does between two requests.   *)
EXTENDS DeliveryCommands, WaitTransition, FiniteSetTheorems, WellFoundedInduction, TLAPS

Conclusions == {"none", "success", "failure"}

-----------------------------------------------------------------------------
(* The census of workflow runs: its invariant. *)

JobRec == [id : Nat, completed : BOOLEAN, concl : Conclusions]
RunRec == [id : Nat, attempt : Nat, completed : BOOLEAN, concl : Conclusions,
           jobs : SUBSET JobRec]
PageRec == [total : Nat, items : SUBSET RunRec]

JobFailed(r) == \E j \in r.jobs : j.concl = "failure"

\* A run as GitHub Actions makes it.
Real(r) ==
    /\ IsFiniteSet(r.jobs)
    /\ \A j \in r.jobs : j.completed <=> j.concl # "none"
    /\ r.completed <=> r.concl # "none"
    /\ r.completed => \A j \in r.jobs : j.completed
    /\ r.concl = "failure" => JobFailed(r)

RunsReal ==
    /\ runs \in Seq(RunRec)
    /\ \A i \in DOMAIN runs : Real(runs[i]) /\ runs[i].id = i

\* What a listing says of a run is so, as long as the run was not re-run.
Known(r) ==
    /\ r \in RunRec /\ r.id \in DOMAIN runs /\ r.attempt <= runs[r.id].attempt
    /\ r.attempt = runs[r.id].attempt /\ r.completed =>
         runs[r.id].completed /\ runs[r.id].concl = r.concl
\* And so are the jobs read of one that had ended.
KnownWhole(r) ==
    /\ Known(r)
    /\ r.attempt = runs[r.id].attempt /\ r.completed => r = runs[r.id]
    /\ \A j \in r.jobs : j.completed <=> j.concl # "none"

Paged(k) ==
    /\ pages[k].total <= Len(runs)
    /\ k <= pages[k].total => pages[k].items # {}
    /\ \A r \in pages[k].items : Known(r) /\ r.id = pages[k].total + 1 - k

CensusRead ==
    /\ pages \in Seq(PageRec) /\ \A k \in DOMAIN pages : Paged(k)
    /\ \A r \in census \union previous : KnownWhole(r)
    /\ previous # {} => Workflows!Complete(previous) /\ Workflows!Failures(previous) = {}
    /\ pc \in {"start", "pages"} => census = {}
    /\ pc = "start" => pages = <<>>
    /\ pc \in {"jobs", "judge"} =>
         Len(pages) # 0 /\ pages[Len(pages)].total <= Len(pages)
    /\ pc = "judge" =>
         /\ \A p, q \in Workflows!ToSet(pages) : p.total = q.total
         /\ \A r \in Workflows!Listed :
              \E c \in census : Workflows!Listing(c) = Workflows!Listing(r)

\* Run i was at its attempt a or a later one when the census began.
Began(i, a) ==
    /\ i \in DOMAIN runs /\ a \in Nat /\ a <= runs[i].attempt
    /\ \A k \in DOMAIN pages : i <= pages[k].total
    /\ \A r \in Workflows!Listed \union census : r.id = i => a <= r.attempt

Reading == pc \in {"pages", "jobs", "judge"}

\* If not all was green then, this census has a run or an attempt that the one
\* before did not have.
Unlike ==
    Reading /\ ~green /\ previous # {} =>
        \E i \in DOMAIN runs, a \in Nat :
            Began(i, a) /\ \A r \in previous : r.id = i => r.attempt < a

\* What had failed then is seen to have failed, until it is re-run.
Failure(b) ==
    /\ b = <<b[1], b[2]>> /\ Began(b[1], b[2])
    /\ runs[b[1]].attempt = b[2] =>
         JobFailed(runs[b[1]]) /\ \A c \in census : c.id = b[1] => JobFailed(c)
Blamed == Reading => \A b \in bad : Failure(b)

Told == (result # "none" => pc = "done") /\ (result = "satisfied" => green)

CensusInv == RunsReal /\ CensusRead /\ Unlike /\ Blamed /\ Told

-----------------------------------------------------------------------------
(* The rules of the census. *)

LEMMA CardinalityNat == \A S : IsFiniteSet(S) => Workflows!Cardinality(S) \in Nat
BY FS_CardinalityType DEF Workflows!Cardinality, Cardinality

\* A run or a job that failed is among the failures.
LEMMA RunFails ==
  \A S : \A r \in S : r.completed /\ r.concl = "failure" => Workflows!Failures(S) # {}
<1> SUFFICES ASSUME NEW S, NEW r \in S, r.completed, r.concl = "failure"
             PROVE  Workflows!Failures(S) # {}
  OBVIOUS
<1> DEFINE x == [run |-> r.id, concl |-> r.concl, completed |-> r.completed]
<1>1. x \in {[run |-> s.id, concl |-> s.concl, completed |-> s.completed] : s \in S}
  OBVIOUS
<1>2. Workflows!Ended(x) /\ x.concl \notin Workflows!Passing
  BY DEF Workflows!Ended, Workflows!Passing
<1> HIDE DEF x
<1>3. x \in Workflows!Failures(S)
  BY <1>1, <1>2 DEF Workflows!Failures
<1> QED
  BY <1>3

LEMMA JobFails ==
  \A S : \A r \in S : \A j \in r.jobs :
    j.completed /\ j.concl = "failure" => Workflows!Failures(S) # {}
<1> SUFFICES ASSUME NEW S, NEW r \in S, NEW j \in r.jobs, j.completed, j.concl = "failure"
             PROVE  Workflows!Failures(S) # {}
  OBVIOUS
<1> DEFINE x == [run |-> j.id, concl |-> j.concl, completed |-> j.completed]
<1>1. x \in {[run |-> i.id, concl |-> i.concl, completed |-> i.completed] :
             i \in Workflows!Jobs(S)}
  BY DEF Workflows!Jobs
<1>2. Workflows!Ended(x) /\ x.concl \notin Workflows!Passing
  BY DEF Workflows!Ended, Workflows!Passing
<1> HIDE DEF x
<1>3. x \in Workflows!Failures(S)
  BY <1>1, <1>2 DEF Workflows!Failures
<1> QED
  BY <1>3

\* A census that failed has a run that failed or one with a job that did.
LEMMA FailureOf ==
  \A S : (\A r \in S : r \in RunRec) /\ Workflows!Failures(S) # {} =>
    \E r \in S : \/ r.completed /\ r.concl = "failure"
                 \/ \E j \in r.jobs : j.completed /\ j.concl = "failure"
<1> SUFFICES ASSUME NEW S, \A r \in S : r \in RunRec, Workflows!Failures(S) # {}
             PROVE  \E r \in S : \/ r.completed /\ r.concl = "failure"
                                 \/ \E j \in r.jobs : j.completed /\ j.concl = "failure"
  OBVIOUS
<1>1. PICK x \in Workflows!Failures(S) : TRUE
  OBVIOUS
<1>2. Workflows!Ended(x) /\ x.concl \notin Workflows!Passing
  BY DEF Workflows!Failures
<1>3. x.completed /\ x.concl \notin {"none", "success"}
  BY <1>2 DEF Workflows!Ended, Workflows!Passing
<1>4. CASE \E r \in S : x = [run |-> r.id, concl |-> r.concl, completed |-> r.completed]
  <2>1. PICK r \in S : x = [run |-> r.id, concl |-> r.concl, completed |-> r.completed]
    BY <1>4
  <2>2. r \in RunRec
    OBVIOUS
  <2> QED
    BY <1>3, <2>1, <2>2 DEF RunRec, Conclusions
<1>5. CASE \E j \in Workflows!Jobs(S) :
             x = [run |-> j.id, concl |-> j.concl, completed |-> j.completed]
  <2>1. PICK j \in Workflows!Jobs(S) :
          x = [run |-> j.id, concl |-> j.concl, completed |-> j.completed]
    BY <1>5
  <2>2. PICK r \in S : j \in r.jobs
    BY DEF Workflows!Jobs
  <2>3. j \in JobRec
    BY <2>2 DEF RunRec
  <2> QED
    BY <1>3, <2>1, <2>2, <2>3 DEF JobRec, Conclusions
<1> QED
  BY <1>4, <1>5 DEF Workflows!Failures

\* What is green stays green without some of its runs.
LEMMA GreenPart ==
  \A S : \A T \in SUBSET S :
    /\ \A r \in S : r \in RunRec
    /\ T # {} /\ Workflows!Complete(S) /\ Workflows!Failures(S) = {}
    => Workflows!Complete(T) /\ Workflows!Failures(T) = {}
<1> SUFFICES ASSUME NEW S, NEW T \in SUBSET S, \A r \in S : r \in RunRec,
                    T # {}, Workflows!Complete(S), Workflows!Failures(S) = {}
             PROVE  Workflows!Complete(T) /\ Workflows!Failures(T) = {}
  OBVIOUS
<1>1. Workflows!Complete(T)
  BY DEF Workflows!Complete, Workflows!Jobs
<1>2. Workflows!Failures(T) = {}
  BY FailureOf, RunFails, JobFails
<1> QED
  BY <1>1, <1>2

-----------------------------------------------------------------------------
(* GitHub moves on under a census. *)

\* What may become of a run while a census is read.
Later(r, s) ==
    /\ r.attempt <= s.attempt
    /\ s.attempt = r.attempt => /\ r.completed => s = r
                                /\ JobFailed(r) => JobFailed(s)

Grows ==
    /\ RunsReal' /\ DOMAIN runs \subseteq DOMAIN runs' /\ Len(runs) <= Len(runs')
    /\ \A i \in DOMAIN runs : Later(runs[i], runs'[i])

LEMMA GrowsKeeps ==
  CensusInv /\ Grows /\ UNCHANGED <<pc, pages, census, previous, result, green, bad>>
  => CensusInv'
<1> SUFFICES ASSUME CensusInv, Grows,
                    UNCHANGED <<pc, pages, census, previous, result, green, bad>>
             PROVE  CensusInv'
  OBVIOUS
<1> USE DEF CensusInv
<1>1. /\ runs \in Seq(RunRec) /\ runs' \in Seq(RunRec)
      /\ \A i \in DOMAIN runs : i \in DOMAIN runs' /\ runs[i] \in RunRec /\ runs'[i] \in RunRec
      /\ \A i \in DOMAIN runs : Later(runs[i], runs'[i])
      /\ Len(runs) \in Nat /\ Len(runs') \in Nat /\ Len(runs) <= Len(runs')
  BY DEF Grows, RunsReal
<1>2. \A i \in DOMAIN runs : runs[i].attempt \in Nat /\ runs'[i].attempt \in Nat
  BY <1>1 DEF RunRec
<1>3. \A r : Known(r) => Known(r)'
  <2> SUFFICES ASSUME NEW r, Known(r) PROVE Known(r)'
    OBVIOUS
  <2>1. r \in RunRec /\ r.id \in DOMAIN runs /\ r.attempt <= runs[r.id].attempt
    BY DEF Known
  <2>2. r.attempt \in Nat
    BY <2>1 DEF RunRec
  <2>3. Later(runs[r.id], runs'[r.id]) /\ r.id \in DOMAIN runs'
    BY <1>1, <2>1
  <2>4. r.attempt <= runs'[r.id].attempt
    BY <1>2, <2>1, <2>2, <2>3 DEF Later
  <2>5. ASSUME r.attempt = runs'[r.id].attempt, r.completed
        PROVE  runs'[r.id].completed /\ runs'[r.id].concl = r.concl
    <3>1. r.attempt = runs[r.id].attempt
      BY <1>2, <2>1, <2>2, <2>3, <2>5 DEF Later
    <3>2. runs[r.id].completed /\ runs[r.id].concl = r.concl
      BY <2>5, <3>1 DEF Known
    <3>3. runs'[r.id] = runs[r.id]
      BY <2>3, <2>5, <3>1, <3>2 DEF Later
    <3> QED
      BY <3>2, <3>3
  <2> QED
    BY <2>1, <2>3, <2>4, <2>5 DEF Known
<1>4. \A r : KnownWhole(r) => KnownWhole(r)'
  <2> SUFFICES ASSUME NEW r, KnownWhole(r), r.attempt = runs'[r.id].attempt, r.completed
               PROVE  r = runs'[r.id]
    BY <1>3 DEF KnownWhole
  <2>1. r \in RunRec /\ r.id \in DOMAIN runs /\ r.attempt <= runs[r.id].attempt
    BY DEF Known, KnownWhole
  <2>2. r.attempt \in Nat
    BY <2>1 DEF RunRec
  <2>3. Later(runs[r.id], runs'[r.id])
    BY <1>1, <2>1
  <2>4. r.attempt = runs[r.id].attempt
    BY <1>2, <2>1, <2>2, <2>3 DEF Later
  <2>5. r = runs[r.id]
    BY <2>4 DEF KnownWhole
  <2> QED
    BY <2>3, <2>4, <2>5 DEF Later
<1>5. CensusRead'
  <2>1. \A k \in DOMAIN pages : pages[k] \in PageRec
    BY DEF CensusRead
  <2>2. \A k \in DOMAIN pages : Paged(k)'
    <3> SUFFICES ASSUME NEW k \in DOMAIN pages PROVE Paged(k)'
      OBVIOUS
    <3>1. Paged(k) /\ pages[k].total \in Nat
      BY <2>1 DEF CensusRead, PageRec
    <3>2. pages[k].total <= Len(runs')
      BY <1>1, <3>1 DEF Paged
    <3> QED
      BY <1>3, <3>1, <3>2 DEF Paged
  <2>3. \A k \in DOMAIN pages' : Paged(k)'
    BY <2>2
  <2>4. \A r \in census' \union previous' : KnownWhole(r)'
    BY <1>4 DEF CensusRead
  <2>5. Workflows!Listed' = Workflows!Listed
    BY DEF Workflows!Listed, Workflows!ToSet
  <2> HIDE DEF CensusInv
  <2>6. CensusRead
    BY DEF CensusInv
  <2> QED
    BY <2>3, <2>4, <2>5, <2>6 DEF CensusRead, Workflows!ToSet
<1>6. \A i, a : Began(i, a) => Began(i, a)'
  <2> SUFFICES ASSUME NEW i, NEW a, Began(i, a) PROVE Began(i, a)'
    OBVIOUS
  <2>1. i \in DOMAIN runs /\ a \in Nat /\ a <= runs[i].attempt
    BY DEF Began
  <2>2. i \in DOMAIN runs' /\ a <= runs'[i].attempt
    BY <1>1, <1>2, <2>1 DEF Later
  <2> QED
    BY <2>1, <2>2 DEF Began, Workflows!Listed, Workflows!ToSet
<1>7. Unlike'
  BY <1>1, <1>6 DEF Unlike, Reading
<1>8. Blamed'
  <2> SUFFICES ASSUME Reading, NEW b \in bad PROVE Failure(b)'
    BY DEF Blamed, Reading
  <2>1. Failure(b)
    BY DEF Blamed
  <2>2. Began(b[1], b[2])'
    BY <1>6, <2>1 DEF Failure
  <2>3. /\ b[1] \in DOMAIN runs /\ b[2] \in Nat /\ b[2] <= runs[b[1]].attempt
    BY <2>1 DEF Failure, Began
  <2>4. ASSUME runs'[b[1]].attempt = b[2]
        PROVE  JobFailed(runs'[b[1]]) /\ runs[b[1]].attempt = b[2]
    <3>1. Later(runs[b[1]], runs'[b[1]])
      BY <1>1, <2>3
    <3>2. runs[b[1]].attempt = b[2]
      BY <1>2, <2>3, <2>4, <3>1 DEF Later
    <3> QED
      BY <2>1, <2>4, <3>1, <3>2 DEF Failure, Later
  <2> QED
    BY <2>1, <2>2, <2>4 DEF Failure
<1>9. RunsReal' /\ Told'
  BY DEF Grows, Told
<1> QED
  BY <1>5, <1>7, <1>8, <1>9

LEMMA LaterSelf == \A r \in RunRec : Later(r, r)
<1> TAKE r \in RunRec
<1>1. r.attempt \in Nat
  BY DEF RunRec
<1> QED
  BY <1>1 DEF Later

\* One run changes.
LEMMA RunChanges ==
  ASSUME RunsReal, NEW i \in DOMAIN runs, NEW r \in RunRec,
         Real(r), r.id = i, Later(runs[i], r), runs' = [runs EXCEPT ![i] = r]
  PROVE  Grows
<1>1. runs' \in Seq(RunRec) /\ Len(runs') = Len(runs) /\ DOMAIN runs' = DOMAIN runs
  BY DEF RunsReal
<1>2. runs'[i] = r /\ \A k \in DOMAIN runs : k # i => runs'[k] = runs[k]
  BY DEF RunsReal
<1>3. RunsReal'
  BY <1>1, <1>2 DEF RunsReal
<1>4. \A k \in DOMAIN runs : Later(runs[k], runs[k])
  BY LaterSelf DEF RunsReal
<1>5. Len(runs) \in Nat
  BY DEF RunsReal
<1> QED
  BY <1>1, <1>2, <1>3, <1>4, <1>5 DEF Grows

LEMMA NewRunReal ==
  \A i, a \in Nat : LET r == Workflows!NewRun(i, a)
                    IN  r \in RunRec /\ Real(r) /\ r.id = i /\ r.attempt = a
<1> SUFFICES ASSUME NEW i \in Nat, NEW a \in Nat
             PROVE  LET r == Workflows!NewRun(i, a)
                    IN  r \in RunRec /\ Real(r) /\ r.id = i /\ r.attempt = a
  OBVIOUS
<1>1. Workflows!Job(1) \in JobRec /\ ~Workflows!Job(1).completed
      /\ Workflows!Job(1).concl = "none"
  BY DEF Workflows!Job, JobRec, Conclusions
<1>2. IsFiniteSet({Workflows!Job(1)})
  BY FS_Singleton
<1> QED
  BY <1>1, <1>2 DEF Workflows!NewRun, RunRec, Real, Conclusions

LEMMA StartRunGrows == CensusInv /\ Workflows!StartRun => Grows
<1> SUFFICES ASSUME CensusInv, Workflows!StartRun PROVE Grows
  OBVIOUS
<1> DEFINE n == Len(runs) + 1
           r == Workflows!NewRun(n, 1)
<1>1. runs \in Seq(RunRec) /\ Len(runs) \in Nat /\ n \in Nat /\ RunsReal
  BY DEF CensusInv, RunsReal
<1>2. r \in RunRec /\ Real(r) /\ r.id = n
  BY <1>1, NewRunReal
<1>3. runs' = Append(runs, r)
  BY DEF Workflows!StartRun
<1> HIDE DEF r
<1>4. /\ runs' \in Seq(RunRec) /\ Len(runs') = n /\ runs'[n] = r
      /\ \A k \in DOMAIN runs : k \in DOMAIN runs' /\ runs'[k] = runs[k]
      /\ \A k \in DOMAIN runs' : k = n \/ k \in DOMAIN runs
  BY <1>1, <1>2, <1>3
<1>5. RunsReal'
  BY <1>1, <1>2, <1>4 DEF RunsReal
<1>6. \A k \in DOMAIN runs : Later(runs[k], runs[k])
  BY <1>1, LaterSelf
<1> QED
  BY <1>1, <1>4, <1>5, <1>6 DEF Grows

LEMMA AddJobGrows ==
  \A i \in DOMAIN runs : CensusInv /\ Workflows!AddJob(i) => Grows
<1> SUFFICES ASSUME NEW i \in DOMAIN runs, CensusInv, Workflows!AddJob(i) PROVE Grows
  OBVIOUS
<1> DEFINE j == Workflows!Job(Workflows!Cardinality(runs[i].jobs) + 1)
           r == [runs[i] EXCEPT !.jobs = @ \union {j}]
<1>1. RunsReal /\ runs \in Seq(RunRec) /\ runs[i] \in RunRec /\ Real(runs[i]) /\ runs[i].id = i
  BY DEF CensusInv, RunsReal
<1>2. ~runs[i].completed
  BY DEF Workflows!AddJob
<1>3. runs' = [runs EXCEPT ![i] = r]
  BY DEF Workflows!AddJob
<1>4. Workflows!Cardinality(runs[i].jobs) \in Nat
  BY <1>1, CardinalityNat DEF Real
<1>5. j \in JobRec /\ ~j.completed /\ j.concl = "none"
  BY <1>4 DEF Workflows!Job, JobRec, Conclusions
<1> HIDE DEF j
<1>6. IsFiniteSet(runs[i].jobs \union {j})
  BY <1>1, FS_AddElement DEF Real
<1>7. /\ r \in RunRec /\ r.jobs = runs[i].jobs \union {j} /\ r.id = i
      /\ r.attempt = runs[i].attempt /\ r.completed = runs[i].completed
      /\ r.concl = runs[i].concl
  BY <1>1, <1>5 DEF RunRec
<1> HIDE DEF r
<1>8. Real(r)
  BY <1>1, <1>2, <1>5, <1>6, <1>7 DEF Real, JobFailed
<1>9. Later(runs[i], r)
  BY <1>1, <1>2, <1>7 DEF Later, JobFailed, RunRec
<1> QED
  BY <1>1, <1>3, <1>7, <1>8, <1>9, RunChanges

LEMMA EndJobGrows ==
  \A i \in DOMAIN runs : AllWorkflows /\ CensusInv /\ Workflows!EndJob(i) => Grows
<1> SUFFICES ASSUME NEW i \in DOMAIN runs, AllWorkflows, CensusInv, Workflows!EndJob(i)
             PROVE  Grows
  OBVIOUS
<1>1. RunsReal /\ runs \in Seq(RunRec) /\ runs[i] \in RunRec /\ Real(runs[i]) /\ runs[i].id = i
  BY DEF CensusInv, RunsReal
<1>2. PICK j \in runs[i].jobs, concl \in world.conclusions :
        /\ ~j.completed
        /\ runs' = [runs EXCEPT ![i].jobs =
                (@ \ {j}) \union {[j EXCEPT !.completed = TRUE, !.concl = concl]}]
  BY DEF Workflows!EndJob
<1>3. concl \in {"success", "failure"}
  BY CommandAssumption DEF AllWorkflows
<1> DEFINE e == [j EXCEPT !.completed = TRUE, !.concl = concl]
           r == [runs[i] EXCEPT !.jobs = (@ \ {j}) \union {e}]
<1>4. runs' = [runs EXCEPT ![i] = r]
  BY <1>2
<1>5. j \in JobRec
  BY <1>1 DEF RunRec
<1>6. e \in JobRec /\ e.completed /\ e.concl = concl
  BY <1>3, <1>5 DEF JobRec, Conclusions
<1>7. j.concl = "none" /\ ~runs[i].completed
  BY <1>1, <1>2 DEF Real
<1> HIDE DEF e
<1>8. IsFiniteSet((runs[i].jobs \ {j}) \union {e})
  BY <1>1, FS_AddElement, FS_RemoveElement DEF Real
<1>9. /\ r \in RunRec /\ r.jobs = (runs[i].jobs \ {j}) \union {e} /\ r.id = i
      /\ r.attempt = runs[i].attempt /\ r.completed = runs[i].completed
      /\ r.concl = runs[i].concl
  BY <1>1, <1>6 DEF RunRec
<1> HIDE DEF r
<1>10. JobFailed(runs[i]) => JobFailed(r)
  BY <1>7, <1>9 DEF JobFailed
<1>11. Real(r)
  BY <1>1, <1>3, <1>6, <1>7, <1>8, <1>9, <1>10 DEF Real
<1>12. Later(runs[i], r)
  BY <1>1, <1>7, <1>9, <1>10 DEF Later, RunRec
<1> QED
  BY <1>1, <1>4, <1>9, <1>11, <1>12, RunChanges

LEMMA EndRunGrows ==
  \A i \in DOMAIN runs : CensusInv /\ Workflows!EndRun(i) => Grows
<1> SUFFICES ASSUME NEW i \in DOMAIN runs, CensusInv, Workflows!EndRun(i) PROVE Grows
  OBVIOUS
<1>1. RunsReal /\ runs \in Seq(RunRec) /\ runs[i] \in RunRec /\ Real(runs[i]) /\ runs[i].id = i
  BY DEF CensusInv, RunsReal
<1>2. PICK concl \in {"success", "failure"} :
        /\ concl = "failure" => \E j \in runs[i].jobs : j.concl = "failure"
        /\ runs' = [runs EXCEPT ![i].completed = TRUE, ![i].concl = concl]
  BY DEF Workflows!EndRun
<1>3. ~runs[i].completed /\ \A j \in runs[i].jobs : j.completed
  BY DEF Workflows!EndRun
<1> DEFINE r == [runs[i] EXCEPT !.completed = TRUE, !.concl = concl]
<1>4. runs' = [runs EXCEPT ![i] = r]
  BY <1>1, <1>2
<1>5. /\ r \in RunRec /\ r.jobs = runs[i].jobs /\ r.id = i
      /\ r.attempt = runs[i].attempt /\ r.completed /\ r.concl = concl
  BY <1>1 DEF RunRec, Conclusions
<1> HIDE DEF r
<1>6. Real(r)
  BY <1>1, <1>2, <1>3, <1>5 DEF Real, JobFailed
<1>7. Later(runs[i], r)
  BY <1>1, <1>3, <1>5 DEF Later, JobFailed, RunRec
<1> QED
  BY <1>1, <1>4, <1>5, <1>6, <1>7, RunChanges

LEMMA RerunGrows ==
  \A i \in DOMAIN runs : CensusInv /\ Workflows!Rerun(i) => Grows
<1> SUFFICES ASSUME NEW i \in DOMAIN runs, CensusInv, Workflows!Rerun(i) PROVE Grows
  OBVIOUS
<1>1. RunsReal /\ runs \in Seq(RunRec) /\ runs[i] \in RunRec /\ runs[i].id = i
  BY DEF CensusInv, RunsReal
<1> DEFINE a == runs[i].attempt + 1
           r == Workflows!NewRun(i, a)
<1>2. runs[i].attempt \in Nat /\ a \in Nat /\ i \in Nat
  BY <1>1 DEF RunRec
<1>3. r \in RunRec /\ Real(r) /\ r.id = i /\ r.attempt = a
  BY <1>2, NewRunReal
<1>4. runs' = [runs EXCEPT ![i] = r]
  BY DEF Workflows!Rerun
<1> HIDE DEF r
<1>5. Later(runs[i], r)
  BY <1>2, <1>3 DEF Later
<1> QED
  BY <1>1, <1>3, <1>4, <1>5, RunChanges

\* Everything GitHub does beside a census.
LEMMA ActingKeeps ==
  /\ AllWorkflows /\ CensusInv
  /\ Workflows!Push \/ Workflows!StartRun \/ Workflows!Actions
  => CensusInv'
<1> SUFFICES ASSUME AllWorkflows, CensusInv,
                    Workflows!Push \/ Workflows!StartRun \/ Workflows!Actions
             PROVE  CensusInv'
  OBVIOUS
<1>1. UNCHANGED <<pc, pages, census, previous, result, green, bad>>
  BY DEF Workflows!Push, Workflows!StartRun, Workflows!Actions, Workflows!AddJob,
         Workflows!EndJob, Workflows!EndRun, Workflows!Rerun, Workflows!Acts,
         Workflows!reader, Workflows!history
<1>2. CASE Workflows!Push
  <2>1. runs' = runs /\ RunsReal /\ runs \in Seq(RunRec) /\ Len(runs) \in Nat
    BY <1>2 DEF Workflows!Push, CensusInv, RunsReal
  <2>2. RunsReal'
    BY <2>1 DEF RunsReal
  <2>3. Grows
    BY <2>1, <2>2, LaterSelf DEF Grows, RunsReal
  <2> QED
    BY <1>1, <2>3, GrowsKeeps
<1>3. CASE Workflows!StartRun
  BY <1>1, <1>3, StartRunGrows, GrowsKeeps
<1>4. CASE Workflows!Actions
  BY <1>1, <1>4, AddJobGrows, EndJobGrows, EndRunGrows, RerunGrows, GrowsKeeps
     DEF Workflows!Actions
<1> QED
  BY <1>2, <1>3, <1>4

-----------------------------------------------------------------------------
(* The census is read. *)

LEMMA ListedPage ==
  \A r : r \in Workflows!Listed <=> \E k \in DOMAIN pages : r \in pages[k].items
BY DEF Workflows!Listed, Workflows!ToSet

LEMMA ListedKnown == CensusInv => \A r \in Workflows!Listed : Known(r)
BY ListedPage DEF CensusInv, CensusRead, Paged

\* A census that has read nothing yet.
LEMMA BeganNow ==
  RunsReal /\ pages = <<>> /\ census = {} =>
    \A i \in DOMAIN runs : runs[i].attempt \in Nat /\ Began(i, runs[i].attempt)
<1> SUFFICES ASSUME RunsReal, pages = <<>>, census = {}, NEW i \in DOMAIN runs
             PROVE  runs[i].attempt \in Nat /\ Began(i, runs[i].attempt)
  OBVIOUS
<1>1. runs[i].attempt \in Nat
  <2>1. runs[i] \in RunRec
    BY DEF RunsReal
  <2> QED
    BY <2>1 DEF RunRec
<1>2. DOMAIN pages = {} /\ Workflows!Listed = {}
  BY ListedPage
<1> QED
  BY <1>1, <1>2 DEF Began

\* A run that failed has a job that did.
LEMMA RunsFailedJobs ==
  RunsReal => \A b \in Workflows!RunsFailed :
    /\ b = <<b[1], b[2]>> /\ b[1] \in DOMAIN runs
    /\ runs[b[1]].attempt = b[2] /\ JobFailed(runs[b[1]])
<1> SUFFICES ASSUME RunsReal, NEW b \in Workflows!RunsFailed
             PROVE  /\ b = <<b[1], b[2]>> /\ b[1] \in DOMAIN runs
                    /\ runs[b[1]].attempt = b[2] /\ JobFailed(runs[b[1]])
  OBVIOUS
<1>1. PICK r \in Workflows!ToSet(runs) :
        Workflows!Failures({r}) # {} /\ b = <<r.id, r.attempt>>
  BY DEF Workflows!RunsFailed
<1>2. PICK k \in DOMAIN runs : r = runs[k]
  BY DEF Workflows!ToSet
<1>3. r \in RunRec /\ Real(r) /\ r.id = k
  BY <1>2 DEF RunsReal
<1>4. \E s \in {r} : \/ s.completed /\ s.concl = "failure"
                     \/ \E j \in s.jobs : j.completed /\ j.concl = "failure"
  BY <1>1, <1>3, FailureOf
<1>5. JobFailed(r)
  BY <1>3, <1>4 DEF Real, JobFailed
<1> QED
  BY <1>1, <1>2, <1>3, <1>5

\* Runs the last census saw as they are, and found green, are green.
LEMMA SeenGreen ==
  /\ RunsReal /\ previous # {} /\ \A r \in previous : KnownWhole(r)
  /\ Workflows!Complete(previous) /\ Workflows!Failures(previous) = {}
  /\ \A i \in DOMAIN runs : \E r \in previous : r.id = i /\ ~(r.attempt < runs[i].attempt)
  => Workflows!AllGreen
<1> SUFFICES ASSUME RunsReal, previous # {}, \A r \in previous : KnownWhole(r),
                    Workflows!Complete(previous), Workflows!Failures(previous) = {},
                    \A i \in DOMAIN runs :
                      \E r \in previous : r.id = i /\ ~(r.attempt < runs[i].attempt)
             PROVE  Workflows!AllGreen
  OBVIOUS
<1>1. \A i \in DOMAIN runs : runs[i] \in previous
  <2> TAKE i \in DOMAIN runs
  <2>1. PICK r \in previous : r.id = i /\ ~(r.attempt < runs[i].attempt)
    OBVIOUS
  <2>2. r \in RunRec /\ r.attempt <= runs[i].attempt /\ KnownWhole(r)
    BY <2>1 DEF KnownWhole, Known
  <2>3. runs[i].attempt \in Nat /\ r.attempt \in Nat
    <3>1. runs[i] \in RunRec
      BY DEF RunsReal
    <3> QED
      BY <2>2, <3>1 DEF RunRec
  <2>4. r.attempt = runs[i].attempt
    BY <2>1, <2>2, <2>3
  <2>5. r.completed
    BY DEF Workflows!Complete, Workflows!Ended
  <2> QED
    BY <2>1, <2>2, <2>4, <2>5 DEF KnownWhole
<1>2. PICK r \in previous : TRUE
  OBVIOUS
<1>3. r.id \in DOMAIN runs
  BY DEF KnownWhole, Known
<1> DEFINE T == Workflows!ToSet(runs)
<1>4. T \in SUBSET previous /\ T # {}
  BY <1>1, <1>3 DEF Workflows!ToSet
<1>5. \A s \in previous : s \in RunRec
  BY DEF KnownWhole, Known
<1> HIDE DEF T
<1>6. Workflows!Complete(T) /\ Workflows!Failures(T) = {}
  BY <1>4, <1>5, GreenPart
<1> QED
  BY <1>6 DEF T, Workflows!AllGreen

LEMMA ReadHeadKeeps == CensusInv /\ Workflows!ReadHead => CensusInv'
<1> SUFFICES ASSUME CensusInv, Workflows!ReadHead PROVE CensusInv'
  OBVIOUS
<1>1. /\ pc = "start" /\ pages = <<>> /\ census = {} /\ RunsReal
      /\ UNCHANGED <<runs, pages, census>>
      /\ green' = Workflows!AllGreen /\ bad' = Workflows!RunsFailed
  BY DEF Workflows!ReadHead, CensusInv, CensusRead, Workflows!github
<1>2. \/ pc' = "pages" /\ UNCHANGED <<result, previous>>
      \/ pc' = "done" /\ result' = "invalidated" /\ previous' = {}
  BY DEF Workflows!ReadHead, Workflows!Finish, Workflows!NoCensus
<1>3. RunsReal'
  BY <1>1 DEF RunsReal
<1>4. result = "none" /\ Told'
  BY <1>1, <1>2 DEF CensusInv, Told
<1>5. CensusRead'
  <2>1. CensusRead
    BY DEF CensusInv
  <2>2. DOMAIN pages' = {}
    BY <1>1
  <2>3. \A r \in census' \union previous' : KnownWhole(r)'
    BY <1>1, <1>2, <2>1 DEF CensusRead, KnownWhole, Known
  <2> QED
    BY <1>1, <1>2, <2>1, <2>2, <2>3 DEF CensusRead
<1>6. \A i \in DOMAIN runs : \A a :
        a = runs[i].attempt => a \in Nat /\ Began(i, a)'
  <2>1. \A i \in DOMAIN runs : runs[i].attempt \in Nat /\ Began(i, runs[i].attempt)
    BY <1>1, BeganNow
  <2>2. Workflows!Listed' = Workflows!Listed
    BY <1>1 DEF Workflows!Listed, Workflows!ToSet
  <2>3. ASSUME NEW i, NEW a, Began(i, a) PROVE Began(i, a)'
    <3>1. \A r \in Workflows!Listed' \union census' : r.id = i => a <= r.attempt
      BY <1>1, <2>2, <2>3 DEF Began
    <3> QED
      BY <1>1, <2>3, <3>1 DEF Began
  <2> QED
    BY <2>1, <2>3
<1>7. Unlike'
  <2> SUFFICES ASSUME pc' = "pages", ~green', previous' # {}
               PROVE  \E i \in DOMAIN runs', a \in Nat :
                        Began(i, a)' /\ \A r \in previous' : r.id = i => r.attempt < a
    BY <1>2 DEF Unlike, Reading
  <2>1. previous' = previous /\ ~Workflows!AllGreen
    BY <1>1, <1>2
  <2>2. PICK i \in DOMAIN runs :
          ~ \E r \in previous : r.id = i /\ ~(r.attempt < runs[i].attempt)
    BY <1>1, <2>1, SeenGreen DEF CensusInv, CensusRead
  <2> QED
    BY <1>1, <1>6, <2>1, <2>2
<1>8. Blamed'
  <2> SUFFICES ASSUME NEW b \in Workflows!RunsFailed PROVE Failure(b)'
    BY <1>1 DEF Blamed
  <2>1. /\ b = <<b[1], b[2]>> /\ b[1] \in DOMAIN runs
        /\ runs[b[1]].attempt = b[2] /\ JobFailed(runs[b[1]])
    BY <1>1, RunsFailedJobs
  <2> QED
    BY <1>1, <1>6, <2>1 DEF Failure
<1> QED
  BY <1>3, <1>4, <1>5, <1>7, <1>8 DEF CensusInv

\* Runs are listed newest first.
LEMMA NewestFirst ==
  RunsReal => \A n \in 1 .. Len(runs) :
    LET k == Len(runs) + 1 - n
    IN  k \in DOMAIN runs /\ Workflows!Reverse(runs)[n] = runs[k]
<1> SUFFICES ASSUME RunsReal, NEW n \in 1 .. Len(runs)
             PROVE  LET k == Len(runs) + 1 - n
                    IN  k \in DOMAIN runs /\ Workflows!Reverse(runs)[n] = runs[k]
  OBVIOUS
<1>1. Len(runs) \in Nat /\ DOMAIN runs = 1 .. Len(runs)
  BY DEF RunsReal
<1>2. Len(runs) + 1 - n = (Len(runs) - n) + 1
  BY <1>1
<1> QED
  BY <1>1, <1>2 DEF Workflows!Reverse

LEMMA KnownNow == RunsReal => \A k \in DOMAIN runs : Known(runs[k]) /\ runs[k].id = k
<1> SUFFICES ASSUME RunsReal, NEW k \in DOMAIN runs PROVE Known(runs[k]) /\ runs[k].id = k
  OBVIOUS
<1>1. runs[k] \in RunRec /\ runs[k].id = k
  BY DEF RunsReal
<1>2. runs[k].attempt \in Nat
  BY <1>1 DEF RunRec
<1> QED
  BY <1>1, <1>2 DEF Known

LEMMA ReadPageKeeps == CensusInv /\ Workflows!ReadPage => CensusInv'
<1> SUFFICES ASSUME CensusInv, Workflows!ReadPage PROVE CensusInv'
  OBVIOUS
<1> DEFINE n == Len(pages) + 1
           item == IF n <= Len(runs) THEN {Workflows!Reverse(runs)[n]} ELSE {}
           page == [total |-> Len(runs), items |-> item]
<1>1. /\ pc = "pages" /\ census = {} /\ RunsReal /\ CensusRead
      /\ pages' = Append(pages, page)
      /\ pc' = IF Len(pages') < Len(runs) THEN "pages" ELSE "jobs"
      /\ UNCHANGED <<runs, census, previous, result, green, bad>>
  BY DEF Workflows!ReadPage, CensusInv, CensusRead, Workflows!github, Workflows!history
<1>2. /\ pages \in Seq(PageRec) /\ Len(pages) \in Nat /\ n \in Nat
      /\ runs \in Seq(RunRec) /\ Len(runs) \in Nat
  BY <1>1 DEF CensusRead, RunsReal
<1>3. \A r \in item : Known(r) /\ r.id = Len(runs) + 1 - n /\ r = runs[r.id]
  <2> SUFFICES ASSUME n <= Len(runs)
               PROVE  LET r == Workflows!Reverse(runs)[n]
                      IN  Known(r) /\ r.id = Len(runs) + 1 - n /\ r = runs[r.id]
    OBVIOUS
  <2>1. n \in 1 .. Len(runs)
    BY <1>2
  <2> HIDE DEF n
  <2> QED
    BY <1>1, <2>1, NewestFirst, KnownNow
<1>4. item \in SUBSET RunRec /\ (n <= Len(runs) => item # {})
  <2>1. \A r \in item : r \in RunRec
    BY <1>3 DEF Known
  <2> QED
    BY <2>1
<1> HIDE DEF item
<1>5. page \in PageRec
  BY <1>2, <1>4 DEF PageRec
<1>6. page.total = Len(runs) /\ page.items = item
  OBVIOUS
<1> HIDE DEF page
<1>7. /\ pages' \in Seq(PageRec) /\ Len(pages') = n /\ pages'[n] = page
      /\ \A k \in DOMAIN pages : k \in DOMAIN pages' /\ pages'[k] = pages[k]
      /\ \A k \in DOMAIN pages' : k = n \/ k \in DOMAIN pages
  BY <1>1, <1>2, <1>5
<1>8. \A r \in Workflows!Listed' : r \in Workflows!Listed \/ r \in item
  <2> TAKE r \in Workflows!Listed'
  <2>1. PICK k \in DOMAIN pages' : r \in pages'[k].items
    BY DEF Workflows!Listed, Workflows!ToSet
  <2> QED
    BY <1>6, <1>7, <2>1, ListedPage
<1>9. \A r : Known(r) => Known(r)'
  BY <1>1 DEF Known
<1>10. \A k \in DOMAIN pages' : Paged(k)'
  <2>1. \A k : k = n => Paged(k)'
    BY <1>1, <1>2, <1>3, <1>4, <1>6, <1>7, <1>9 DEF Paged
  <2>2. \A k \in DOMAIN pages : Paged(k)'
    BY <1>1, <1>7, <1>9 DEF Paged, CensusRead
  <2> QED
    BY <1>7, <2>1, <2>2
<1>11. CensusRead'
  <2>1. \A r \in census' \union previous' : KnownWhole(r)'
    BY <1>1, <1>9 DEF CensusRead, KnownWhole
  <2>2. pc' = "jobs" => Len(pages') # 0 /\ pages'[Len(pages')].total <= Len(pages')
    BY <1>1, <1>2, <1>6, <1>7
  <2> QED
    BY <1>1, <1>7, <1>10, <2>1, <2>2 DEF CensusRead
<1>12. \A i, a : Began(i, a) => Began(i, a)'
  <2> SUFFICES ASSUME NEW i, NEW a, Began(i, a) PROVE Began(i, a)'
    OBVIOUS
  <2>1. i \in 1 .. Len(runs) /\ a \in Nat /\ a <= runs[i].attempt
    BY <1>2 DEF Began
  <2>2. \A k \in DOMAIN pages' : i <= pages'[k].total
    BY <1>2, <1>6, <1>7, <2>1 DEF Began
  <2>3. \A r \in Workflows!Listed' \union census' : r.id = i => a <= r.attempt
    BY <1>1, <1>3, <1>8, <2>1 DEF Began
  <2> QED
    BY <1>1, <2>1, <2>2, <2>3 DEF Began
<1>13. Unlike'
  BY <1>1, <1>12 DEF CensusInv, Unlike, Reading
<1>14. Blamed'
  <2> SUFFICES ASSUME NEW b \in bad PROVE Failure(b)'
    BY <1>1 DEF Blamed
  <2>1. Failure(b)
    BY <1>1 DEF CensusInv, Blamed, Reading
  <2> QED
    BY <1>1, <1>12, <2>1 DEF Failure
<1>15. RunsReal' /\ Told'
  BY <1>1 DEF CensusInv, RunsReal, Told
<1> QED
  BY <1>11, <1>13, <1>14, <1>15 DEF CensusInv

\* A reading that is given up.
LEMMA RetryKeeps ==
  CensusInv /\ Workflows!Retry /\ UNCHANGED <<runs, previous, result, green, bad>>
    /\ result = "none"
  => CensusInv'
<1> SUFFICES ASSUME CensusInv, Workflows!Retry, result = "none",
                    UNCHANGED <<runs, previous, result, green, bad>>
             PROVE  CensusInv'
  OBVIOUS
<1>1. pc' = "start" /\ pages' = <<>> /\ census' = {}
  BY DEF Workflows!Retry, Workflows!NoCensus
<1>2. CensusRead
  BY DEF CensusInv
<1>3. \A r \in census' \union previous' : KnownWhole(r)'
  BY <1>1, <1>2 DEF CensusRead, KnownWhole, Known
<1>4. DOMAIN pages' = {} /\ pages' \in Seq(PageRec)
  BY <1>1
<1>5. CensusRead'
  BY <1>1, <1>2, <1>3, <1>4 DEF CensusRead
<1>6. RunsReal' /\ Told' /\ Unlike' /\ Blamed'
  BY <1>1 DEF CensusInv, RunsReal, Told, Unlike, Blamed, Reading
<1> QED
  BY <1>5, <1>6 DEF CensusInv

\* Of some runs there is one with the smallest number.
LEMMA SmallestId ==
  \A S : S # {} /\ (\A r \in S : r.id \in Nat) => \E r \in S : \A o \in S : r.id <= o.id
<1> SUFFICES ASSUME NEW S, S # {}, \A r \in S : r.id \in Nat
             PROVE  \E r \in S : \A o \in S : r.id <= o.id
  OBVIOUS
<1> DEFINE T == {r.id : r \in S}
           R == {p \in Nat \X Nat : p[1] < p[2]}
<1>1. T \subseteq Nat /\ T # {}
  OBVIOUS
<1>2. IsWellFoundedOn(R, Nat)
  BY NatLessThanWellFounded DEF OpToRel
<1> HIDE DEF T, R
<1>3. PICK x \in T : \A y \in T : ~ (<<y, x>> \in R)
  BY <1>1, <1>2, WFMin
<1>4. \A y \in T : x <= y
  <2> TAKE y \in T
  <2>1. x \in Nat /\ y \in Nat /\ <<y, x>> \notin R
    BY <1>1, <1>3
  <2>2. y < x => <<y, x>> \in R
    BY <2>1 DEF R
  <2> QED
    BY <2>1, <2>2
<1>5. PICK r \in S : x = r.id
  BY DEF T
<1> QED
  BY <1>4, <1>5 DEF T

\* The run whose jobs are read next.
Next_ == {r \in Workflows!Listed :
            \A c \in census : Workflows!Listing(c) # Workflows!Listing(r)}

LEMMA ReadJobsKeeps == CensusInv /\ Workflows!ReadJobs => CensusInv'
<1> SUFFICES ASSUME CensusInv, Workflows!ReadJobs PROVE CensusInv'
  OBVIOUS
<1>1. /\ pc = "jobs" /\ UNCHANGED <<runs, previous, result, green, bad>>
      /\ result = "none" /\ CensusRead /\ RunsReal
  BY DEF Workflows!ReadJobs, Workflows!github, Workflows!history, CensusInv, Told
<1>2. CASE ~Workflows!Consistent
  BY <1>1, <1>2, RetryKeeps DEF Workflows!ReadJobs
<1>3. CASE Workflows!Consistent /\ Next_ = {}
  <2>1. pc' = "judge" /\ UNCHANGED <<pages, census>>
    BY <1>3 DEF Workflows!ReadJobs, Next_
  <2>2. \A p, q \in Workflows!ToSet(pages) : p.total = q.total
    BY <1>3 DEF Workflows!Consistent
  <2>3. \A r \in Workflows!Listed :
          \E c \in census : Workflows!Listing(c) = Workflows!Listing(r)
    BY <1>3 DEF Next_
  <2>4. Workflows!Listed' = Workflows!Listed /\ Workflows!ToSet(pages)' = Workflows!ToSet(pages)
    BY <2>1 DEF Workflows!Listed, Workflows!ToSet
  <2>5. \A r : (Known(r) => Known(r)') /\ (KnownWhole(r) => KnownWhole(r)')
    BY <1>1 DEF Known, KnownWhole
  <2>6. \A k : Paged(k) => Paged(k)'
    BY <1>1, <2>1, <2>5 DEF Paged
  <2>7. CensusRead'
    BY <1>1, <2>1, <2>2, <2>3, <2>4, <2>5, <2>6 DEF CensusRead, Workflows!Listing
  <2>8. \A i, a : Began(i, a) => Began(i, a)'
    BY <1>1, <2>1, <2>4 DEF Began
  <2>9. Unlike'
    BY <1>1, <2>8 DEF CensusInv, Unlike, Reading
  <2>10. \A b : Failure(b) => Failure(b)'
    BY <1>1, <2>1, <2>8 DEF Failure
  <2>11. RunsReal' /\ Told' /\ Blamed'
    BY <1>1, <2>10 DEF CensusInv, RunsReal, Told, Blamed, Reading
  <2> QED
    BY <2>7, <2>9, <2>11 DEF CensusInv
<1>4. CASE Workflows!Consistent /\ Next_ # {}
  <2> DEFINE r == CHOOSE r \in Next_ : \A o \in Next_ : r.id <= o.id
             c == [r EXCEPT !.jobs = runs[r.id].jobs]
  <2>1. \A o \in Next_ : Known(o) /\ o \in RunRec /\ o.id \in Nat
    BY ListedKnown DEF Next_, Known, RunRec
  <2>2. r \in Next_
    BY <1>4, <2>1, SmallestId
  <2>3. census' = census \union {c} /\ UNCHANGED <<pc, pages>>
    BY <1>4 DEF Workflows!ReadJobs, Next_
  <2>4. r \in Workflows!Listed /\ Known(r)
    BY <2>1, <2>2 DEF Next_
  <2> HIDE DEF r
  <2>5. r \in RunRec /\ r.id \in DOMAIN runs /\ runs[r.id] \in RunRec /\ runs[r.id].id = r.id
    BY <1>1, <2>4 DEF Known, RunsReal
  <2>6. /\ c \in RunRec /\ c.id = r.id /\ c.attempt = r.attempt /\ c.completed = r.completed
        /\ c.concl = r.concl /\ c.jobs = runs[r.id].jobs
    BY <2>5 DEF RunRec
  <2> HIDE DEF c
  <2>7. Known(c)
    BY <2>4, <2>6 DEF Known
  <2>8. KnownWhole(c)
    <3> SUFFICES ASSUME c.attempt = runs[c.id].attempt, c.completed PROVE c = runs[c.id]
      BY <1>1, <2>5, <2>6, <2>7 DEF KnownWhole, RunsReal, Real
    <3>1. runs[c.id].completed /\ runs[c.id].concl = c.concl
      BY <2>7 DEF Known
    <3>2. c.completed = runs[c.id].completed
      BY <2>5, <2>6, <3>1 DEF RunRec
    <3> QED
      BY <2>5, <2>6, <3>1, <3>2 DEF RunRec
  <2>9. Workflows!Listed' = Workflows!Listed
    BY <2>3 DEF Workflows!Listed, Workflows!ToSet
  <2>10. \A q : (Known(q) => Known(q)') /\ (KnownWhole(q) => KnownWhole(q)')
    BY <1>1 DEF Known, KnownWhole
  <2>11. \A k : Paged(k) => Paged(k)'
    BY <1>1, <2>3, <2>10 DEF Paged
  <2>12. CensusRead'
    <3>1. \A q \in census' \union previous' : KnownWhole(q)'
      BY <1>1, <2>3, <2>8, <2>10 DEF CensusRead
    <3> QED
      BY <1>1, <2>3, <2>11, <3>1 DEF CensusRead
  <2>13. \A i, a : Began(i, a) => Began(i, a)'
    <3> TAKE i, a
    <3> SUFFICES ASSUME Began(i, a) PROVE Began(i, a)'
      OBVIOUS
    <3>1. \A q \in Workflows!Listed' \union census' : q.id = i => a <= q.attempt
      BY <2>3, <2>4, <2>6, <2>9 DEF Began
    <3> QED
      BY <1>1, <2>3, <3>1 DEF Began
  <2>14. Unlike'
    BY <1>1, <2>3, <2>13 DEF CensusInv, Unlike, Reading
  <2>15. \A b : Failure(b) => Failure(b)'
    <3> TAKE b
    <3> SUFFICES ASSUME Failure(b) PROVE Failure(b)'
      OBVIOUS
    <3>1. Began(b[1], b[2])'
      BY <2>13 DEF Failure
    <3>2. c.id = b[1] /\ JobFailed(runs[b[1]]) => JobFailed(c)
      BY <2>6 DEF JobFailed
    <3> QED
      BY <1>1, <2>3, <3>1, <3>2 DEF Failure
  <2>16. RunsReal' /\ Told' /\ Blamed'
    BY <1>1, <2>3, <2>15 DEF CensusInv, RunsReal, Told, Blamed, Reading
  <2> QED
    BY <2>12, <2>14, <2>16 DEF CensusInv
<1> QED
  BY <1>2, <1>3, <1>4

LEMMA TroubleKeeps == CensusInv /\ Workflows!Trouble => CensusInv'
BY RetryKeeps DEF Workflows!Trouble, Workflows!github, Workflows!history, CensusInv, Told

-----------------------------------------------------------------------------
(* What a finished census means. *)

\* It has every run there was when it began.
LEMMA CensusCovers ==
  CensusInv /\ pc = "judge" =>
    \A i, a : Began(i, a) => \E c \in census : c.id = i /\ a <= c.attempt
<1> SUFFICES ASSUME CensusInv, pc = "judge", NEW i, NEW a, Began(i, a)
             PROVE  \E c \in census : c.id = i /\ a <= c.attempt
  OBVIOUS
<1>1. CensusRead /\ RunsReal
  BY DEF CensusInv
<1> DEFINE n == Len(pages)
           k == pages[n].total + 1 - i
<1>2. /\ pages \in Seq(PageRec) /\ n \in Nat /\ n # 0 /\ pages[n].total <= n
  BY <1>1 DEF CensusRead
<1>3. pages[n] \in PageRec
  BY <1>2
<1>4. pages[n].total \in Nat /\ i <= pages[n].total /\ i \in Nat /\ i >= 1
  <2>1. n \in DOMAIN pages
    BY <1>2
  <2>2. i \in 1 .. Len(runs)
    BY <1>1 DEF Began, RunsReal
  <2>3. Len(runs) \in Nat
    BY <1>1 DEF RunsReal
  <2> QED
    BY <1>3, <2>1, <2>2, <2>3 DEF PageRec, Began
<1>5. k \in 1 .. n /\ k \in DOMAIN pages
  BY <1>2, <1>4
<1>6. pages[k].total = pages[n].total
  BY <1>1, <1>2, <1>5 DEF CensusRead, Workflows!ToSet
<1>7. k <= pages[k].total /\ pages[k].total + 1 - k = i
  BY <1>4, <1>6
<1> HIDE DEF k
<1>8. PICK r \in pages[k].items : r.id = i
  BY <1>1, <1>5, <1>7 DEF CensusRead, Paged
<1>9. r \in Workflows!Listed
  BY <1>5, ListedPage
<1>10. PICK c \in census : Workflows!Listing(c) = Workflows!Listing(r)
  BY <1>1, <1>9 DEF CensusRead
<1>11. c \in RunRec /\ r \in RunRec
  BY <1>1, <1>9, ListedKnown DEF CensusRead, KnownWhole, Known
<1>12. c.id = r.id
  <2>1. Workflows!Listing(c).id = Workflows!Listing(r).id
    BY <1>10
  <2> QED
    BY <1>11, <2>1 DEF Workflows!Listing, RunRec
<1>13. a <= c.attempt
  BY <1>8, <1>12 DEF Began
<1> QED
  BY <1>8, <1>12, <1>13

\* A second census like the first is of a moment at which all was green.
LEMMA ConfirmedGreen ==
  CensusInv /\ pc = "judge" /\ previous # {} /\ census = previous => green
<1> SUFFICES ASSUME CensusInv, pc = "judge", previous # {}, census = previous, ~green
             PROVE  FALSE
  BY DEF CensusInv
<1>1. PICK i \in DOMAIN runs, a \in Nat :
        Began(i, a) /\ \A r \in previous : r.id = i => r.attempt < a
  BY DEF CensusInv, Unlike, Reading
<1>2. PICK c \in census : c.id = i /\ a <= c.attempt
  BY <1>1, CensusCovers
<1>3. c \in RunRec
  BY DEF CensusInv, CensusRead, KnownWhole, Known
<1>4. c.attempt \in Nat /\ c.attempt < a
  BY <1>1, <1>2, <1>3 DEF RunRec
<1> QED
  BY <1>2, <1>4

\* A census without failures has not passed over a run that had failed.
LEMMA FailuresSeen ==
  CensusInv /\ pc = "judge" /\ ~Workflows!Failed => bad \intersect Workflows!RunsFailed = {}
<1> SUFFICES ASSUME CensusInv, pc = "judge",
                    NEW b \in bad \intersect Workflows!RunsFailed
             PROVE  Workflows!Failures(census) # {}
  BY DEF Workflows!Failed
<1>1. Failure(b)
  BY DEF CensusInv, Blamed, Reading
<1>2. runs[b[1]].attempt = b[2]
  BY RunsFailedJobs DEF CensusInv
<1>3. PICK c \in census : c.id = b[1]
  BY <1>1, CensusCovers DEF Failure
<1>4. JobFailed(c)
  BY <1>1, <1>2, <1>3 DEF Failure
<1>5. KnownWhole(c)
  BY DEF CensusInv, CensusRead
<1>6. PICK j \in c.jobs : j.concl = "failure" /\ j.completed
  BY <1>4, <1>5 DEF KnownWhole, JobFailed
<1> QED
  BY <1>6, JobFails

LEMMA JudgeKeeps == CensusInv /\ Workflows!Judge => CensusInv'
<1> SUFFICES ASSUME CensusInv, Workflows!Judge PROVE CensusInv'
  OBVIOUS
<1>1. /\ pc = "judge" /\ UNCHANGED <<runs, green, bad>> /\ CensusRead
      /\ pages' = <<>> /\ census' = {} /\ result = "none"
  BY DEF Workflows!Judge, Workflows!github, Workflows!history, CensusInv, Told,
         Workflows!NoCensus
<1>2. \/ previous' = {} /\ result' # "satisfied"
      \/ previous' = previous /\ result' # "satisfied"
      \/ /\ previous' = census /\ ~Workflows!Failed /\ Workflows!Complete(census)
         /\ result' = "satisfied" => Workflows!Confirmed
  BY <1>1 DEF Workflows!Judge, Workflows!Finish, Workflows!NoCensus
<1>3. pc' \in {"start", "done"} /\ (result' # "none" => pc' = "done")
  BY <1>1 DEF Workflows!Judge, Workflows!Finish
<1>4. \A r \in census' \union previous' : KnownWhole(r)'
  BY <1>1, <1>2 DEF CensusRead, KnownWhole, Known
<1>5. previous' # {} =>
        Workflows!Complete(previous') /\ Workflows!Failures(previous') = {}
  BY <1>1, <1>2 DEF CensusRead, Workflows!Failed
<1>6. DOMAIN pages' = {} /\ pages' \in Seq(PageRec)
  BY <1>1
<1>7. CensusRead'
  BY <1>1, <1>3, <1>4, <1>5, <1>6 DEF CensusRead
<1>8. Told'
  <2> SUFFICES ASSUME result' = "satisfied" PROVE green
    BY <1>1, <1>3 DEF Told
  <2>1. census = previous /\ Workflows!Complete(census)
    BY <1>2 DEF Workflows!Confirmed
  <2>2. previous # {}
    BY <2>1 DEF Workflows!Complete
  <2> QED
    BY <1>1, <2>1, <2>2, ConfirmedGreen
<1>9. RunsReal' /\ Unlike' /\ Blamed'
  BY <1>1, <1>3 DEF CensusInv, RunsReal, Unlike, Blamed, Reading
<1> QED
  BY <1>7, <1>8, <1>9 DEF CensusInv

LEMMA CensusInit == Workflows!Init => CensusInv
<1> SUFFICES ASSUME Workflows!Init PROVE CensusInv
  OBVIOUS
<1>1. /\ runs = <<>> /\ pc = "start" /\ pages = <<>> /\ census = {} /\ previous = {}
      /\ result = "none"
  BY DEF Workflows!Init, Workflows!NoCensus
<1>2. DOMAIN runs = {} /\ DOMAIN pages = {} /\ runs \in Seq(RunRec) /\ pages \in Seq(PageRec)
  BY <1>1
<1> QED
  BY <1>1, <1>2 DEF CensusInv, RunsReal, CensusRead, Unlike, Blamed, Reading, Told

\* Only its Judge ends a census that has been read.
LEMMA CensusStep ==
  AllWorkflows /\ CensusInv /\ Workflows!Next =>
    /\ CensusInv'
    /\ pc = "judge" /\ pc' # "judge" /\ result' # "changed" =>
         bad \intersect Workflows!RunsFailed = {}
<1> SUFFICES ASSUME AllWorkflows, CensusInv, Workflows!Next
             PROVE  /\ CensusInv'
                    /\ pc = "judge" /\ pc' # "judge" /\ result' # "changed" =>
                         bad \intersect Workflows!RunsFailed = {}
  OBVIOUS
<1>1. CASE Workflows!Push \/ Workflows!StartRun \/ Workflows!Actions
  <2>1. pc' = pc
    BY <1>1 DEF Workflows!Push, Workflows!StartRun, Workflows!Actions, Workflows!AddJob,
         Workflows!EndJob, Workflows!EndRun, Workflows!Rerun, Workflows!Acts, Workflows!reader
  <2> QED
    BY <1>1, <2>1, ActingKeeps
<1>2. CASE Workflows!ReadHead
  BY <1>2, ReadHeadKeeps DEF Workflows!ReadHead
<1>3. CASE Workflows!ReadPage
  BY <1>3, ReadPageKeeps DEF Workflows!ReadPage
<1>4. CASE Workflows!ReadJobs
  BY <1>4, ReadJobsKeeps DEF Workflows!ReadJobs
<1>5. CASE Workflows!Trouble
  BY <1>5, TroubleKeeps DEF Workflows!Trouble
<1>6. CASE Workflows!Judge
  <2>1. Workflows!Failed => result' = "changed"
    BY <1>6 DEF Workflows!Judge, Workflows!Finish
  <2> QED
    BY <1>6, <2>1, JudgeKeeps, FailuresSeen
<1> QED
  BY <1>1, <1>2, <1>3, <1>4, <1>5, <1>6 DEF Workflows!Next, Workflows!Read

-----------------------------------------------------------------------------
(* The other waits: their invariant. *)

Passed(c) == Snapshots!IsTerminal(c) /\ c.concl \in Snapshots!Passing

PullRec == [head : {"expected", "other"}, state : {"OPEN", "CLOSED", "MERGED"}]
CheckRun == [name : Snapshots!Expected, origin : world.origins, at : Nat,
             concl : Conclusions, completed : BOOLEAN, ended : BOOLEAN]
Status == [name : world.contexts, concl : {"pending", "success", "failure"}, at : Nat]

Shown ==
    /\ world \in SnapshotWorlds /\ pull \in PullRec /\ clock \in Nat
    /\ runs \in Seq(CheckRun) /\ listed \subseteq DOMAIN runs
    /\ \A i \in DOMAIN runs : ~runs[i].ended => runs[i].concl = "none"
    /\ statuses \in Seq(Status)

\* Run i, or status i, is the current check of a name and has not passed.
RunStands(i) ==
    /\ i \in DOMAIN runs /\ runs[i].name \in Snapshots!Expected /\ ~Passed(runs[i])
    /\ \A k \in DOMAIN runs :
         /\ runs[k].name = runs[i].name
         /\ Snapshots!Source(runs[k].origin) = Snapshots!Source(runs[i].origin)
         => k <= i
StatusStands(i) ==
    /\ i \in Snapshots!Latest /\ statuses[i].name \in Snapshots!Expected
    /\ ~Passed(Snapshots!StatusCheck(i))
    /\ \A k \in DOMAIN runs : runs[k].name = statuses[i].name =>
         Snapshots!Source(runs[k].origin) # <<"status">>

RunContext(i) == [name |-> runs[i].name, suite |-> i, posted |-> {}]
StatusContext(i) == [name |-> statuses[i].name, suite |-> 0, posted |-> {i}]

\* Whatever was standing when the observation began was there.
StandingShown ==
    \A x \in standing : \/ \E i \in DOMAIN runs : x = RunContext(i)
                        \/ \E i \in DOMAIN statuses : x = StatusContext(i)

\* What stood when the observation began and still does.
StillStanding == standing \intersect Snapshots!Contexts_(Snapshots!NotPassed(Snapshots!Whole))

Partial == got = [pull |-> got.pull, checks |-> got.checks,
                  target |-> got.target, release |-> got.release]

\* A check read over REST: its suite was there, and is not behind it.
RestCheck(c) ==
    /\ c = [name |-> c.name, source |-> c.source, suite |-> c.suite, at |-> c.at,
            completed |-> c.completed, ended |-> c.ended, concl |-> c.concl]
    /\ c.at \in Nat /\ (c.suite = 0 => c.source = <<"status">>)
    /\ c.suite # 0 =>
         /\ c.suite \in DOMAIN runs /\ c.name = runs[c.suite].name
         /\ c.source = <<runs[c.suite].origin.app>>
         /\ Passed(c) => Passed(runs[c.suite])

RunsRead ==
    /\ \A c \in got.checks : RestCheck(c)
    /\ \A x \in standing : x.suite # 0 => \E c \in got.checks : c.suite = x.suite

StatusesRead ==
    /\ \A c, d \in got.checks : c.suite = 0 /\ d.suite = 0 /\ c.name = d.name => c = d
    /\ \A x \in StillStanding : x.suite = 0 =>
         \E c \in got.checks : c.suite = 0 /\ c.name = x.name /\ ~Passed(c)

\* What stands is in what was read, current and not passed.
Caught ==
    \A x \in StillStanding : \E c \in Snapshots!Current(got.checks) :
        c.name = x.name /\ c.name \in Snapshots!Expected /\ ~Passed(c)

CheckInv ==
    /\ pc # "release" /\ StandingShown
    /\ pc \in {"statuses", "workflows"} => RunsRead
    /\ pc = "statuses" => \A c \in got.checks : c.suite # 0
    /\ pc = "workflows" => StatusesRead
    /\ pc = "judge" => Caught

SnapshotInv ==
    /\ Shown
    /\ pc \notin {"start", "done"} => Partial
    /\ pc # "done" => result = "none"
    /\ Snapshots!Kind = "checks" => CheckInv

-----------------------------------------------------------------------------
(* REST shows what the query shows. *)

LEMMA SameChecks ==
  Shown /\ Snapshots!AllListed(Snapshots!RestRuns) =>
    Snapshots!Sourced(Snapshots!RestRuns \union Snapshots!RestStatuses) = Snapshots!Whole
<1> SUFFICES ASSUME Shown, Snapshots!AllListed(Snapshots!RestRuns)
             PROVE  Snapshots!Sourced(Snapshots!RestRuns \union Snapshots!RestStatuses)
                    = Snapshots!Whole
  OBVIOUS
<1> DEFINE Src(c) == IF c.suite \in listed
                     THEN [c EXCEPT !.source = Snapshots!Source(runs[c.suite].origin)] ELSE c
           rest(i) == Snapshots!RunCheck(i, <<runs[i].origin.app>>)
           whole(i) == Snapshots!RunCheck(i, Snapshots!Source(runs[i].origin))
<1>1. \A i \in DOMAIN runs : Src(rest(i)) = whole(i)
  <2> TAKE i \in DOMAIN runs
  <2>1. rest(i).suite = i /\ rest(i).source = <<runs[i].origin.app>>
    BY DEF Snapshots!RunCheck
  <2>2. CASE i \in listed
    BY <2>1, <2>2 DEF Snapshots!RunCheck
  <2>3. CASE i \notin listed
    <3>1. rest(i) \in Snapshots!RestRuns
      BY DEF Snapshots!RestRuns
    <3>2. rest(i).source[1] # "actions"
      BY <2>1, <2>3, <3>1 DEF Snapshots!AllListed
    <3>3. Snapshots!Source(runs[i].origin) = <<runs[i].origin.app>>
      BY <2>1, <3>2 DEF Snapshots!Source
    <3> QED
      BY <2>1, <2>3, <3>3
  <2> QED
    BY <2>2, <2>3
<1>2. 0 \notin listed
  BY DEF Shown
<1>3. \A i : Src(Snapshots!StatusCheck(i)) = Snapshots!StatusCheck(i)
  BY <1>2 DEF Snapshots!StatusCheck
<1>4. Snapshots!Sourced(Snapshots!RestRuns \union Snapshots!RestStatuses)
      = {Src(c) : c \in Snapshots!RestRuns \union Snapshots!RestStatuses}
  BY DEF Snapshots!Sourced
<1>5. Snapshots!Whole = {whole(i) : i \in DOMAIN runs}
                               \union {Snapshots!StatusCheck(i) : i \in Snapshots!Latest}
  BY DEF Snapshots!Whole
<1>6. /\ Snapshots!RestRuns = {rest(i) : i \in DOMAIN runs}
      /\ Snapshots!RestStatuses = {Snapshots!StatusCheck(i) : i \in Snapshots!Latest}
  BY DEF Snapshots!RestRuns, Snapshots!RestStatuses
<1> HIDE DEF Src, rest, whole
<1> QED
  BY <1>1, <1>3, <1>4, <1>5, <1>6

\* What tells two runs of a check apart over REST does in the query too.
LEMMA SameSource ==
  Shown /\ ~Snapshots!SharedSource =>
    \A i, k \in DOMAIN runs : runs[i].name = runs[k].name =>
      (Snapshots!SeenSource(runs[i].origin) = Snapshots!SeenSource(runs[k].origin)
       <=> Snapshots!Source(runs[i].origin) = Snapshots!Source(runs[k].origin))
<1> SUFFICES ASSUME Shown, ~Snapshots!SharedSource, NEW i \in DOMAIN runs, NEW k \in DOMAIN runs,
                    runs[i].name = runs[k].name
             PROVE  Snapshots!SeenSource(runs[i].origin) = Snapshots!SeenSource(runs[k].origin)
                    <=> Snapshots!Source(runs[i].origin) = Snapshots!Source(runs[k].origin)
  OBVIOUS
<1> DEFINE o == runs[i].origin
           p == runs[k].origin
<1>1. o.app = p.app \/ o.app \notin world.hidden \ {"actions"} \/ p.app \notin world.hidden \ {"actions"}
  BY DEF Snapshots!SharedSource
<1> HIDE DEF o, p
<1>2. \A a, b, c, d, e, f :
        /\ <<a>> # <<b, c, d>> /\ <<a>> # <<b, c>> /\ <<a>> # << >> /\ <<a, b>> # << >>
        /\ <<a, b, c>> # << >> /\ <<a, b>> # <<c, d, e>>
        /\ <<a>> = <<b>> <=> a = b
        /\ <<a, b>> = <<c, d>> <=> a = c /\ b = d
        /\ <<a, b, c>> = <<d, e, f>> <=> a = d /\ b = e /\ c = f
  OBVIOUS
<1>3. Snapshots!SeenSource(o) = Snapshots!SeenSource(p)
      <=> Snapshots!Source(o) = Snapshots!Source(p)
  <2>1. CASE o.app = "actions" /\ p.app = "actions"
    BY <1>2, <2>1 DEF Snapshots!SeenSource, Snapshots!Source
  <2>2. CASE o.app = "actions" /\ p.app # "actions"
    BY <1>2, <2>2 DEF Snapshots!SeenSource, Snapshots!Source
  <2>3. CASE o.app # "actions" /\ p.app = "actions"
    BY <1>2, <2>3 DEF Snapshots!SeenSource, Snapshots!Source
  <2>4. CASE o.app # "actions" /\ p.app # "actions"
    BY <1>1, <1>2, <2>4 DEF Snapshots!SeenSource, Snapshots!Source
  <2> QED
    BY <2>1, <2>2, <2>3, <2>4
<1> QED
  BY <1>3 DEF o, p

\* A commit status has a source of its own, or shares it with an app that is seen.
LEMMA StatusSource ==
  Shown => \A o : Snapshots!SeenSource(o) = <<"status">> <=> Snapshots!Source(o) = <<"status">>
<1> SUFFICES ASSUME Shown, NEW o
             PROVE  Snapshots!SeenSource(o) = <<"status">> <=> Snapshots!Source(o) = <<"status">>
  OBVIOUS
<1>1. "status" \notin world.hidden
  BY CommandAssumption DEF Shown
<1>2. \A a, b, c : <<a, b, c>> # <<"status">> /\ <<a, b>> # <<"status">>
                  /\ << >> # <<"status">> /\ (<<a>> = <<"status">> <=> a = "status")
  OBVIOUS
<1> QED
  BY <1>1, <1>2 DEF Snapshots!SeenSource, Snapshots!Source

Alike(c, d) ==
    /\ c.name = d.name /\ c.completed = d.completed /\ c.ended = d.ended /\ c.concl = d.concl

\* Two sets of checks are judged alike if the current ones of each are in the other.
LEMMA JudgedAlike ==
  ASSUME NEW A, NEW B, NEW expected,
         \A c \in Snapshots!Current(A) : \E d \in Snapshots!Current(B) : Alike(c, d),
         \A d \in Snapshots!Current(B) : \E c \in Snapshots!Current(A) : Alike(c, d)
  PROVE  Snapshots!JudgeChecks(expected, A) = Snapshots!JudgeChecks(expected, B)
<1>1. \A name :
        /\ \A c \in Snapshots!Named(A, name) : \E d \in Snapshots!Named(B, name) : Alike(c, d)
        /\ \A d \in Snapshots!Named(B, name) : \E c \in Snapshots!Named(A, name) : Alike(c, d)
  BY DEF Alike, Snapshots!Named
<1>2. Snapshots!FailedChecks(expected, A) = Snapshots!FailedChecks(expected, B)
  <2>1. \A name : (\E c \in Snapshots!Named(A, name) : Snapshots!CheckFailed(c))
                  <=> \E d \in Snapshots!Named(B, name) : Snapshots!CheckFailed(d)
    <3> TAKE name
    <3>1. ASSUME \E c \in Snapshots!Named(A, name) : Snapshots!CheckFailed(c)
          PROVE  \E d \in Snapshots!Named(B, name) : Snapshots!CheckFailed(d)
      <4>1. PICK c \in Snapshots!Named(A, name) : Snapshots!CheckFailed(c)
        BY <3>1
      <4>2. PICK d \in Snapshots!Named(B, name) : Alike(c, d)
        BY <1>1
      <4> QED
        BY <4>1, <4>2 DEF Alike, Snapshots!IsTerminal, Snapshots!CheckFailed
    <3>2. ASSUME \E d \in Snapshots!Named(B, name) : Snapshots!CheckFailed(d)
          PROVE  \E c \in Snapshots!Named(A, name) : Snapshots!CheckFailed(c)
      <4>1. PICK d \in Snapshots!Named(B, name) : Snapshots!CheckFailed(d)
        BY <3>2
      <4>2. PICK c \in Snapshots!Named(A, name) : Alike(c, d)
        BY <1>1
      <4> QED
        BY <4>1, <4>2 DEF Alike, Snapshots!IsTerminal, Snapshots!CheckFailed
    <3> QED
      BY <3>1, <3>2
  <2> QED
    BY <2>1 DEF Snapshots!FailedChecks
<1>3. Snapshots!AllEnded(expected, A) <=> Snapshots!AllEnded(expected, B)
  <2>1. \A name : (\A c \in Snapshots!Named(A, name) : Snapshots!IsTerminal(c))
                  <=> \A d \in Snapshots!Named(B, name) : Snapshots!IsTerminal(d)
    <3> TAKE name
    <3>1. ASSUME \A c \in Snapshots!Named(A, name) : Snapshots!IsTerminal(c)
          PROVE  \A d \in Snapshots!Named(B, name) : Snapshots!IsTerminal(d)
      <4> TAKE d \in Snapshots!Named(B, name)
      <4>1. PICK c \in Snapshots!Named(A, name) : Alike(c, d)
        BY <1>1
      <4> QED
        BY <3>1, <4>1 DEF Alike, Snapshots!IsTerminal
    <3>2. ASSUME \A d \in Snapshots!Named(B, name) : Snapshots!IsTerminal(d)
          PROVE  \A c \in Snapshots!Named(A, name) : Snapshots!IsTerminal(c)
      <4> TAKE c \in Snapshots!Named(A, name)
      <4>1. PICK d \in Snapshots!Named(B, name) : Alike(c, d)
        BY <1>1
      <4> QED
        BY <3>2, <4>1 DEF Alike, Snapshots!IsTerminal
    <3> QED
      BY <3>1, <3>2
  <2> QED
    BY <2>1 DEF Snapshots!AllEnded
<1>4. (\A name \in expected : Snapshots!Named(A, name) # {})
      <=> \A name \in expected : Snapshots!Named(B, name) # {}
  BY <1>1
<1> QED
  BY <1>2, <1>3, <1>4 DEF Snapshots!JudgeChecks

LEMMA SameJudgement == Shown => Snapshots!FallbackAgrees
<1> SUFFICES ASSUME Shown, Snapshots!AllListed(Snapshots!RestRuns), ~Snapshots!SharedSource
             PROVE  Snapshots!Judged(Snapshots!Rest) = Snapshots!Judged(Snapshots!Graph)
  BY DEF Snapshots!FallbackAgrees
<1> DEFINE A == Snapshots!Whole
           B == Snapshots!Graph.checks
           Q(i) == Snapshots!RunCheck(i, Snapshots!Source(runs[i].origin))
           R(i) == Snapshots!RunCheck(i, Snapshots!SeenSource(runs[i].origin))
           T(i) == Snapshots!StatusCheck(i)
<1>1. /\ A = {Q(i) : i \in DOMAIN runs} \union {T(i) : i \in Snapshots!Latest}
      /\ B = {R(i) : i \in DOMAIN runs} \union {T(i) : i \in Snapshots!Latest}
  BY DEF Snapshots!Whole, Snapshots!Graph
<1>2. \A i, k \in DOMAIN runs :
        /\ Q(i).name = R(i).name /\ Alike(Q(i), R(i)) /\ Alike(T(i), T(i))
        /\ Snapshots!Newer(Q(i), Q(k)) <=> Snapshots!Newer(R(i), R(k))
        /\ Q(i).name = Q(k).name => (Q(i).source = Q(k).source <=> R(i).source = R(k).source)
  BY SameSource DEF Snapshots!RunCheck, Alike, Snapshots!Newer
<1>3. \A i \in DOMAIN runs : \A k :
        /\ Q(i).source = T(k).source <=> R(i).source = T(k).source
        /\ Snapshots!Newer(Q(i), T(k)) <=> Snapshots!Newer(R(i), T(k))
        /\ Snapshots!Newer(T(k), Q(i)) <=> Snapshots!Newer(T(k), R(i))
  BY StatusSource DEF Snapshots!RunCheck, Snapshots!StatusCheck, Snapshots!Newer
<1>4. \A k : Alike(T(k), T(k))
  BY DEF Alike
<1> HIDE DEF A, B, Q, R, T
<1>5. \A i \in DOMAIN runs : Q(i) \in Snapshots!Current(A) <=> R(i) \in Snapshots!Current(B)
  BY <1>1, <1>2, <1>3 DEF Snapshots!Current
<1>6. \A k \in Snapshots!Latest : T(k) \in Snapshots!Current(A) <=> T(k) \in Snapshots!Current(B)
  BY <1>1, <1>2, <1>3 DEF Snapshots!Current
<1>7. Snapshots!Current(A) \subseteq A /\ Snapshots!Current(B) \subseteq B
  BY DEF Snapshots!Current
<1>8. Snapshots!JudgeChecks(Snapshots!Expected, A) = Snapshots!JudgeChecks(Snapshots!Expected, B)
  <2>1. ASSUME NEW c \in Snapshots!Current(A)
        PROVE  \E d \in Snapshots!Current(B) : Alike(c, d)
    <3>1. CASE \E i \in DOMAIN runs : c = Q(i)
      BY <1>2, <1>5, <3>1
    <3>2. CASE \E k \in Snapshots!Latest : c = T(k)
      BY <1>4, <1>6, <3>2
    <3> QED
      BY <1>1, <1>7, <3>1, <3>2
  <2>2. ASSUME NEW d \in Snapshots!Current(B)
        PROVE  \E c \in Snapshots!Current(A) : Alike(c, d)
    <3>1. CASE \E i \in DOMAIN runs : d = R(i)
      BY <1>2, <1>5, <3>1
    <3>2. CASE \E k \in Snapshots!Latest : d = T(k)
      BY <1>4, <1>6, <3>2
    <3> QED
      BY <1>1, <1>7, <3>1, <3>2
  <2> QED
    BY <2>1, <2>2, JudgedAlike
<1>9. Snapshots!RestPull = Snapshots!PullView
  BY DEF Shown, PullRec, Snapshots!RestPull, Snapshots!PullView, Snapshots!RestMerged
<1>10. /\ Snapshots!Rest = [pull |-> Snapshots!PullView, checks |-> A,
                            target |-> tag, release |-> Snapshots!Published]
       /\ Snapshots!Graph = [pull |-> Snapshots!PullView, checks |-> B,
                             target |-> tag, release |-> Snapshots!Published]
  BY <1>9, SameChecks DEF Snapshots!Rest, Snapshots!RestRelease, Snapshots!Graph, A, B
<1>11. /\ Snapshots!Rest.pull = Snapshots!Graph.pull /\ Snapshots!Rest.checks = A
       /\ Snapshots!Graph.checks = B /\ Snapshots!Rest.target = Snapshots!Graph.target
       /\ Snapshots!Rest.release = Snapshots!Graph.release
  BY <1>10
<1>12. Snapshots!Kind \in {"checks", "merge", "tag", "release"}
  BY CommandAssumption DEF Shown, Snapshots!Kind
<1> HIDE DEF A, B
<1>13. CASE Snapshots!Kind = "checks"
  BY <1>8, <1>11, <1>13 DEF Snapshots!Judged
<1>14. CASE Snapshots!Kind # "checks"
  BY <1>11, <1>12, <1>14 DEF Snapshots!Judged
<1> QED
  BY <1>13, <1>14

-----------------------------------------------------------------------------
(* What stands. *)

LEMMA LatestOne ==
  \A i, j \in Snapshots!Latest : statuses \in Seq(Status) /\ statuses[i].name = statuses[j].name
    => i = j
<1> SUFFICES ASSUME statuses \in Seq(Status), NEW i \in Snapshots!Latest,
                    NEW j \in Snapshots!Latest, statuses[i].name = statuses[j].name
             PROVE  i = j
  OBVIOUS
<1>1. i \in DOMAIN statuses /\ j \in DOMAIN statuses /\ i <= j /\ j <= i
  BY DEF Snapshots!Latest
<1>2. DOMAIN statuses = 1 .. Len(statuses)
  OBVIOUS
<1> QED
  BY <1>1, <1>2

LEMMA ContextsThatStand ==
  Shown => \A x : x \in Snapshots!Contexts_(Snapshots!NotPassed(Snapshots!Whole)) <=>
    \/ \E i : RunStands(i) /\ x = RunContext(i)
    \/ \E i : StatusStands(i) /\ x = StatusContext(i)
<1> SUFFICES ASSUME Shown, NEW x
             PROVE  x \in Snapshots!Contexts_(Snapshots!NotPassed(Snapshots!Whole)) <=>
                      \/ \E i : RunStands(i) /\ x = RunContext(i)
                      \/ \E i : StatusStands(i) /\ x = StatusContext(i)
  OBVIOUS
<1> DEFINE R(i) == Snapshots!RunCheck(i, Snapshots!Source(runs[i].origin))
           C(c) == [name |-> c.name, suite |-> c.suite,
                    posted |-> {i \in Snapshots!Latest : c.suite = 0 /\ statuses[i].name = c.name}]
<1>1. /\ DOMAIN runs = 1 .. Len(runs) /\ Len(runs) \in Nat
      /\ DOMAIN statuses = 1 .. Len(statuses) /\ Len(statuses) \in Nat
  BY DEF Shown
<1>2. \A c : c \in Snapshots!Whole <=>
        (\E i \in DOMAIN runs : c = R(i)) \/ (\E i \in Snapshots!Latest : c = Snapshots!StatusCheck(i))
  BY DEF Snapshots!Whole
<1>3. x \in Snapshots!Contexts_(Snapshots!NotPassed(Snapshots!Whole)) <=>
        \E c \in Snapshots!NotPassed(Snapshots!Whole) : x = C(c)
  BY DEF Snapshots!Contexts_
<1>4. \A c : c \in Snapshots!NotPassed(Snapshots!Whole) <=>
        /\ c \in Snapshots!Whole /\ c.name \in Snapshots!Expected /\ ~Passed(c)
        /\ \A d \in Snapshots!Whole :
             d.name = c.name /\ d.source = c.source => ~Snapshots!Newer(d, c)
  BY DEF Snapshots!NotPassed, Snapshots!Current, Passed
<1>5. \A i : /\ R(i).name = runs[i].name /\ R(i).source = Snapshots!Source(runs[i].origin)
             /\ R(i).suite = i /\ (Passed(R(i)) <=> Passed(runs[i]))
  BY DEF Snapshots!RunCheck, Passed, Snapshots!IsTerminal
<1>6. \A i : LET s == Snapshots!StatusCheck(i)
             IN  s.name = statuses[i].name /\ s.source = <<"status">> /\ s.suite = 0
  BY DEF Snapshots!StatusCheck
<1>7. \A i \in DOMAIN runs : C(R(i)) = RunContext(i)
  <2> TAKE i \in DOMAIN runs
  <2>1. {j \in Snapshots!Latest : R(i).suite = 0 /\ statuses[j].name = R(i).name} = {}
    BY <1>1, <1>5
  <2> HIDE DEF R
  <2> QED
    BY <1>5, <2>1 DEF RunContext
<1>8. \A i \in Snapshots!Latest : C(Snapshots!StatusCheck(i)) = StatusContext(i)
  <2> TAKE i \in Snapshots!Latest
  <2>1. {j \in Snapshots!Latest : statuses[j].name = statuses[i].name} = {i}
    BY LatestOne DEF Shown
  <2> QED
    BY <1>6, <2>1 DEF StatusContext
<1> HIDE DEF R, C
<1>9. \A i \in DOMAIN runs : R(i) \in Snapshots!NotPassed(Snapshots!Whole) <=> RunStands(i)
  <2> TAKE i \in DOMAIN runs
  <2>1. R(i) \in Snapshots!Whole
    BY <1>2
  <2>2. \A k \in DOMAIN runs : Snapshots!Newer(R(k), R(i)) <=> ~(k <= i)
    BY <1>1, <1>5 DEF Snapshots!Newer
  <2>3. \A k : ~Snapshots!Newer(Snapshots!StatusCheck(k), R(i))
    BY <1>1, <1>5, <1>6 DEF Snapshots!Newer
  <2> QED
    BY <1>2, <1>4, <1>5, <2>1, <2>2, <2>3 DEF RunStands
<1>10. \A i \in Snapshots!Latest :
         Snapshots!StatusCheck(i) \in Snapshots!NotPassed(Snapshots!Whole) <=> StatusStands(i)
  <2> TAKE i \in Snapshots!Latest
  <2>1. Snapshots!StatusCheck(i) \in Snapshots!Whole
    BY <1>2
  <2>2. \A k \in DOMAIN runs : Snapshots!Newer(R(k), Snapshots!StatusCheck(i))
    BY <1>1, <1>5, <1>6 DEF Snapshots!Newer
  <2>3. \A k \in Snapshots!Latest : statuses[k].name = statuses[i].name =>
          ~Snapshots!Newer(Snapshots!StatusCheck(k), Snapshots!StatusCheck(i))
    <3> TAKE k \in Snapshots!Latest
    <3> SUFFICES ASSUME statuses[k].name = statuses[i].name
                 PROVE  ~Snapshots!Newer(Snapshots!StatusCheck(k), Snapshots!StatusCheck(i))
      OBVIOUS
    <3>1. k = i
      BY LatestOne DEF Shown
    <3>2. statuses[i] \in Status
      BY DEF Shown, Snapshots!Latest
    <3>3. statuses[i].at \in Nat
      BY <3>2 DEF Status
    <3> QED
      BY <3>1, <3>3, <1>6 DEF Snapshots!Newer, Snapshots!StatusCheck
  <2> DEFINE s == Snapshots!StatusCheck(i)
  <2>4. s.name = statuses[i].name /\ s.source = <<"status">>
    BY <1>6
  <2> HIDE DEF s
  <2>5. ASSUME \A d \in Snapshots!Whole :
                 d.name = s.name /\ d.source = s.source => ~Snapshots!Newer(d, s),
               NEW k \in DOMAIN runs, runs[k].name = statuses[i].name
        PROVE  Snapshots!Source(runs[k].origin) # <<"status">>
    <3>1. R(k) \in Snapshots!Whole /\ Snapshots!Newer(R(k), s)
      BY <1>2, <2>2 DEF s
    <3> QED
      BY <1>5, <2>4, <2>5, <3>1
  <2>6. ASSUME \A k \in DOMAIN runs : runs[k].name = statuses[i].name =>
                 Snapshots!Source(runs[k].origin) # <<"status">>,
               NEW d \in Snapshots!Whole, d.name = s.name, d.source = s.source
        PROVE  ~Snapshots!Newer(d, s)
    <3>1. CASE \E k \in DOMAIN runs : d = R(k)
      <4>1. PICK k \in DOMAIN runs : d = R(k)
        BY <3>1
      <4>2. runs[k].name = statuses[i].name
        BY <1>5, <2>4, <2>6, <4>1
      <4>3. Snapshots!Source(runs[k].origin) = <<"status">>
        BY <1>5, <2>4, <2>6, <4>1
      <4> QED
        BY <2>6, <4>2, <4>3
    <3>2. CASE \E k \in Snapshots!Latest : d = Snapshots!StatusCheck(k)
      BY <1>6, <2>3, <2>4, <2>6, <3>2 DEF s
    <3> QED
      BY <1>2, <3>1, <3>2
  <2>7. s \in Snapshots!NotPassed(Snapshots!Whole) <=>
          /\ s.name \in Snapshots!Expected /\ ~Passed(s)
          /\ \A d \in Snapshots!Whole :
               d.name = s.name /\ d.source = s.source => ~Snapshots!Newer(d, s)
    BY <1>4, <2>1 DEF s
  <2>8. StatusStands(i) <=>
          /\ s.name \in Snapshots!Expected /\ ~Passed(s)
          /\ \A k \in DOMAIN runs : runs[k].name = statuses[i].name =>
               Snapshots!Source(runs[k].origin) # <<"status">>
    BY <2>4 DEF StatusStands, s
  <2>9. s \in Snapshots!NotPassed(Snapshots!Whole) <=> StatusStands(i)
    BY <2>5, <2>6, <2>7, <2>8
  <2> QED
    BY <2>9 DEF s
<1>11. \A c \in Snapshots!NotPassed(Snapshots!Whole) :
         \/ \E i \in DOMAIN runs : c = R(i)
         \/ \E i \in Snapshots!Latest : c = Snapshots!StatusCheck(i)
  BY <1>2, <1>4
<1>12. /\ \A i : RunStands(i) => i \in DOMAIN runs
       /\ \A i : StatusStands(i) => i \in Snapshots!Latest
  BY DEF RunStands, StatusStands
<1> QED
  BY <1>3, <1>7, <1>8, <1>9, <1>10, <1>11, <1>12

-----------------------------------------------------------------------------
(* GitHub moves on under an observation. *)

Onward(r, s) == s.name = r.name /\ s.origin = r.origin /\ (Passed(r) => Passed(s))

Extends ==
    /\ Shown' /\ UNCHANGED <<world, pc, got, standing, result>>
    /\ \A i \in DOMAIN runs : i \in DOMAIN runs' /\ Onward(runs[i], runs'[i])
    /\ \A i \in DOMAIN statuses : i \in DOMAIN statuses' /\ statuses'[i] = statuses[i]

\* What stands later, and was there before, stood before.
LEMMA StoodBefore ==
  Shown /\ Extends /\ StandingShown => \A x \in StillStanding' : x \in StillStanding
<1>1. (Shown => \A x : x \in Snapshots!Contexts_(Snapshots!NotPassed(Snapshots!Whole)) <=>
         \/ \E i : RunStands(i) /\ x = RunContext(i)
         \/ \E i : StatusStands(i) /\ x = StatusContext(i))'
  BY ContextsThatStand, PTL
<1> SUFFICES ASSUME Shown, Extends, StandingShown, NEW x \in StillStanding'
             PROVE  x \in StillStanding
  OBVIOUS
<1>2. x \in standing /\ x \in Snapshots!Contexts_(Snapshots!NotPassed(Snapshots!Whole))'
  BY DEF StillStanding, Extends
<1>3. Shown' /\ world' = world
  BY DEF Extends
<1>4. \/ \E i : RunStands(i)' /\ x = RunContext(i)'
      \/ \E i : StatusStands(i)' /\ x = StatusContext(i)'
  BY <1>1, <1>2, <1>3
<1>5. /\ DOMAIN runs = 1 .. Len(runs) /\ Len(runs) \in Nat
      /\ DOMAIN statuses = 1 .. Len(statuses) /\ Len(statuses) \in Nat
  BY DEF Shown
<1>6. x \in Snapshots!Contexts_(Snapshots!NotPassed(Snapshots!Whole))
  <2>1. CASE \E i : RunStands(i)' /\ x = RunContext(i)'
    <3>1. PICK i : RunStands(i)' /\ x = RunContext(i)'
      BY <2>1
    <3>2. x.suite = i /\ i \in DOMAIN runs'
      BY <3>1 DEF RunContext, RunStands
    <3>3. i # 0
      BY <1>3, <3>2 DEF Shown
    <3>4. i \in DOMAIN runs
      BY <1>2, <3>2, <3>3 DEF StandingShown, RunContext, StatusContext
    <3>5. Onward(runs[i], runs'[i])
      BY <3>4 DEF Extends
    <3>6. RunStands(i)
      BY <1>3, <3>1, <3>4, <3>5 DEF RunStands, Onward, Extends, Snapshots!Expected,
         Snapshots!Source
    <3>7. x = RunContext(i)
      BY <3>1, <3>5 DEF RunContext, Onward, Snapshots!Source
    <3> QED
      BY <3>6, <3>7, ContextsThatStand
  <2>2. CASE \E i : StatusStands(i)' /\ x = StatusContext(i)'
    <3>1. PICK i : StatusStands(i)' /\ x = StatusContext(i)'
      BY <2>2
    <3>2. x.suite = 0 /\ x.posted = {i}
      BY <3>1 DEF StatusContext
    <3>3. i \in DOMAIN statuses
      <4>1. CASE \E k \in DOMAIN runs : x = RunContext(k)
        BY <1>5, <3>2, <4>1 DEF RunContext
      <4>2. CASE \E k \in DOMAIN statuses : x = StatusContext(k)
        <5>1. PICK k \in DOMAIN statuses : x.posted = {k}
          BY <4>2 DEF StatusContext
        <5> QED
          BY <3>2, <5>1
      <4> QED
        BY <1>2, <4>1, <4>2 DEF StandingShown
    <3>4. statuses'[i] = statuses[i]
      BY <3>3 DEF Extends
    <3>5. i \in Snapshots!Latest
      <4>1. i \in Snapshots!Latest'
        BY <3>1 DEF StatusStands
      <4> QED
        BY <3>3, <3>4, <4>1 DEF Extends, Snapshots!Latest
    <3>6. Snapshots!StatusCheck(i)' = Snapshots!StatusCheck(i)
      BY <3>4 DEF Snapshots!StatusCheck
    <3>7. \A k \in DOMAIN runs : runs[k].name = statuses[i].name =>
            Snapshots!Source(runs[k].origin) # <<"status">>
      BY <3>1, <3>4 DEF StatusStands, Extends, Onward, Snapshots!Source
    <3>8. StatusStands(i)
      BY <1>3, <3>1, <3>4, <3>5, <3>6, <3>7 DEF StatusStands, Snapshots!Expected, Passed,
         Snapshots!IsTerminal, Snapshots!Passing, Snapshots!Failing
    <3>9. x = StatusContext(i)
      BY <3>1, <3>4 DEF StatusContext
    <3> QED
      BY <3>8, <3>9, ContextsThatStand
  <2> QED
    BY <1>4, <2>1, <2>2
<1> QED
  BY <1>2, <1>6 DEF StillStanding

LEMMA ExtendsKeeps == SnapshotInv /\ Extends => SnapshotInv'
<1> SUFFICES ASSUME SnapshotInv, Extends PROVE SnapshotInv'
  OBVIOUS
<1>1. Shown /\ Shown' /\ UNCHANGED <<world, pc, got, standing, result>>
  BY DEF SnapshotInv, Extends
<1>2. ASSUME Snapshots!Kind = "checks" PROVE CheckInv'
  <2>1. CheckInv
    BY <1>2 DEF SnapshotInv
  <2>2. StandingShown'
    <3> SUFFICES ASSUME NEW x \in standing
                 PROVE  \/ \E i \in DOMAIN runs' : x = RunContext(i)'
                        \/ \E i \in DOMAIN statuses' : x = StatusContext(i)'
      BY <1>1 DEF StandingShown
    <3>1. CASE \E i \in DOMAIN runs : x = RunContext(i)
      <4>1. PICK i \in DOMAIN runs : x = RunContext(i)
        BY <3>1
      <4>2. i \in DOMAIN runs' /\ Onward(runs[i], runs'[i])
        BY DEF Extends
      <4>3. x = RunContext(i)'
        BY <4>1, <4>2 DEF RunContext, Onward, Snapshots!Source
      <4> QED
        BY <4>2, <4>3
    <3>2. CASE \E i \in DOMAIN statuses : x = StatusContext(i)
      BY <3>2 DEF Extends, StatusContext
    <3> QED
      BY <2>1, <3>1, <3>2 DEF CheckInv, StandingShown
  <2>3. \A x \in StillStanding' : x \in StillStanding
    BY <1>1, <2>1, StoodBefore DEF CheckInv
  <2>4. \A c : RestCheck(c) => RestCheck(c)'
    BY DEF RestCheck, Extends, Onward, Passed, Snapshots!IsTerminal, Snapshots!Passing,
       Snapshots!Failing
  <2>5. RunsRead => RunsRead'
    BY <1>1, <2>4 DEF RunsRead
  <2>6. StatusesRead => StatusesRead'
    BY <1>1, <2>3 DEF StatusesRead, Passed, Snapshots!IsTerminal, Snapshots!Passing,
       Snapshots!Failing
  <2>7. Caught => Caught'
    <3>1. Snapshots!Current(got.checks)' = Snapshots!Current(got.checks)
      BY <1>1 DEF Snapshots!Current, Snapshots!Newer
    <3> QED
      BY <1>1, <2>3, <3>1 DEF Caught, Passed, Snapshots!IsTerminal, Snapshots!Passing,
         Snapshots!Failing, Snapshots!Expected
  <2> QED
    BY <1>1, <2>1, <2>2, <2>5, <2>6, <2>7 DEF CheckInv
<1> QED
  BY <1>1, <1>2 DEF SnapshotInv, Partial, Snapshots!Kind

LEMMA OnwardSelf == \A r : Onward(r, r)
BY DEF Onward

\* What moves neither check runs nor statuses.
LEMMA AsideExtends ==
  /\ SnapshotInv /\ UNCHANGED <<world, runs, statuses, pc, got, standing, result>>
  /\ pull' \in PullRec /\ listed' \subseteq DOMAIN runs /\ clock' \in Nat
  => Extends
<1> SUFFICES ASSUME SnapshotInv, UNCHANGED <<world, runs, statuses, pc, got, standing, result>>,
                    pull' \in PullRec, listed' \subseteq DOMAIN runs, clock' \in Nat
             PROVE  Extends
  OBVIOUS
<1>1. Shown
  BY DEF SnapshotInv
<1>2. Shown'
  BY <1>1 DEF Shown, CheckRun, Status, Snapshots!Expected
<1> QED
  BY <1>2, OnwardSelf DEF Extends

\* One check run changes.
LEMMA RunMovesExtends ==
  ASSUME Shown, NEW i \in DOMAIN runs, NEW r \in CheckRun, Onward(runs[i], r),
         ~r.ended => r.concl = "none", runs' = [runs EXCEPT ![i] = r], clock' \in Nat,
         UNCHANGED <<world, pull, listed, statuses, pc, got, standing, result>>
  PROVE  Extends
<1>1. runs \in Seq(CheckRun) /\ CheckRun' = CheckRun /\ Status' = Status
  BY DEF Shown, CheckRun, Status, Snapshots!Expected
<1>2. runs' \in Seq(CheckRun) /\ DOMAIN runs' = DOMAIN runs
  BY <1>1
<1>3. runs'[i] = r /\ \A k \in DOMAIN runs : k # i => runs'[k] = runs[k]
  BY <1>1
<1>4. Shown'
  BY <1>1, <1>2, <1>3 DEF Shown
<1>5. \A k \in DOMAIN runs : Onward(runs[k], runs'[k])
  BY <1>3, OnwardSelf
<1> QED
  BY <1>2, <1>4, <1>5 DEF Extends

LEMMA StartExtends == \A i \in DOMAIN runs : SnapshotInv /\ Snapshots!Start(i) => Extends
<1> SUFFICES ASSUME NEW i \in DOMAIN runs, SnapshotInv, Snapshots!Start(i) PROVE Extends
  OBVIOUS
<1>1. Shown /\ runs[i] \in CheckRun /\ clock \in Nat
  BY DEF SnapshotInv, Shown
<1> DEFINE r == [runs[i] EXCEPT !.at = clock + 1]
<1>2. /\ runs' = [runs EXCEPT ![i] = r] /\ clock' = clock + 1
      /\ UNCHANGED <<world, pull, listed, statuses, pc, got, standing, result>>
  BY DEF Snapshots!Start, Snapshots!Moves
<1>3. /\ r \in CheckRun /\ r.name = runs[i].name /\ r.origin = runs[i].origin
      /\ r.concl = runs[i].concl /\ r.ended = runs[i].ended /\ r.completed = runs[i].completed
  BY <1>1 DEF CheckRun
<1> HIDE DEF r
<1>4. Onward(runs[i], r)
  BY <1>3 DEF Onward, Passed, Snapshots!IsTerminal
<1>5. ~r.ended => r.concl = "none"
  BY <1>1, <1>3 DEF Shown
<1>6. clock' \in Nat
  BY <1>1, <1>2
<1> QED
  BY <1>1, <1>2, <1>3, <1>4, <1>5, <1>6, RunMovesExtends

LEMMA FinishExtends == \A i \in DOMAIN runs : SnapshotInv /\ Snapshots!Finish(i) => Extends
<1> SUFFICES ASSUME NEW i \in DOMAIN runs, SnapshotInv, Snapshots!Finish(i) PROVE Extends
  OBVIOUS
<1>1. Shown /\ runs[i] \in CheckRun /\ clock \in Nat /\ runs \in Seq(CheckRun)
  BY DEF SnapshotInv, Shown
<1>2. PICK concl \in {"success", "failure"} :
        runs' = [runs EXCEPT ![i].concl = concl, ![i].ended = TRUE,
                             ![i].completed = ~world.stale]
  BY DEF Snapshots!Finish
<1> DEFINE r == [runs[i] EXCEPT !.concl = concl, !.ended = TRUE, !.completed = ~world.stale]
<1>3. /\ clock' = clock /\ ~runs[i].ended
      /\ UNCHANGED <<world, pull, listed, statuses, pc, got, standing, result>>
  BY DEF Snapshots!Finish, Snapshots!Moves
<1>4. world.stale \in BOOLEAN
  BY <1>1, CommandAssumption DEF Shown
<1>5. r \in CheckRun /\ r.name = runs[i].name /\ r.origin = runs[i].origin /\ r.ended
  BY <1>1, <1>4 DEF CheckRun, Conclusions
<1> HIDE DEF r
<1>6. runs' = [runs EXCEPT ![i] = [@ EXCEPT !.concl = concl, !.ended = TRUE,
                                            !.completed = ~world.stale]]
  BY <1>1, <1>2
<1>7. runs' = [runs EXCEPT ![i] = r]
  BY <1>6 DEF r
<1>8. ~Passed(runs[i])
  BY <1>1, <1>3 DEF Shown, Passed, Snapshots!Passing
<1>9. Onward(runs[i], r)
  BY <1>5, <1>8 DEF Onward
<1> QED
  BY <1>1, <1>3, <1>5, <1>7, <1>9, RunMovesExtends

LEMMA CreateExtends == SnapshotInv /\ Snapshots!Create => Extends
<1> SUFFICES ASSUME SnapshotInv, Snapshots!Create PROVE Extends
  OBVIOUS
<1>1. PICK origin \in world.origins, name \in Snapshots!Expected :
        runs' = Append(runs, [name |-> name, origin |-> origin, at |-> 0, concl |-> "none",
                               completed |-> FALSE, ended |-> FALSE])
  BY DEF Snapshots!Create
<1> DEFINE r == [name |-> name, origin |-> origin, at |-> 0, concl |-> "none",
                 completed |-> FALSE, ended |-> FALSE]
<1>2. Shown /\ runs \in Seq(CheckRun)
  BY DEF SnapshotInv, Shown
<1>3. r \in CheckRun /\ r.concl = "none"
  BY DEF CheckRun, Conclusions
<1>4. UNCHANGED <<world, pull, listed, statuses, tag, release, clock, pc, got, standing, result>>
  BY DEF Snapshots!Create, Snapshots!Moves
<1>5. CheckRun' = CheckRun /\ Status' = Status
  BY <1>4 DEF CheckRun, Status, Snapshots!Expected
<1>6. runs' = Append(runs, r)
  BY <1>1
<1> HIDE DEF r
<1>7. /\ runs' \in Seq(CheckRun) /\ runs'[Len(runs) + 1] = r
      /\ \A k \in DOMAIN runs : k \in DOMAIN runs' /\ runs'[k] = runs[k]
      /\ \A k \in DOMAIN runs' : k = Len(runs) + 1 \/ k \in DOMAIN runs
  BY <1>2, <1>3, <1>6
<1>8. \A k \in DOMAIN runs' : ~runs'[k].ended => runs'[k].concl = "none"
  BY <1>2, <1>3, <1>7 DEF Shown
<1>9. Shown'
  BY <1>2, <1>4, <1>5, <1>7, <1>8 DEF Shown
<1>10. \A k \in DOMAIN runs : Onward(runs[k], runs'[k])
  BY <1>7, OnwardSelf
<1> QED
  BY <1>4, <1>7, <1>9, <1>10 DEF Extends

LEMMA PostExtends == SnapshotInv /\ Snapshots!Post => Extends
<1> SUFFICES ASSUME SnapshotInv, Snapshots!Post PROVE Extends
  OBVIOUS
<1>1. PICK name \in world.contexts, concl \in {"pending", "success", "failure"} :
        statuses' = Append(statuses, [name |-> name, concl |-> concl, at |-> clock'])
  BY DEF Snapshots!Post
<1>2. Shown /\ statuses \in Seq(Status) /\ clock \in Nat
  BY DEF SnapshotInv, Shown
<1>3. /\ UNCHANGED <<world, pull, runs, listed, tag, release, pc, got, standing, result>>
      /\ clock' \in Nat
  BY <1>2 DEF Snapshots!Post, Snapshots!Moves
<1>4. [name |-> name, concl |-> concl, at |-> clock'] \in Status
  BY <1>3 DEF Status
<1>5. CheckRun' = CheckRun /\ Status' = Status
  BY <1>3 DEF CheckRun, Status, Snapshots!Expected
<1>6. /\ statuses' \in Seq(Status)
      /\ \A k \in DOMAIN statuses : k \in DOMAIN statuses' /\ statuses'[k] = statuses[k]
  BY <1>1, <1>2, <1>4
<1>7. Shown'
  BY <1>2, <1>3, <1>5, <1>6 DEF Shown
<1> QED
  BY <1>3, <1>6, <1>7, OnwardSelf DEF Extends

\* Everything GitHub does beside an observation.
LEMMA GitHubKeeps == SnapshotInv /\ Snapshots!GitHub => SnapshotInv'
<1> SUFFICES ASSUME SnapshotInv, Snapshots!GitHub PROVE Extends
  BY ExtendsKeeps
<1>1. Shown
  BY DEF SnapshotInv
<1>2. CASE Snapshots!PullMoves \/ Snapshots!Reopen
  <2>1. pull' \in PullRec
    BY <1>1, <1>2 DEF Snapshots!PullMoves, Snapshots!Reopen, Shown, PullRec
  <2> QED
    BY <1>1, <1>2, <2>1, AsideExtends
       DEF Snapshots!PullMoves, Snapshots!Reopen, Snapshots!Moves, Shown
<1>3. CASE Snapshots!TagMoves \/ Snapshots!ReleaseMoves
  BY <1>1, <1>3, AsideExtends
     DEF Snapshots!TagMoves, Snapshots!ReleaseMoves, Snapshots!Moves, Shown
<1>4. CASE \E i \in DOMAIN runs : Snapshots!List(i)
  BY <1>1, <1>4, AsideExtends DEF Snapshots!List, Snapshots!Moves, Shown
<1> QED
  BY <1>2, <1>3, <1>4, CreateExtends, PostExtends, StartExtends, FinishExtends
     DEF Snapshots!GitHub

-----------------------------------------------------------------------------
(* An observation is made. *)

Standing == Snapshots!Contexts_(Snapshots!NotPassed(Snapshots!Whole))

\* Reading changes nothing on GitHub, and not what stands there.
LEMMA ReadingShown ==
  Shown /\ UNCHANGED Snapshots!github => Shown' /\ Standing' = Standing
<1> SUFFICES ASSUME Shown, UNCHANGED Snapshots!github PROVE Shown' /\ Standing' = Standing
  OBVIOUS
<1>1. UNCHANGED <<world, pull, runs, listed, statuses, tag, release, clock>>
  BY DEF Snapshots!github
<1>2. Shown'
  BY <1>1 DEF Shown, CheckRun, Status, Snapshots!Expected
<1>3. Snapshots!Latest' = Snapshots!Latest
  BY <1>1 DEF Snapshots!Latest
<1>4. Snapshots!Whole' = Snapshots!Whole
  BY <1>1, <1>3 DEF Snapshots!Whole, Snapshots!RunCheck, Snapshots!StatusCheck,
     Snapshots!Source
<1>5. Snapshots!Current(Snapshots!Whole)' = Snapshots!Current(Snapshots!Whole)
  BY <1>4 DEF Snapshots!Current, Snapshots!Newer
<1>6. Snapshots!NotPassed(Snapshots!Whole)' = Snapshots!NotPassed(Snapshots!Whole)
  BY <1>1, <1>5 DEF Snapshots!NotPassed, Snapshots!Expected, Snapshots!IsTerminal,
     Snapshots!Passing, Snapshots!Failing
<1>7. Standing' = Standing
  BY <1>1, <1>3, <1>6 DEF Standing, Snapshots!Contexts_
<1> QED
  BY <1>2, <1>7

\* What stands is there.
LEMMA BeginShown ==
  Shown /\ UNCHANGED Snapshots!github /\ standing' = Standing => StandingShown'
<1> SUFFICES ASSUME Shown, UNCHANGED Snapshots!github, NEW x \in Standing
             PROVE  \/ \E i \in DOMAIN runs' : x = RunContext(i)'
                    \/ \E i \in DOMAIN statuses' : x = StatusContext(i)'
  BY DEF StandingShown
<1>1. UNCHANGED <<runs, statuses>>
  BY DEF Snapshots!github
<1>2. CASE \E i : RunStands(i) /\ x = RunContext(i)
  BY <1>1, <1>2 DEF RunStands, RunContext, Snapshots!Source
<1>3. CASE \E i : StatusStands(i) /\ x = StatusContext(i)
  BY <1>1, <1>3 DEF StatusStands, StatusContext, Snapshots!Latest
<1> QED
  BY <1>2, <1>3, ContextsThatStand DEF Standing

\* So are the checks that the query gives.
LEMMA QueryShown ==
  Shown /\ UNCHANGED Snapshots!github
    /\ standing' = Snapshots!Contexts_(Snapshots!NotPassed(Snapshots!Graph.checks))
  => StandingShown'
<1> SUFFICES ASSUME Shown, UNCHANGED Snapshots!github,
                    NEW c \in Snapshots!NotPassed(Snapshots!Graph.checks),
                    NEW x, x = [name |-> c.name, suite |-> c.suite,
                                posted |-> {i \in Snapshots!Latest :
                                              c.suite = 0 /\ statuses[i].name = c.name}]
             PROVE  \/ \E i \in DOMAIN runs' : x = RunContext(i)'
                    \/ \E i \in DOMAIN statuses' : x = StatusContext(i)'
  BY DEF StandingShown, Snapshots!Contexts_
<1>1. UNCHANGED <<runs, statuses>>
  BY DEF Snapshots!github
<1>2. c \in Snapshots!Graph.checks
  BY DEF Snapshots!NotPassed, Snapshots!Current
<1>3. \/ \E i \in DOMAIN runs : c = Snapshots!RunCheck(i, Snapshots!SeenSource(runs[i].origin))
      \/ \E i \in Snapshots!Latest : c = Snapshots!StatusCheck(i)
  BY <1>2 DEF Snapshots!Graph
<1>4. CASE \E i \in DOMAIN runs : c = Snapshots!RunCheck(i, Snapshots!SeenSource(runs[i].origin))
  <2>1. PICK i \in DOMAIN runs : c.name = runs[i].name /\ c.suite = i
    BY <1>4 DEF Snapshots!RunCheck
  <2>2. i # 0
    BY DEF Shown
  <2>3. x = RunContext(i)
    BY <2>1, <2>2 DEF RunContext
  <2> QED
    BY <1>1, <2>3 DEF RunContext
<1>5. CASE \E i \in Snapshots!Latest : c = Snapshots!StatusCheck(i)
  <2>1. PICK i \in Snapshots!Latest : c.name = statuses[i].name /\ c.suite = 0
    BY <1>5 DEF Snapshots!StatusCheck
  <2>2. {k \in Snapshots!Latest : statuses[k].name = statuses[i].name} = {i}
    BY LatestOne DEF Shown
  <2>3. x = StatusContext(i) /\ i \in DOMAIN statuses
    BY <2>1, <2>2 DEF StatusContext, Snapshots!Latest
  <2> QED
    BY <1>1, <2>3 DEF StatusContext
<1> QED
  BY <1>3, <1>4, <1>5

LEMMA QueryKeeps == SnapshotInv /\ Snapshots!Query => SnapshotInv'
<1> SUFFICES ASSUME SnapshotInv, Snapshots!Query PROVE SnapshotInv'
  OBVIOUS
<1> DEFINE G == Snapshots!Graph.checks
           N == Snapshots!NotPassed(G)
<1>1. /\ pc = "start" /\ standing' = Snapshots!Contexts_(N)
      /\ UNCHANGED <<Snapshots!github, result>> /\ got' = Snapshots!Graph /\ pc' = "judge"
  BY DEF Snapshots!Query, Snapshots!Begin, Snapshots!Go
<1>2. Shown /\ Shown' /\ world' = world
  BY <1>1, ReadingShown DEF SnapshotInv, Snapshots!github
<1>3. StandingShown'
  BY <1>1, <1>2, QueryShown
<1>4. Partial'
  BY <1>1 DEF Partial, Snapshots!Graph
<1>5. Caught'
  <2> SUFFICES ASSUME NEW x \in Snapshots!Contexts_(N)
               PROVE  \E c \in Snapshots!Current(got.checks)' :
                        c.name = x.name /\ c.name \in Snapshots!Expected' /\ ~Passed(c)
    BY <1>1, <1>2 DEF Caught, StillStanding, Passed, Snapshots!IsTerminal,
       Snapshots!Passing, Snapshots!Failing
  <2>1. PICK c \in N : c.name = x.name
    BY DEF Snapshots!Contexts_
  <2>2. c \in Snapshots!Current(G) /\ c.name \in Snapshots!Expected /\ ~Passed(c)
    BY DEF Snapshots!NotPassed, Passed
  <2>3. Snapshots!Current(got.checks)' = Snapshots!Current(G)
    BY <1>1 DEF Snapshots!Current, Snapshots!Newer
  <2> QED
    BY <1>2, <2>1, <2>2, <2>3 DEF Snapshots!Expected
<1> QED
  BY <1>1, <1>2, <1>3, <1>4, <1>5 DEF SnapshotInv, CheckInv

LEMMA ReadPullKeeps == SnapshotInv /\ Snapshots!ReadPull => SnapshotInv'
<1> SUFFICES ASSUME SnapshotInv, Snapshots!ReadPull PROVE SnapshotInv'
  OBVIOUS
<1>1. /\ pc = "start" /\ standing' = Standing /\ UNCHANGED <<Snapshots!github, result>>
      /\ got' = [Snapshots!Graph EXCEPT !.pull = Snapshots!RestPull, !.checks = {}]
      /\ pc' = "runs"
  BY DEF Snapshots!ReadPull, Snapshots!Begin, Snapshots!Go, Standing
<1>2. Shown /\ Shown' /\ world' = world
  BY <1>1, ReadingShown DEF SnapshotInv, Snapshots!github
<1>3. StandingShown'
  BY <1>1, <1>2, BeginShown
<1>4. Partial'
  BY <1>1 DEF Partial, Snapshots!Graph
<1> QED
  BY <1>1, <1>2, <1>3, <1>4 DEF SnapshotInv, CheckInv

\* A tag or a release is read.
LEMMA ReadTagKeeps ==
  SnapshotInv /\ (Snapshots!ReadTag \/ Snapshots!ReadRelease) => SnapshotInv'
<1> SUFFICES ASSUME SnapshotInv, Snapshots!ReadTag \/ Snapshots!ReadRelease
             PROVE  SnapshotInv'
  OBVIOUS
<1>1. /\ UNCHANGED <<Snapshots!github, result>> /\ Snapshots!Kind # "checks"
      /\ pc' \in {"release", "judge"} /\ Snapshots!Kind' = Snapshots!Kind
  <2>1. UNCHANGED <<Snapshots!github, result>> /\ pc' \in {"release", "judge"}
    BY DEF Snapshots!ReadTag, Snapshots!ReadRelease, Snapshots!Begin, Snapshots!Go
  <2>2. Snapshots!Kind # "checks"
    BY DEF Snapshots!ReadTag, Snapshots!ReadRelease, SnapshotInv, CheckInv
  <2> QED
    BY <2>1, <2>2 DEF Snapshots!github, Snapshots!Kind
<1>2. Shown /\ Shown' /\ world' = world
  BY <1>1, ReadingShown DEF SnapshotInv, Snapshots!github
<1>3. Partial'
  BY DEF Snapshots!ReadTag, Snapshots!ReadRelease, SnapshotInv, Partial, Snapshots!Graph
<1>4. result = "none"
  BY DEF Snapshots!ReadTag, Snapshots!ReadRelease, Snapshots!Begin, SnapshotInv
<1> QED
  BY <1>1, <1>2, <1>3, <1>4 DEF SnapshotInv

LEMMA ReadRunsKeeps == SnapshotInv /\ Snapshots!ReadRuns => SnapshotInv'
<1> SUFFICES ASSUME SnapshotInv, Snapshots!ReadRuns PROVE SnapshotInv'
  OBVIOUS
<1>1. /\ pc = "runs" /\ got' = [got EXCEPT !.checks = Snapshots!RestRuns]
      /\ pc' = "statuses" /\ UNCHANGED <<Snapshots!github, standing, result>> /\ Partial
  BY DEF Snapshots!ReadRuns, Snapshots!Go, SnapshotInv
<1>2. Shown /\ Shown' /\ UNCHANGED <<world, runs, statuses>>
  BY <1>1, ReadingShown DEF SnapshotInv, Snapshots!github
<1>3. Partial' /\ got'.checks = Snapshots!RestRuns
  BY <1>1 DEF Partial
<1>4. ASSUME StandingShown
      PROVE  StandingShown' /\ RunsRead' /\ \A c \in got'.checks : c.suite # 0
  <2>1. StandingShown'
    <3>1. \A i : RunContext(i)' = RunContext(i) /\ StatusContext(i)' = StatusContext(i)
      BY <1>2 DEF RunContext, StatusContext, Snapshots!Source
    <3> QED
      BY <1>1, <1>2, <1>4, <3>1 DEF StandingShown
  <2>2. \A i \in DOMAIN runs :
          LET c == Snapshots!RunCheck(i, <<runs[i].origin.app>>)
          IN  RestCheck(c) /\ c.suite = i /\ i # 0
    <3> TAKE i \in DOMAIN runs
    <3>1. runs[i] \in CheckRun /\ i # 0
      BY <1>2 DEF Shown
    <3>2. runs[i].at \in Nat
      BY <3>1 DEF CheckRun
    <3> QED
      BY <3>1, <3>2 DEF RestCheck, Snapshots!RunCheck, Passed, Snapshots!IsTerminal
  <2>3. \A c : RestCheck(c)' <=> RestCheck(c)
    BY <1>2 DEF RestCheck, Passed, Snapshots!IsTerminal, Snapshots!Passing, Snapshots!Failing
  <2>4. \A c \in Snapshots!RestRuns : RestCheck(c)' /\ c.suite # 0
    BY <2>2, <2>3 DEF Snapshots!RestRuns
  <2>5. \A x \in standing : x.suite # 0 => \E c \in Snapshots!RestRuns : c.suite = x.suite
    <3> SUFFICES ASSUME NEW x \in standing, x.suite # 0
                 PROVE  \E c \in Snapshots!RestRuns : c.suite = x.suite
      OBVIOUS
    <3>1. PICK i \in DOMAIN runs : x.suite = i
      BY <1>4 DEF StandingShown, RunContext, StatusContext
    <3> QED
      BY <2>2, <3>1 DEF Snapshots!RestRuns
  <2> QED
    BY <1>1, <1>3, <2>1, <2>4, <2>5 DEF RunsRead
<1> QED
  BY <1>1, <1>2, <1>3, <1>4 DEF SnapshotInv, CheckInv, Snapshots!Kind

\* What is standing goes on standing only as long as GitHub says so.
LEMMA ReadStatusesKeeps == SnapshotInv /\ Snapshots!ReadStatuses => SnapshotInv'
<1> SUFFICES ASSUME SnapshotInv, Snapshots!ReadStatuses PROVE SnapshotInv'
  OBVIOUS
<1>1. /\ pc = "statuses" /\ got' = [got EXCEPT !.checks = @ \union Snapshots!RestStatuses]
      /\ pc' = "workflows" /\ UNCHANGED <<Snapshots!github, standing, result>> /\ Partial
  BY DEF Snapshots!ReadStatuses, Snapshots!Go, SnapshotInv
<1>2. Shown /\ Shown' /\ UNCHANGED <<world, runs, statuses>> /\ Standing' = Standing
  BY <1>1, ReadingShown DEF SnapshotInv, Snapshots!github
<1>3. Partial' /\ got'.checks = got.checks \union Snapshots!RestStatuses
  BY <1>1 DEF Partial
<1>4. ASSUME StandingShown, RunsRead, \A c \in got.checks : c.suite # 0
      PROVE  StandingShown' /\ RunsRead' /\ StatusesRead'
  <2>1. StandingShown'
    <3>1. \A i : RunContext(i)' = RunContext(i) /\ StatusContext(i)' = StatusContext(i)
      BY <1>2 DEF RunContext, StatusContext, Snapshots!Source
    <3> QED
      BY <1>1, <1>2, <1>4, <3>1 DEF StandingShown
  <2>2. \A c : RestCheck(c)' <=> RestCheck(c)
    BY <1>2 DEF RestCheck, Passed, Snapshots!IsTerminal, Snapshots!Passing, Snapshots!Failing
  <2>3. \A i \in Snapshots!Latest :
          LET s == Snapshots!StatusCheck(i)
          IN  RestCheck(s) /\ s.suite = 0 /\ s.name = statuses[i].name
    <3> TAKE i \in Snapshots!Latest
    <3>1. statuses[i] \in Status
      BY <1>2 DEF Shown, Snapshots!Latest
    <3>2. statuses[i].at \in Nat
      BY <3>1 DEF Status
    <3> QED
      BY <3>2 DEF RestCheck, Snapshots!StatusCheck
  <2>4. \A c \in Snapshots!RestStatuses : RestCheck(c) /\ c.suite = 0
    BY <2>3 DEF Snapshots!RestStatuses
  <2>5. RunsRead'
    BY <1>1, <1>3, <1>4, <2>2, <2>4 DEF RunsRead
  <2>6. \A c, d \in Snapshots!RestStatuses : c.name = d.name => c = d
    <3> SUFFICES ASSUME NEW i \in Snapshots!Latest, NEW j \in Snapshots!Latest,
                        Snapshots!StatusCheck(i).name = Snapshots!StatusCheck(j).name
                 PROVE  i = j
      BY DEF Snapshots!RestStatuses
    <3> QED
      BY <1>2, <2>3, LatestOne DEF Shown
  <2>7. ASSUME NEW x \in StillStanding', x.suite = 0
        PROVE  \E c \in Snapshots!RestStatuses : c.suite = 0 /\ c.name = x.name /\ ~Passed(c)
    <3>1. x \in Snapshots!Contexts_(Snapshots!NotPassed(Snapshots!Whole))
      BY <1>2 DEF StillStanding, Standing
    <3>2. ~\E i : RunStands(i) /\ x = RunContext(i)
      BY <1>2, <2>7 DEF RunStands, RunContext, Shown
    <3>3. PICK i : StatusStands(i) /\ x = StatusContext(i)
      BY <1>2, <3>1, <3>2, ContextsThatStand
    <3>4. Snapshots!StatusCheck(i) \in Snapshots!RestStatuses
      BY <3>3 DEF StatusStands, Snapshots!RestStatuses
    <3> QED
      BY <2>3, <3>3, <3>4 DEF StatusStands, StatusContext
  <2>8. \A c : Passed(c)' <=> Passed(c)
    BY DEF Passed, Snapshots!IsTerminal, Snapshots!Passing, Snapshots!Failing
  <2>9. StatusesRead'
    BY <1>3, <1>4, <2>4, <2>6, <2>7, <2>8 DEF StatusesRead
  <2> QED
    BY <2>1, <2>5, <2>9
<1> QED
  BY <1>1, <1>2, <1>3, <1>4 DEF SnapshotInv, CheckInv, Snapshots!Kind

\* With its workflow known, a run read counts under its own name and source.
LEMMA SourcedRun ==
  \A S : Snapshots!AllListed(S) /\ Shown =>
    \A c \in S : RestCheck(c) =>
      LET s == IF c.suite \in listed
               THEN [c EXCEPT !.source = Snapshots!Source(runs[c.suite].origin)] ELSE c
      IN  /\ s.name = c.name /\ s.suite = c.suite /\ (Passed(s) <=> Passed(c)) /\ s.at = c.at
          /\ c.suite # 0 => s.source = Snapshots!Source(runs[c.suite].origin)
          /\ c.suite = 0 => s = c /\ s.source = <<"status">>
<1> SUFFICES ASSUME NEW S, Snapshots!AllListed(S), Shown, NEW c \in S, RestCheck(c)
    PROVE LET s == IF c.suite \in listed
               THEN [c EXCEPT !.source = Snapshots!Source(runs[c.suite].origin)] ELSE c
      IN  /\ s.name = c.name /\ s.suite = c.suite /\ (Passed(s) <=> Passed(c)) /\ s.at = c.at
          /\ c.suite # 0 => s.source = Snapshots!Source(runs[c.suite].origin)
          /\ c.suite = 0 => s = c /\ s.source = <<"status">>
  OBVIOUS
<1>1. 0 \notin listed
  BY DEF Shown
<1>2. c = [name |-> c.name, source |-> c.source, suite |-> c.suite, at |-> c.at,
           completed |-> c.completed, ended |-> c.ended, concl |-> c.concl]
  BY DEF RestCheck
<1>3. CASE c.suite \in listed
  <2> DEFINE s == [c EXCEPT !.source = Snapshots!Source(runs[c.suite].origin)]
  <2>1. s = [name |-> c.name, source |-> Snapshots!Source(runs[c.suite].origin),
             suite |-> c.suite, at |-> c.at, completed |-> c.completed, ended |-> c.ended,
             concl |-> c.concl]
    BY <1>2
  <2> HIDE DEF s
  <2>2. Passed(s) <=> Passed(c)
    BY <2>1 DEF Passed, Snapshots!IsTerminal
  <2> QED
    BY <1>1, <1>3, <2>1, <2>2 DEF s
<1>4. CASE c.suite \notin listed
  <2>1. c.suite # 0 => c.source = <<runs[c.suite].origin.app>>
    BY DEF RestCheck
  <2>2. c.suite # 0 => c.source = Snapshots!Source(runs[c.suite].origin)
    BY <1>4, <2>1 DEF Snapshots!AllListed, Snapshots!Source
  <2> QED
    BY <1>4, <2>2 DEF RestCheck
<1> QED
  BY <1>3, <1>4

LEMMA SourcedCaught ==
  Shown /\ RunsRead /\ StatusesRead /\ StandingShown /\ Snapshots!AllListed(got.checks) =>
    \A x \in StillStanding : \E c \in Snapshots!Current(Snapshots!Sourced(got.checks)) :
      c.name = x.name /\ c.name \in Snapshots!Expected /\ ~Passed(c)
<1> SUFFICES ASSUME Shown, RunsRead, StatusesRead, StandingShown,
                    Snapshots!AllListed(got.checks), NEW x \in StillStanding
             PROVE  \E c \in Snapshots!Current(Snapshots!Sourced(got.checks)) :
                      c.name = x.name /\ c.name \in Snapshots!Expected /\ ~Passed(c)
  OBVIOUS
<1> DEFINE Src(c) == IF c.suite \in listed
                     THEN [c EXCEPT !.source = Snapshots!Source(runs[c.suite].origin)] ELSE c
<1>1. Snapshots!Sourced(got.checks) = {Src(c) : c \in got.checks}
  BY DEF Snapshots!Sourced
<1>2. \A c \in got.checks :
        /\ Src(c).name = c.name /\ Src(c).suite = c.suite /\ (Passed(Src(c)) <=> Passed(c))
        /\ Src(c).at = c.at /\ c.at \in Nat
        /\ c.suite # 0 => /\ Src(c).source = Snapshots!Source(runs[c.suite].origin)
                          /\ c.suite \in DOMAIN runs /\ c.name = runs[c.suite].name
                          /\ Passed(c) => Passed(runs[c.suite])
        /\ c.suite = 0 => Src(c) = c /\ Src(c).source = <<"status">>
  BY SourcedRun DEF RunsRead, RestCheck
<1> HIDE DEF Src
<1>3. DOMAIN runs = 1 .. Len(runs) /\ Len(runs) \in Nat
  BY DEF Shown
<1>4. x \in Snapshots!Contexts_(Snapshots!NotPassed(Snapshots!Whole))
  BY DEF StillStanding
<1>5. ASSUME NEW c \in got.checks,
             \A d \in got.checks : Src(d).name = Src(c).name /\ Src(d).source = Src(c).source
               => ~Snapshots!Newer(Src(d), Src(c))
      PROVE  Src(c) \in Snapshots!Current(Snapshots!Sourced(got.checks))
  BY <1>1, <1>5 DEF Snapshots!Current
<1>6. CASE \E i : RunStands(i) /\ x = RunContext(i)
  <2>1. PICK i : RunStands(i) /\ x = RunContext(i)
    BY <1>6
  <2>2. i \in DOMAIN runs /\ i # 0 /\ i \in Nat
    BY <1>3, <2>1 DEF RunStands
  <2>3. x \in standing /\ x.suite = i /\ x.name = runs[i].name
    BY <2>1 DEF StillStanding, RunContext
  <2>4. PICK c \in got.checks : c.suite = i
    BY <2>2, <2>3 DEF RunsRead
  <2>5. ~Passed(Src(c)) /\ Src(c).name = x.name /\ x.name \in Snapshots!Expected
        /\ Src(c).suite = i /\ Src(c).source = Snapshots!Source(runs[i].origin)
    BY <1>2, <2>1, <2>2, <2>3, <2>4 DEF RunStands
  <2>6. ASSUME NEW d \in got.checks, Src(d).name = Src(c).name, Src(d).source = Src(c).source
        PROVE  ~Snapshots!Newer(Src(d), Src(c))
    <3>1. CASE d.suite = 0
      BY <1>2, <2>2, <2>5, <3>1 DEF Snapshots!Newer
    <3>2. CASE d.suite # 0
      <4>1. d.suite \in DOMAIN runs /\ runs[d.suite].name = runs[i].name
            /\ Snapshots!Source(runs[d.suite].origin) = Snapshots!Source(runs[i].origin)
        BY <1>2, <2>3, <2>5, <2>6, <3>2
      <4>2. d.suite <= i
        BY <2>1, <4>1 DEF RunStands
      <4>3. d.suite \in Nat
        BY <1>3, <4>1
      <4> QED
        BY <1>2, <2>2, <2>5, <4>2, <4>3 DEF Snapshots!Newer
    <3> QED
      BY <3>1, <3>2
  <2> QED
    BY <1>5, <2>5, <2>6
<1>7. CASE \E i : StatusStands(i) /\ x = StatusContext(i)
  <2>1. PICK i : StatusStands(i) /\ x = StatusContext(i)
    BY <1>7
  <2>2. x.suite = 0 /\ x.name = statuses[i].name /\ x.name \in Snapshots!Expected
    BY <2>1 DEF StatusStands, StatusContext
  <2>3. PICK c \in got.checks : c.suite = 0 /\ c.name = x.name /\ ~Passed(c)
    BY <2>2 DEF StatusesRead
  <2>4. Src(c) = c /\ c.source = <<"status">>
    BY <1>2, <2>3
  <2>5. ASSUME NEW d \in got.checks, Src(d).name = Src(c).name, Src(d).source = Src(c).source
        PROVE  ~Snapshots!Newer(Src(d), Src(c))
    <3>1. d.suite = 0
      <4> SUFFICES ASSUME d.suite # 0 PROVE FALSE
        OBVIOUS
      <4>1. /\ d.suite \in DOMAIN runs /\ d.name = runs[d.suite].name
            /\ Src(d).name = d.name /\ Src(d).source = Snapshots!Source(runs[d.suite].origin)
        BY <1>2
      <4>2. Src(d).name = statuses[i].name /\ Src(d).source = <<"status">>
        BY <2>2, <2>3, <2>4, <2>5
      <4> QED
        BY <2>1, <4>1, <4>2 DEF StatusStands
    <3>2. d = c
      BY <1>2, <2>3, <2>4, <2>5, <3>1 DEF StatusesRead
    <3> QED
      BY <1>2, <2>3, <2>4, <3>2 DEF Snapshots!Newer
  <2> QED
    BY <1>5, <2>2, <2>3, <2>4, <2>5
<1> QED
  BY <1>4, <1>6, <1>7, ContextsThatStand

LEMMA ReadWorkflowsKeeps == SnapshotInv /\ Snapshots!ReadWorkflows => SnapshotInv'
<1> SUFFICES ASSUME SnapshotInv, Snapshots!ReadWorkflows PROVE SnapshotInv'
  OBVIOUS
<1>1. pc = "workflows" /\ UNCHANGED <<Snapshots!github, standing, result>> /\ Partial
      /\ result = "none"
  BY DEF Snapshots!ReadWorkflows, SnapshotInv
<1>2. Shown /\ Shown' /\ UNCHANGED <<world, runs, statuses>> /\ Standing' = Standing
  BY <1>1, ReadingShown DEF SnapshotInv, Snapshots!github
<1>3. StandingShown => StandingShown'
  <2>1. \A i : RunContext(i)' = RunContext(i) /\ StatusContext(i)' = StatusContext(i)
    BY <1>2 DEF RunContext, StatusContext, Snapshots!Source
  <2> QED
    BY <1>1, <1>2, <2>1 DEF StandingShown
<1>4. CASE Snapshots!AllListed(got.checks)
  <2>1. got' = [got EXCEPT !.checks = Snapshots!Sourced(@)] /\ pc' = "judge"
    BY <1>4 DEF Snapshots!ReadWorkflows, Snapshots!Go
  <2>2. Partial' /\ got'.checks = Snapshots!Sourced(got.checks)
    BY <1>1, <2>1 DEF Partial
  <2>3. ASSUME Snapshots!Kind = "checks" PROVE Caught'
    <3>1. \A x \in StillStanding : \E c \in Snapshots!Current(Snapshots!Sourced(got.checks)) :
            c.name = x.name /\ c.name \in Snapshots!Expected /\ ~Passed(c)
      BY <1>1, <1>2, <1>4, <2>3, SourcedCaught DEF SnapshotInv, CheckInv
    <3>2. StillStanding' = StillStanding
      BY <1>1, <1>2 DEF StillStanding, Standing
    <3>3. Snapshots!Current(got.checks)' = Snapshots!Current(Snapshots!Sourced(got.checks))
      BY <2>2 DEF Snapshots!Current, Snapshots!Newer
    <3> QED
      BY <1>2, <3>1, <3>2, <3>3 DEF Caught, Passed, Snapshots!IsTerminal, Snapshots!Passing,
         Snapshots!Failing, Snapshots!Expected
  <2> QED
    BY <1>1, <1>2, <1>3, <2>1, <2>2, <2>3 DEF SnapshotInv, CheckInv, Snapshots!Kind
<1>5. CASE ~Snapshots!AllListed(got.checks)
  <2>1. pc' = "start"
    BY <1>5 DEF Snapshots!ReadWorkflows, Snapshots!Go
  <2> QED
    BY <1>1, <1>2, <1>3, <2>1 DEF SnapshotInv, CheckInv, Snapshots!Kind
<1> QED
  BY <1>4, <1>5

\* A check that has not passed, and is current in what was read, is judged.
LEMMA NoneLeft ==
  SnapshotInv /\ Snapshots!Judge /\ result' = "satisfied" /\ Snapshots!Kind = "checks" =>
    StillStanding = {}
<1> SUFFICES ASSUME SnapshotInv, Snapshots!Judge, result' = "satisfied",
                    Snapshots!Kind = "checks", NEW x \in StillStanding
             PROVE  FALSE
  OBVIOUS
<1>1. pc = "judge" /\ result = "none"
  BY DEF Snapshots!Judge, SnapshotInv
<1>2. Caught
  BY <1>1 DEF SnapshotInv, CheckInv
<1>3. Snapshots!Judged(got) = "satisfied"
  BY <1>1 DEF Snapshots!Judge
<1>4. Snapshots!JudgeChecks(Snapshots!Expected, got.checks) = "satisfied"
  BY <1>3 DEF Snapshots!Judged
<1>5. /\ Snapshots!FailedChecks(Snapshots!Expected, got.checks) = {}
      /\ Snapshots!AllEnded(Snapshots!Expected, got.checks)
  BY <1>4 DEF Snapshots!JudgeChecks
<1>6. PICK c \in Snapshots!Current(got.checks) :
        c.name = x.name /\ c.name \in Snapshots!Expected /\ ~Passed(c)
  BY <1>2 DEF Caught
<1>7. c \in Snapshots!Named(got.checks, c.name)
  BY <1>6 DEF Snapshots!Named
<1>8. Snapshots!IsTerminal(c)
  BY <1>5, <1>6, <1>7 DEF Snapshots!AllEnded
<1>9. Snapshots!CheckFailed(c)
  BY <1>6, <1>8 DEF Snapshots!CheckFailed, Passed
<1> QED
  BY <1>5, <1>6, <1>7, <1>9 DEF Snapshots!FailedChecks

LEMMA SnapshotJudgeKeeps == SnapshotInv /\ Snapshots!Judge => SnapshotInv'
<1> SUFFICES ASSUME SnapshotInv, Snapshots!Judge PROVE SnapshotInv'
  OBVIOUS
<1>1. /\ pc' \in {"start", "done"} /\ UNCHANGED Snapshots!github /\ standing' = {}
  BY DEF Snapshots!Judge, Snapshots!Go
<1>2. Shown' /\ world' = world
  BY <1>1, ReadingShown DEF SnapshotInv, Snapshots!github
<1>3. StandingShown'
  BY <1>1 DEF StandingShown
<1>4. pc = "judge" /\ result = "none"
  BY DEF Snapshots!Judge, SnapshotInv
<1>5. pc' # "done" => result' = "none"
  BY <1>4 DEF Snapshots!Judge, Snapshots!Go
<1> QED
  BY <1>1, <1>2, <1>3, <1>5 DEF SnapshotInv, CheckInv

LEMMA SnapshotInit == Snapshots!Init => SnapshotInv
<1> SUFFICES ASSUME Snapshots!Init PROVE SnapshotInv
  OBVIOUS
<1>1. /\ world \in SnapshotWorlds /\ pull = [head |-> "expected", state |-> "OPEN"]
      /\ runs = <<>> /\ listed = {} /\ statuses = <<>> /\ clock = 0
      /\ pc = "start" /\ standing = {} /\ result = "none"
  BY DEF Snapshots!Init
<1>2. /\ DOMAIN runs = {} /\ runs \in Seq(CheckRun) /\ statuses \in Seq(Status)
      /\ pull \in PullRec
  BY <1>1 DEF PullRec
<1> QED
  BY <1>1, <1>2 DEF SnapshotInv, Shown, CheckInv, StandingShown

LEMMA SnapshotStep ==
  SnapshotInv /\ Snapshots!Next =>
    /\ SnapshotInv'
    /\ result' = "satisfied" /\ result # "satisfied" /\ Snapshots!Kind = "checks" =>
         StillStanding = {}
<1> SUFFICES ASSUME SnapshotInv, Snapshots!Next
             PROVE  /\ SnapshotInv'
                    /\ result' = "satisfied" /\ result # "satisfied" /\ Snapshots!Kind = "checks" =>
                         StillStanding = {}
  OBVIOUS
<1>1. CASE Snapshots!GitHub
  <2>1. result' = result
    BY <1>1 DEF Snapshots!GitHub, Snapshots!PullMoves, Snapshots!Reopen, Snapshots!Create,
       Snapshots!Post, Snapshots!TagMoves, Snapshots!ReleaseMoves, Snapshots!List,
       Snapshots!Start, Snapshots!Finish, Snapshots!Moves
  <2> QED
    BY <1>1, <2>1, GitHubKeeps
<1>2. CASE Snapshots!Query
  BY <1>2, QueryKeeps DEF Snapshots!Query, Snapshots!Begin
<1>3. CASE Snapshots!ReadPull
  BY <1>3, ReadPullKeeps DEF Snapshots!ReadPull, Snapshots!Begin
<1>4. CASE Snapshots!ReadRuns
  BY <1>4, ReadRunsKeeps DEF Snapshots!ReadRuns
<1>5. CASE Snapshots!ReadStatuses
  BY <1>5, ReadStatusesKeeps DEF Snapshots!ReadStatuses
<1>6. CASE Snapshots!ReadWorkflows
  BY <1>6, ReadWorkflowsKeeps DEF Snapshots!ReadWorkflows
<1>7. CASE Snapshots!ReadTag \/ Snapshots!ReadRelease
  BY <1>7, ReadTagKeeps DEF Snapshots!ReadTag, Snapshots!ReadRelease, Snapshots!Begin
<1>8. CASE Snapshots!Judge
  BY <1>8, SnapshotJudgeKeeps, NoneLeft
<1> QED
  BY <1>1, <1>2, <1>3, <1>4, <1>5, <1>6, <1>7, <1>8 DEF Snapshots!Next, Snapshots!Observe

-----------------------------------------------------------------------------
(* The command. *)

DeliveryInv ==
    /\ world \in CensusWorlds \union SnapshotWorlds
    /\ AllWorkflows => CensusInv
    /\ ~AllWorkflows => SnapshotInv

LEMMA Inits == Init => DeliveryInv
<1> SUFFICES ASSUME Init PROVE DeliveryInv
  OBVIOUS
<1>1. CASE Workflows!Init
  BY <1>1, CensusInit DEF Workflows!Init, DeliveryInv, AllWorkflows
<1>2. CASE Snapshots!Init
  <2>1. world \in SnapshotWorlds
    BY <1>2 DEF Snapshots!Init
  <2> QED
    BY <1>2, <2>1, SnapshotInit, CommandAssumption DEF DeliveryInv, AllWorkflows
<1> QED
  BY <1>1, <1>2 DEF Init

LEMMA SameWorld ==
  /\ Workflows!Next => world' = world
  /\ Snapshots!Next => world' = world
<1>1. Workflows!Next => world' = world
  BY DEF Workflows!Next, Workflows!Push, Workflows!StartRun, Workflows!Actions,
     Workflows!AddJob, Workflows!EndJob, Workflows!EndRun, Workflows!Rerun, Workflows!Acts,
     Workflows!Read, Workflows!ReadHead, Workflows!ReadPage, Workflows!ReadJobs,
     Workflows!Judge, Workflows!Trouble, Workflows!github
<1>2. Snapshots!GitHub => world' = world
  BY DEF Snapshots!GitHub, Snapshots!PullMoves, Snapshots!Reopen, Snapshots!Create,
     Snapshots!Post, Snapshots!TagMoves, Snapshots!ReleaseMoves, Snapshots!List,
     Snapshots!Start, Snapshots!Finish, Snapshots!Moves
<1>3. Snapshots!Observe => world' = world
  BY DEF Snapshots!Observe, Snapshots!Query, Snapshots!ReadPull, Snapshots!ReadRuns,
     Snapshots!ReadStatuses, Snapshots!ReadWorkflows, Snapshots!ReadTag,
     Snapshots!ReadRelease, Snapshots!Judge, Snapshots!Begin, Snapshots!github
<1> QED
  BY <1>1, <1>2, <1>3 DEF Snapshots!Next

\* Nothing of it changes while the command waits.
LEMMA Stands == DeliveryInv /\ UNCHANGED vars => DeliveryInv'
<1> SUFFICES ASSUME DeliveryInv, UNCHANGED vars PROVE DeliveryInv'
  OBVIOUS
<1>1. /\ UNCHANGED <<world, runs, pc, result, pages, census, previous, green, bad>>
      /\ UNCHANGED <<pull, listed, statuses, clock, got, standing>>
  BY DEF vars, censusVars, snapshotVars
<1>2. AllWorkflows' = AllWorkflows
  BY <1>1 DEF AllWorkflows
<1>3. CensusInv => CensusInv'
  <2> SUFFICES ASSUME CensusInv PROVE Grows
    BY <1>1, GrowsKeeps
  <2>1. runs' = runs /\ RunsReal /\ runs \in Seq(RunRec) /\ Len(runs) \in Nat
    BY <1>1 DEF CensusInv, RunsReal
  <2>2. RunsReal'
    BY <2>1 DEF RunsReal
  <2> QED
    BY <2>1, <2>2, LaterSelf DEF Grows, RunsReal
<1>4. SnapshotInv => SnapshotInv'
  <2> SUFFICES ASSUME SnapshotInv PROVE Extends
    BY ExtendsKeeps
  <2> QED
    BY <1>1, AsideExtends DEF SnapshotInv, Shown
<1> QED
  BY <1>1, <1>2, <1>3, <1>4 DEF DeliveryInv

LEMMA Steps == DeliveryInv /\ [Next]_vars => DeliveryInv'
<1> SUFFICES ASSUME DeliveryInv, Next PROVE DeliveryInv'
  BY Stands
<1>1. world' = world /\ AllWorkflows' = AllWorkflows
  BY SameWorld DEF Next, AllWorkflows
<1>2. CASE AllWorkflows /\ Workflows!Next
  BY <1>1, <1>2, CensusStep DEF DeliveryInv
<1>3. CASE ~AllWorkflows /\ Snapshots!Next
  BY <1>1, <1>3, SnapshotStep DEF DeliveryInv
<1> QED
  BY <1>2, <1>3 DEF Next

\* Whatever GitHub does between two requests, what was read of a run that was not
\* re-run is still so, and what stood at the beginning is in what is judged.
THEOREM Readings == Spec => []DeliveryInv
BY Inits, Steps, PTL DEF Spec

\* Two equal complete censuses, one after the other, prove that every run and every
\* job had passed at one moment, though neither was read at one.
THEOREM SatisfiedWasGreen == Spec => []GreenTogether
<1>1. DeliveryInv => GreenTogether
  BY DEF DeliveryInv, CensusInv, Told, GreenTogether
<1> QED
  BY <1>1, Readings, PTL

\* What had failed when a census began, and was not re-run since, ends the wait
\* with "changed" when that census is judged.
THEOREM FailuresAreTold == Spec => FailFast
<1>1. DeliveryInv /\ [Next]_vars =>
        [AllWorkflows /\ pc = "judge" /\ pc' # "judge" /\ result' # "changed" =>
           bad \intersect Workflows!RunsFailed = {}]_vars
  BY CensusStep DEF DeliveryInv, Next
<1> QED
  BY <1>1, Readings, PTL DEF Spec, FailFast

\* The REST fallback judges what GitHub shows as the GraphQL query does, whichever
\* apps GraphQL does not name, unless two of those have run one check.
THEOREM FallbackIsFaithful == Spec => []FallbackAgrees
<1>1. DeliveryInv => FallbackAgrees
  BY SameJudgement DEF DeliveryInv, SnapshotInv, FallbackAgrees
<1> QED
  BY <1>1, Readings, PTL

\* A named check that stood when the observation began, and stands still, is not
\* looked over, whatever moved between the requests.
THEOREM NothingIsOverlooked == Spec => NothingOverlooked
<1>1. DeliveryInv /\ [Next]_vars =>
        [~AllWorkflows /\ result' = "satisfied" /\ result # "satisfied" /\ world.kind = "checks" =>
           standing \intersect Snapshots!Contexts_(Snapshots!NotPassed(Snapshots!Whole)) = {}]_vars
  BY SnapshotStep DEF DeliveryInv, Next, StillStanding, Snapshots!Kind
<1> QED
  BY <1>1, Readings, PTL DEF Spec, NothingOverlooked

-----------------------------------------------------------------------------
(* The loop: WaitTransition. *)

(* While the file is of this wait and no invocation was killed, the digest in *)
(* it is what the caller knows, up to what the invocation is about to tell.   *)
CallerKnows ==
    crashes = 0 /\ file.mine =>
        /\ stage = "idle" => file.digest = told
        /\ stage \in {"poll", "sleep", "seen"} => file.digest = told /\ prior = told
        /\ stage = "saved" =>
              /\ file.digest = Key[observation]
              /\ told = IF prior = NoKey THEN Key[observation] ELSE prior
        /\ stage = "return" =>
              IF status \in {"timed-out", "cancelled"} \/ observation = NoValue
              THEN file.digest = told ELSE file.digest = Key[observation]

FileMine == stage \in {"poll", "sleep", "seen", "saved"} => file.mine

\* Whatever ends a wait is still in the observation at hand.
Noticed ==
    /\ stage \in {"poll", "sleep"} => ~missed
    /\ stage \in {"seen", "saved"} => missed = Matters(observation, prior)
    /\ stage = "return" /\ status = "timed-out" => ~missed

WaitInv == TypeOK /\ FileMine /\ CallerKnows /\ Noticed

LEMMA Files ==
    ASSUME NEW k \in Keys \union {NoKey}
    PROVE  /\ Saved(k) \in Kept \union {Saved(j) : j \in Keys \union {NoKey}}
           /\ Saved(k).mine = TRUE /\ Saved(k).digest = k
BY DEF Saved

LEMMA NewFile == NoFile.mine = TRUE /\ NoFile.digest = NoKey
BY DEF NoFile

LEMMA WaitInvInit == WaitInit => WaitInv
<1> SUFFICES ASSUME WaitInit PROVE WaitInv
  OBVIOUS
<1>1. TypeOK
  <2>1. 0 \in 0 .. Changes /\ 0 \in 0 .. Crashes
    BY WaitAssumption
  <2> QED
    BY <2>1 DEF WaitInit, TypeOK
<1>2. CallerKnows
  BY WaitAssumption, NewFile DEF WaitInit, CallerKnows
<1> QED
  BY <1>1, <1>2 DEF WaitInv, WaitInit, FileMine, Noticed

LEMMA WaitInvNext ==
    ASSUME WaitInv, [WaitNext]_waitVars
    PROVE  WaitInv'
<1> USE WaitAssumption DEF WaitInv, TypeOK, counters, run
<1> USE Files
<1>1. \A v \in Values : Key[v] \in Keys
  BY DEF Keys
<1>2. CASE Call
  <2>1. file.mine => file.digest \in Keys \union {NoKey}
    <3>1. CASE file \in Kept
      BY <3>1, NewFile
    <3>2. ASSUME NEW k \in Keys \union {NoKey}, file = Saved(k)
          PROVE  file.digest \in Keys \union {NoKey}
      BY ONLY <3>2, Files
    <3>3. file \in Kept \/ \E k \in Keys \union {NoKey} : file = Saved(k)
      OBVIOUS
    <3> QED
      BY ONLY <3>1, <3>2, <3>3
  <2> QED
    BY <1>2, <2>1 DEF Call, FileMine, CallerKnows, Noticed, Return, Ended
<1>3. CASE Cancel
  BY <1>3 DEF Cancel, Carried, FileMine, CallerKnows, Noticed, Return, Ended
<1>4. CASE Observe
  BY <1>4 DEF Observe, FileMine, CallerKnows, Noticed, Matters
<1>5. CASE Unreachable
  <2>1. /\ stage = "poll" /\ file' = Saved(prior) /\ prior \in Keys \union {NoKey}
        /\ UNCHANGED <<changeFirst, github, prior, observation, due, stopped, told, missed,
                      changes, crashes>>
    BY <1>5 DEF Unreachable, Carried
  <2>2. file'.mine = TRUE /\ file'.digest = prior
    BY ONLY <2>1, Files
  <2>3. \/ stage' = "return" /\ status' = "timed-out"
        \/ stage' = "sleep" /\ status' = status
    BY <1>5 DEF Unreachable, Return
  <2>4. TypeOK'
    BY <2>1, <2>3 DEF Ended
  <2> QED
    BY <2>1, <2>2, <2>3, <2>4 DEF FileMine, CallerKnows, Noticed
<1>6. CASE Fail
  BY <1>6 DEF Fail, FileMine, CallerKnows, Noticed
<1>7. CASE Save
  <2>1. /\ stage = "seen" /\ stage' = "saved" /\ observation \in Values
        /\ file' = Saved(Key[observation]) /\ Key[observation] \in Keys
        /\ told' = IF told = NoKey THEN Key[observation] ELSE told
        /\ UNCHANGED <<changeFirst, github, prior, observation, due, stopped, status, missed,
                      changes, crashes>>
    BY <1>1, <1>7 DEF Save
  <2>2. file'.mine = TRUE /\ file'.digest = Key[observation]
    BY ONLY <2>1, Files
  <2>3. TypeOK'
    BY <2>1
  <2>4. CallerKnows'
    BY <2>1, <2>2 DEF CallerKnows, FileMine
  <2> QED
    BY <2>1, <2>2, <2>3, <2>4 DEF FileMine, Noticed, Matters
<1>8. CASE Judge
  <2>1. /\ stage = "saved" /\ observation \in Values /\ Key[observation] \in Keys
        /\ file.mine /\ missed = Matters(observation, prior)
        /\ UNCHANGED <<changeFirst, github, file, observation, due, stopped, told, missed,
                      changes, crashes>>
    BY <1>1, <1>8 DEF Judge, FileMine, Noticed
  <2>2. CASE Verdict = "none"
    <3>1. stage' = "sleep" /\ prior' = Key[observation] /\ status' = status
      BY <1>8, <2>2 DEF Judge
    <3>2. ~missed
      BY <2>1, <2>2 DEF Verdict, Changed, Matters, Ended
    <3>3. TypeOK'
      BY <2>1, <3>1
    <3>4. CallerKnows'
      BY <2>1, <2>2, <3>1 DEF CallerKnows, Verdict, Changed
    <3> QED
      BY <2>1, <3>1, <3>2, <3>3, <3>4 DEF FileMine, Noticed
  <2>3. CASE Verdict # "none"
    <3>1. stage' = "return" /\ status' = Verdict /\ prior' = prior
      BY <1>8, <2>3 DEF Judge, Return
    <3>2. Verdict = "timed-out" => ~missed
      BY <2>1, <2>3 DEF Verdict, Changed, Matters, Ended
    <3>3. Verdict \in Ended
      BY <2>1, <2>3 DEF Verdict, Ended
    <3>4. TypeOK'
      BY <2>1, <3>1, <3>3 DEF Ended
    <3>5. CallerKnows'
      BY <2>1, <3>1, <2>3 DEF CallerKnows, Verdict, Changed
    <3> QED
      BY <2>1, <3>1, <3>2, <3>4, <3>5 DEF FileMine, Noticed
  <2> QED
    BY <2>2, <2>3
<1>9. CASE Sleep
  BY <1>9 DEF Sleep, FileMine, CallerKnows, Noticed
<1>10. CASE Emit
  BY <1>1, <1>10 DEF Emit, FileMine, CallerKnows, Noticed
<1>11. CASE Deadline
  BY <1>11 DEF Deadline, FileMine, CallerKnows, Noticed, Matters
<1>12. CASE Interrupt
  BY <1>12 DEF Interrupt, FileMine, CallerKnows, Noticed, Matters
<1>13. CASE Crash
  BY <1>13 DEF Crash, FileMine, CallerKnows, Noticed
<1>14. CASE Change
  BY <1>14 DEF Change, FileMine, CallerKnows, Noticed, Matters
<1>15. CASE UNCHANGED waitVars
  BY <1>15 DEF waitVars, FileMine, CallerKnows, Noticed, Matters
<1> QED
  BY <1>2, <1>3, <1>4, <1>5, <1>6, <1>7, <1>8, <1>9, <1>10, <1>11, <1>12, <1>13, <1>14, <1>15
     DEF WaitNext, Step

\* The invariant holds in every reachable state.
THEOREM WaitInductive == WaitSpec => []WaitInv
BY WaitInvInit, WaitInvNext, PTL DEF WaitSpec

\* The state keeps its types.
THEOREM WaitTyped == WaitSpec => []TypeOK
<1>1. WaitInv => TypeOK
  BY DEF WaitInv
<1> QED
  BY <1>1, WaitInductive, PTL

\* Between invocations the file says what the caller knows.
THEOREM NeverSwallowed == WaitSpec => []NothingSwallowed
<1>1. WaitInv => NothingSwallowed
  BY DEF WaitInv, CallerKnows, NothingSwallowed
<1> QED
  BY <1>1, WaitInductive, PTL

\* A wait that reports its deadline saw nothing that ends it.
THEOREM DeadlineHidesNothing == WaitSpec => []TimedOutSawNothing
<1>1. WaitInv => TimedOutSawNothing
  BY DEF WaitInv, Noticed, TimedOutSawNothing
<1> QED
  BY <1>1, WaitInductive, PTL
=============================================================================
