---------------------------- MODULE EventLedger ----------------------------
(***************************************************************************)
(* The event ledger of event_ledger.py: a file of JSON lines that processes*)
(* extend under a lock and anyone reads without it.  An ingest may die, or *)
(* its write may fail, with any part of its output in the file, and what   *)
(* it still has buffered is written when the lock is free already.         *)
(***************************************************************************)
EXTENDS EventRules

CONSTANTS
    Ingesters,      \* processes that may run ingest
    Worlds          \* ledgers and their use: records of
                    \*   ingesters    the processes that do
                    \*   batches      the inputs they are given: sequences of events
                    \*   legacy       what the ledger holds at first
                    \*   maxFailures  bound: failed ingests

ASSUME LedgerAssumption ==
    /\ "nobody" \notin Ingesters
    /\ \A w \in Worlds :
        /\ w.ingesters \subseteq Ingesters
        /\ \A b \in w.batches \union {w.legacy} : b \in Seq(ToSet(b))
        /\ w.maxFailures \in Nat

VARIABLES
    world,      \* the kind of ledger and use
    file,       \* the text in the file, in pieces
    lock,       \* the ingester that holds the file lock, or Nobody
    ingest,     \* each ingester's step, its batch and what it has still to write
    acked,      \* events of the batches reported as ingested
    failures,
    \* History.
    last,       \* the batch each run was last found valid with, <<>> if none
    admitted,   \* the ingester whose batch was found admissible last, or Nobody
    late        \* a failed ingest wrote after another had been admitted

vars == <<world, file, lock, ingest, acked, failures, last, admitted, late>>

Nobody == "nobody"
Parts == {"head", "tail", "newline"}
\* A line is an event's text and a newline; a write that is cut short may leave a
\* part of the text, or all of it without the newline.
Piece(e, part) == [event |-> e, part |-> part]
Following(part) == CASE part = "head" -> "tail" [] part = "tail" -> "newline"
                     [] part = "newline" -> "head"
Text(events) ==
    [i \in 1 .. 3 * Len(events) |->
       Piece(events[(i + 2) \div 3], CASE i % 3 = 1 -> "head" [] i % 3 = 2 -> "tail"
                                        [] i % 3 = 0 -> "newline")]
Idle == [pc |-> "idle", batch |-> <<>>, left |-> {}, part |-> "head"]
RunIds(E) == {e.run : e \in E}
OfRun(E, r) == {e \in E : e.run = r}
Runs == RunIds(UNION {ToSet(b) : b \in world.batches \union {world.legacy}})

TypeOK ==
    /\ \A i \in DOMAIN file : file[i] = Piece(file[i].event, file[i].part) /\ file[i].part \in Parts
    /\ lock \in Ingesters \union {Nobody} /\ admitted \in Ingesters \union {Nobody}
    /\ \A p \in Ingesters :
         /\ ingest[p].pc \in {"idle", "locked", "write", "closing"}
         /\ ingest[p].pc \in {"locked", "write"} <=> lock = p
         /\ ingest[p].left \subseteq DOMAIN ingest[p].batch /\ ingest[p].part \in Parts
    /\ last \in [Runs -> world.batches \union {<<>>}]
    /\ failures \in 0 .. world.maxFailures /\ late \in BOOLEAN

Init ==
    /\ world \in Worlds /\ file = Text(world.legacy)
    /\ lock = Nobody /\ acked = {} /\ failures = 0
    /\ last = [r \in Runs |-> <<>>] /\ admitted = Nobody /\ late = FALSE
    /\ ingest = [p \in Ingesters |-> Idle]

Heads == {i \in DOMAIN file : file[i].part = "head"}
Events == {file[i].event : i \in Heads}
\* The text that begins at i is all that its line holds.
OwnLine(i) ==
    /\ i - 1 \in DOMAIN file => file[i - 1].part = "newline"
    /\ i + 1 \in DOMAIN file /\ file[i + 1] = Piece(file[i].event, "tail")
    /\ i + 2 \in DOMAIN file => file[i + 2].part = "newline"
\* parse_json_lines: every line is empty, or one JSON value and a valid event.
Parses ==
    \A i \in DOMAIN file :
        /\ i \in Heads => OwnLine(i) /\ ValidEvent(file[i].event)
        /\ file[i].part = "tail" => i - 1 \in Heads

\* An input that ingest takes: some events, all valid and of schema 2.
Accepts(batch) ==
    batch # <<>> /\ \A e \in ToSet(batch) : ValidEvent(e) /\ e.version = 2

SameKey(e, f) == e.run = f.run /\ e.id = f.id
\* Mutant: any repetition is a conflict.
Conflicts_Repeated(E, batch) == \E e \in ToSet(batch), f \in E : SameKey(e, f)
Conflicts(E, batch) ==
    \E e \in ToSet(batch), f \in E \union ToSet(batch) : SameKey(e, f) /\ e # f

\* Mutant: an event already in the ledger is appended again.
New_All(E, batch) == DOMAIN batch
\* Where the batch has the events to append: each that the ledger lacks, once.
New(E, batch) ==
    {i \in DOMAIN batch : batch[i] \notin E /\ \A j \in 1 .. i - 1 : batch[j] # batch[i]}

\* Mutant: only the incoming events are validated.
Admissible_BatchOnly(E, batch) ==
    /\ ~Conflicts(E, batch)
    /\ \A r \in RunIds(ToSet(batch)) : ValidRun(OfRun(ToSet(batch), r), FALSE)
\* Nothing in the batch conflicts and every run it touches stays valid.
Admissible(E, batch) ==
    /\ ~Conflicts(E, batch)
    /\ \A r \in RunIds(ToSet(batch)) : ValidRun(OfRun(E \union ToSet(batch), r), FALSE)

\* A ledger is at first what earlier ingests left: no event twice, every run valid.
ASSUME LegacyAssumption ==
    \A w \in Worlds :
        /\ \A e \in ToSet(w.legacy) : ValidEvent(e)
        /\ \A i, j \in DOMAIN w.legacy : SameKey(w.legacy[i], w.legacy[j]) => i = j
        /\ \A r \in RunIds(ToSet(w.legacy)) : ValidRun(OfRun(ToSet(w.legacy), r), FALSE)

-----------------------------------------------------------------------------
Release(p) == lock' = Nobody /\ ingest' = [ingest EXCEPT ![p] = Idle]

LockFree == lock = Nobody

\* The input is parsed first, then the lock is waited for.
Lock(p, batch) ==
    /\ ingest[p].pc = "idle" /\ Accepts(batch) /\ LockFree
    /\ lock' = p
    /\ ingest' = [ingest EXCEPT
                    ![p] = [pc |-> "locked", batch |-> batch, left |-> {}, part |-> "head"]]
    /\ UNCHANGED <<world, file, acked, failures, last, admitted, late>>

\* Under the lock the ledger is read and the batch judged as a whole.
Admit(p) ==
    LET batch == ingest[p].batch
    IN  /\ ingest[p].pc = "locked"
        /\ IF Parses /\ Admissible(Events, batch)
           THEN /\ ingest' = [ingest EXCEPT ![p] = [pc |-> "write", batch |-> batch,
                                                   left |-> New(Events, batch), part |-> "head"]]
                /\ last' = [r \in Runs |-> IF r \in RunIds(ToSet(batch)) THEN batch ELSE last[r]]
                /\ admitted' = p /\ UNCHANGED lock
           ELSE Release(p) /\ UNCHANGED <<last, admitted>>
        /\ UNCHANGED <<world, file, acked, failures, late>>

Writing(p) == ingest[p].pc \in {"write", "closing"} /\ ingest[p].left # {}
NextEvent(p) == ingest[p].batch[Min(ingest[p].left)]
NextPiece(p) == Piece(NextEvent(p), ingest[p].part)

\* What an ingest has to write after the next piece.
Written(i) == [pc |-> i.pc, batch |-> i.batch, part |-> Following(i.part),
               left |-> IF i.part = "newline" THEN i.left \ {Min(i.left)} ELSE i.left]

\* The next piece of the output reaches the end of the file: within the lock by
\* write and flush, or after it was given up by close.
Write(p) ==
    /\ Writing(p)
    /\ file' = Append(file, NextPiece(p))
    /\ ingest' = [ingest EXCEPT ![p] = Written(@)]
    /\ late' = (late \/ (ingest[p].pc = "closing" /\ admitted # p))
    /\ UNCHANGED <<world, lock, acked, failures, last, admitted>>

\* Flushed and synced: the batch is reported as ingested.
Commit(p) ==
    /\ ingest[p].pc = "write" /\ ingest[p].left = {}
    /\ acked' = acked \union ToSet(ingest[p].batch)
    /\ Release(p)
    /\ UNCHANGED <<world, file, failures, last, admitted, late>>

\* The process dies, is interrupted, or its write or sync fails.  What reached the
\* file stays there and the lock is freed; what is still buffered is lost with the
\* process, or left to the close that comes after the unlock.
Fail(p) ==
    /\ ingest[p].pc \in {"locked", "write"} /\ failures < world.maxFailures
    /\ \/ Release(p)
       \/ /\ Writing(p) /\ lock' = Nobody
          /\ ingest' = [ingest EXCEPT ![p].pc = "closing"]
    /\ failures' = failures + 1
    /\ UNCHANGED <<world, file, acked, last, admitted, late>>

\* The close is over: all was written, or it failed or the process died in it.
Closed(p) ==
    /\ ingest[p].pc = "closing"
    /\ ingest' = [ingest EXCEPT ![p] = Idle]
    /\ UNCHANGED <<world, file, lock, acked, failures, last, admitted, late>>

Next ==
    \E p \in world.ingesters :
        \/ \E batch \in world.batches : Lock(p, batch)
        \/ Admit(p) \/ Write(p) \/ Commit(p) \/ Fail(p) \/ Closed(p)

Spec == Init /\ [][Next]_vars

-----------------------------------------------------------------------------
(* Properties. *)

Valid == \A r \in RunIds(Events) : ValidRun(OfRun(Events, r), FALSE)

\* Without failures every run in the ledger is valid whenever no ingest is at
\* work, whatever batches were offered in whatever order.
LedgerValid ==
    failures = 0 /\ lock = Nobody =>
        Parses /\ Valid

\* An event's text goes on behind another's, on one line: the file parses no more.
Glued == \E i \in Heads : i - 1 \in DOMAIN file /\ file[i - 1].part # "newline"

\* After failed ingests and retries too, no event is begun twice, and every event
\* reported as ingested is in the ledger on a line of its own that parses.  Not
\* covered are, of the first, a failed ingest whose close writes after another ingest
\* was admitted, and of the second also a line that lacked its newline when the next
\* one was written.
WrittenOnce == ~late =>
    /\ \A i, j \in Heads : SameKey(file[i].event, file[j].event) => i = j
    /\ ~Glued => \A e \in acked : \E i \in Heads : file[i].event = e /\ OwnLine(i)

\* An ingest that failed half-way is completed by repeating it.  However ingests
\* of any batches failed and were repeated, a run lacks nothing but events of the
\* batch it was last found valid with; and no batch is refused that is still the
\* last one of all its runs.  Not covered is a failed ingest whose close writes after
\* another ingest was admitted.
RetryHeals ==
    ~late /\ lock = Nobody /\ Parses =>
        /\ \A r \in RunIds(Events) : ValidRun(OfRun(Events \union ToSet(last[r]), r), FALSE)
        /\ \A batch \in world.batches :
             (\A r \in RunIds(ToSet(batch)) : last[r] = batch) => Admissible(Events, batch)

\* The value a stream counted from nothing, or from its start, has reached.
Reached(stream) ==
    LET measured == {e \in stream : e.value # Null}
        values == {e.value : e \in measured}
    IN  IF values = {} THEN 0
        ELSE IF \E e \in stream : e.mode = "delta"
        THEN SumFunction([e \in measured |-> e.value])
        ELSE IF \E e \in stream : e.baseline = "start" THEN Max(values) - Min(values)
        ELSE Max(values)

\* Whatever a reader without the lock finds: a run that validates sums to what
\* its streams reached, and its models to the whole.
SummaryExact ==
    Parses => \A r \in RunIds(Events) :
        LET E == OfRun(Events, r)
        IN  ValidRun(E, TRUE) =>
              /\ Total(E) = SumFunction([s \in Streams(E) |-> Reached(OfStream(E, s))])
              /\ Total(E) = SumFunction([m \in {e.model : e \in E} |-> OfModel(E, m)])

=============================================================================
