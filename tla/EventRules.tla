----------------------------- MODULE EventRules -----------------------------
(***************************************************************************)
(* What event_ledger.py accepts as an event and as the events of a run,    *)
(* and what it sums them up to.  An event is a record; of its content only *)
(* what the rules tell apart is kept: who stands for spanKind and identity,*)
(* value for one counter (Null when not measured), listed for its place in *)
(* unavailableFields, other for whether another counter is measured, at    *)
(* for the timestamp.                                                      *)
(***************************************************************************)
EXTENDS Integers, Sequences, FiniteSets, SequencesExt, FiniteSetsExt

Null == -1
NoStream == "none"

\* A measured value is not negative; a null one must be listed as unavailable and
\* a measured one must not.
ValidMetric(e) == e.value \in Nat \union {Null} /\ (e.value = Null <=> e.listed)

\* Provenance: a stream if and only if something is measured, a baseline that
\* fits the mode.
ValidMeasurement(e) ==
    LET measured == e.value # Null \/ e.other
    IN  IF e.stream = NoStream THEN ~measured
    ELSE /\ measured /\ e.seq \in Nat
         /\ \/ e.mode = "delta" /\ e.baseline = "none"
            \/ e.mode = "snapshot" /\ e.baseline \in {"zero", "start"}

ValidEvent(e) ==
    /\ e.type = "span_started" => e.result = "started"
    /\ e.type = "span_finished" => e.result \notin {"started", "pending"}
    /\ ValidMetric(e)
    /\ e.version = 2 => /\ ValidMeasurement(e)
                        /\ e.type = "model_sample" => e.model # "none"

OfType(E, type) == {e \in E : e.type = type}
Spans(E) == {e.span : e \in E}
Streams(E) == {e.stream : e \in {e \in E : e.version = 2}} \ {NoStream}
OfStream(E, s) == {e \in E : e.version = 2 /\ e.stream = s}

NoConflict(E) == \A e, f \in E : e.id = f.id => e = f

\* One start and at most one finish per span, which agree; all finished at
\* closure.
ValidSpans(E, closure) ==
    LET started == OfType(E, "span_started")
        finished == OfType(E, "span_finished")
    IN  /\ "none" \notin Spans(started \union finished)
        /\ \A S \in {started, finished} : \A e, f \in S : e.span = f.span => e = f
        /\ Spans(finished) \subseteq Spans(started)
        /\ closure => Spans(started) \subseteq Spans(finished)
        /\ \A s \in started, f \in finished :
             s.span = f.span => s.who = f.who /\ s.at <= f.at

Contiguous(E) == \A n \in 0 .. Cardinality(E) - 1 : \E e \in E : e.seq = n

\* A cumulative counter never decreases from one measured sample to a later one.
Grows(E) ==
    \A e, f \in E : e.seq < f.seq /\ Null \notin {e.value, f.value} => e.value <= f.value

\* One mode and baseline, sequence numbers 0, 1, ... each once; a cumulative
\* counter grows and, counted from its start, has one.
ValidStream(E) ==
    /\ \A e, f \in E : e.mode = f.mode /\ e.baseline = f.baseline
    /\ \A e, f \in E : e.seq = f.seq => e = f
    /\ Contiguous(E)
    /\ \A e \in E : e.mode = "snapshot" => Grows(E)
    /\ \A e, f \in E :
         e.seq = 0 /\ e.baseline = "start" /\ e.value = Null => f.value = Null

\* Superseded work must name its span; at closure the span started, and it was
\* cancelled or some event says why not.
ValidSuperseded(E, closure) ==
    LET superseded == OfType(E, "work_superseded")
        Blocked(span) == \E e \in superseded : e.span = span /\ e.blocker
    IN  /\ "none" \notin Spans(superseded)
        /\ closure =>
             /\ Spans(superseded) \subseteq Spans(OfType(E, "span_started"))
             /\ \A span \in Spans(superseded) : ~Blocked(span) =>
                  \A f \in OfType(E, "span_finished") :
                    f.span = span => f.result = "cancelled" \/ f.blocker

ValidRun(E, closure) ==
    /\ E # {} /\ NoConflict(E) /\ ValidSpans(E, closure)
    /\ \A s \in Streams(E) : ValidStream(OfStream(E, s))
    /\ ValidSuperseded(E, closure)

-----------------------------------------------------------------------------
(* summarize_run *)

\* The value a stream measured last before e, Null if it measured none.
Previous(stream, e) ==
    LET measured == {f \in stream : f.seq < e.seq /\ f.value # Null}
    IN  IF measured = {} THEN Null
        ELSE (CHOOSE f \in measured : \A g \in measured : g.seq <= f.seq).value

\* Mutant: a first sample always counts.
FromNothing_Counted(e) == e.value
\* What a first measured value of a cumulative counter adds.
FromNothing(e) == IF e.baseline = "zero" THEN e.value ELSE 0

\* What an event of a stream adds to the counter.
Contribution(stream, e) ==
    IF e.value = Null THEN 0
    ELSE IF e.mode = "delta" THEN e.value
    ELSE IF Previous(stream, e) = Null THEN FromNothing(e)
    ELSE e.value - Previous(stream, e)

\* The counter over some of the events E: all, or those of a model.
Counted(E, some) ==
    LET Part(stream) == SumFunctionOnSet([e \in stream |-> Contribution(stream, e)],
                                         stream \intersect some)
    IN  SumFunction([s \in Streams(E) |-> Part(OfStream(E, s))])

Total(E) == Counted(E, E)
OfModel(E, model) == Counted(E, {e \in E : e.model = model})
=============================================================================
