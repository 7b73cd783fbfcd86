------------------------------ MODULE MCLedger ------------------------------
(* Small instances of EventLedger: a span, streams of each mode, superseded *)
(* work, and inputs that are out of order, repeated, conflicting or invalid.*)
EXTENDS EventLedger, TLC

CONSTANTS p, q

Event == [version |-> 2, run |-> "r1", id |-> <<"?">>, type |-> "other", span |-> "none",
          who |-> "w", at |-> 1, result |-> "succeeded", blocker |-> FALSE,
          stream |-> NoStream, mode |-> "none", baseline |-> "none", seq |-> 0,
          value |-> Null, listed |-> TRUE, other |-> FALSE, model |-> "m1"]
With(fields) == fields @@ Event
Started(id, span) == With([id |-> id, type |-> "span_started", span |-> span, result |-> "started"])
Finished(id, span) == With([id |-> id, type |-> "span_finished", span |-> span, at |-> 2])
Sample(id, stream, mode, baseline, seq, value) ==
    With([id |-> id, type |-> "model_sample", stream |-> stream, mode |-> mode,
          baseline |-> baseline, seq |-> seq, value |-> value, listed |-> value = Null,
          other |-> value = Null, model |-> IF seq = 1 THEN "m2" ELSE "m1"])

S == Started(<<"s">>, "x")
F == Finished(<<"f">>, "x")
D(n) == Sample(<<"d", n>>, "d", "delta", "none", n, n + 1)
Z(n, value) == Sample(<<"z", n>>, "z", "snapshot", "zero", n, value)
B(n, value) == Sample(<<"b", n>>, "b", "snapshot", "start", n, value)
Superseded == With([id |-> <<"u">>, type |-> "work_superseded", span |-> "x"])
Excused == [Superseded EXCEPT !.id = <<"v">>, !.blocker = TRUE]

SpanBatches == {<<S>>, <<F, S>>, <<F>>, <<Superseded, S>>, <<Excused, Excused>>,
                <<[F EXCEPT !.id = <<"g">>]>>, <<[S EXCEPT !.at = 3]>>, <<[S EXCEPT !.id = <<"t">>]>>,
                <<[Started(<<"o">>, "y") EXCEPT !.run = "r2"], F>>}
CounterBatches == {<<D(0)>>, <<D(2), D(1)>>, <<D(1)>>, <<Z(0, Null), Z(1, 2)>>,
                   <<Z(2, Null), Z(3, 3)>>, <<Z(2, Null), Z(3, 1)>>, <<B(0, 2), B(1, 3)>>,
                   <<B(2, Null), B(3, 5)>>, <<B(0, Null), B(1, 1)>>,
                   <<[D(0) EXCEPT !.value = 7]>>,
                   <<[D(1) EXCEPT !.id = <<"c">>], D(0)>>, <<D(3), [D(3) EXCEPT !.value = 9]>>,
                   <<[D(3) EXCEPT !.mode = "snapshot", !.baseline = "zero"]>>}
RetryBatches == {<<F, S>>, <<[S EXCEPT !.run = "r2"], S>>}
MixedBatches == {<<F, S>>, <<D(0)>>, <<Superseded>>}
OldSpan == <<[S EXCEPT !.version = 1, !.stream = NoStream, !.value = 4, !.listed = FALSE], F>>

World == [ingesters |-> {p, q}, batches |-> {}, legacy |-> <<>>, maxFailures |-> 0]
SpanWorld == [World EXCEPT !.batches = SpanBatches, !.legacy = OldSpan]
CounterWorld == [World EXCEPT !.ingesters = {p}, !.batches = CounterBatches]
FailWorld == [World EXCEPT !.batches = RetryBatches, !.maxFailures = 2]
MixedWorld == [World EXCEPT !.batches = MixedBatches, !.maxFailures = 1]
AllWorlds == {SpanWorld, CounterWorld, FailWorld, MixedWorld}
=============================================================================
