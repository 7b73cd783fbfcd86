----------------------------- MODULE WSMailbox -----------------------------
(***************************************************************************)
(* What TWSTransport.SubmitPost promises (src/source/units/                *)
(* WS.Transport.pas): OnPost fires exactly once per call, with the         *)
(* connection or, when it is gone or the transport is stopping, with nil;  *)
(* what the transport accepted is handed over in the order it was          *)
(* accepted, which is each caller's order.  A refused post is handed back  *)
(* at once and carries no order.                                           *)
(***************************************************************************)
EXTENDS Sequences, Naturals

CONSTANT Posts

VARIABLES
  fate,    \* fate[p]: "new", "refused", "queued", "delivered" or "dropped"
  took,    \* the posts accepted, in order
  done     \* the accepted posts handed to OnPost, in order

vars == <<fate, took, done>>

Init ==
  /\ fate = [p \in Posts |-> "new"]
  /\ took = <<>>
  /\ done = <<>>

Accept(p) ==
  /\ fate[p] = "new"
  /\ fate' = [fate EXCEPT ![p] = "queued"]
  /\ took' = Append(took, p)
  /\ UNCHANGED done

Refuse(p) ==
  /\ fate[p] = "new"
  /\ fate' = [fate EXCEPT ![p] = "refused"]
  /\ UNCHANGED <<took, done>>

HandBack(p) ==
  /\ fate[p] = "refused"
  /\ fate' = [fate EXCEPT ![p] = "dropped"]
  /\ UNCHANGED <<took, done>>

(* The next n accepted posts are settled, the first perhaps delivered.     *)
Settle(n) ==
  LET batch == SubSeq(took, Len(done) + 1, Len(done) + n) IN
  /\ n \in 1 .. Len(took) - Len(done)
  /\ done' = done \o batch
  /\ \E first \in {"delivered", "dropped"} :
       fate' = [p \in Posts |->
                  IF p = batch[1] THEN first
                  ELSE IF \E i \in 2 .. n : batch[i] = p THEN "dropped"
                  ELSE fate[p]]
  /\ UNCHANGED took

Next ==
  \/ \E p \in Posts : Accept(p) \/ Refuse(p) \/ HandBack(p)
  \/ \E n \in 1 .. Len(took) - Len(done) : Settle(n)

Spec == Init /\ [][Next]_vars
=============================================================================
