---------------------------- MODULE ReviewReply ----------------------------
(***************************************************************************)
(* reply() of review_mutations.py: an inline reply to a review comment is   *)
(* sent at most once for an operation, whichever of its invocations dies,   *)
(* loses the answer, or has its request arrive late.  The invocations share *)
(* a checkpoint, under the lock beside it.                                  *)
(***************************************************************************)
EXTENDS StateLock, Sequences

CONSTANT Body   \* the body each invocation is given for the operation

ASSUME BodyAssumption == DOMAIN Body = Waits

VARIABLES
    head,       \* the pull request's head: the expected one or another
    replies,    \* the replies with the operation's marker: who sent each
    flying,     \* requests on their way to GitHub
    file,       \* the checkpoint: the body of its request, and its phase
    at,         \* the step of each invocation inside the lock
    created,    \* its "created": no, yes or unknown
    answer,     \* what it returns
    off,        \* history: the head was another when it looked for the reply
    crowded     \* history: two were inside the lock at once

github == <<head, replies, flying>>
lockVars == <<lock, pc, seen, tries>>
allVars == <<lockVars, github, file, at, created, answer, off, crowded>>

NoFile == [body |-> None, phase |-> None]
Posting(w) == [body |-> Body[w], phase |-> "posting"]
Confirmed(w) == [body |-> Body[w], phase |-> "confirmed"]
Files == {Posting(w) : w \in Waits} \union {Confirmed(w) : w \in Waits}

ReplyTypeOK ==
    /\ TypeOK
    /\ head \in {"expected", "other"} /\ replies \in Seq(Waits) /\ flying \subseteq Waits
    /\ file \in {NoFile} \union Files
    /\ at \in [Waits -> {"head", "load", "discover", "recheck", "checkpoint", "post", "sent",
                         "verify", "confirm", "final", "done"}]
    /\ created \in [Waits -> {"no", "yes", "unknown"}]
    /\ answer \in [Waits -> {"none", "satisfied", "pending", "invalidated", "error"}]
    /\ off \in [Waits -> BOOLEAN] /\ crowded \in BOOLEAN
    /\ \A w \in Waits : (answer[w] = "none") = (at[w] # "done")
    /\ \A w \in Waits : at[w] \in {"post", "sent", "verify", "final"} => file # NoFile

ReplyInit ==
    /\ Init
    /\ head = "expected" /\ replies = <<>> /\ flying = {} /\ file = NoFile
    /\ at = [w \in Waits |-> "head"] /\ created = [w \in Waits |-> "no"]
    /\ answer = [w \in Waits |-> "none"] /\ off = [w \in Waits |-> FALSE]
    /\ crowded = FALSE

-----------------------------------------------------------------------------
(* GitHub. *)

Beside == UNCHANGED <<lockVars, file, at, created, answer, off, crowded>>

Push == head = "expected" /\ head' = "other" /\ UNCHANGED <<replies, flying>> /\ Beside

\* A request that was sent is carried out, now or after its sender gave up ...
Arrive(w) ==
    /\ w \in flying
    /\ flying' = flying \ {w} /\ replies' = Append(replies, w)
    /\ UNCHANGED head /\ Beside

\* ... or never.
Vanish(w) == w \in flying /\ flying' = flying \ {w} /\ UNCHANGED <<head, replies>> /\ Beside

-----------------------------------------------------------------------------
(* reply(), inside the lock. *)

Works(w, step) == pc[w] = "in" /\ at[w] = step
To(w, step) == at' = [at EXCEPT ![w] = step]
Done(w, state) == To(w, "done") /\ answer' = [answer EXCEPT ![w] = state]
Inner == UNCHANGED <<lockVars, crowded>>

\* The head, then the author, the comment and the root of its thread.
ReadHead(w) ==
    /\ Works(w, "head")
    /\ IF head = "expected" THEN To(w, "load") /\ UNCHANGED answer ELSE Done(w, "invalidated")
    /\ UNCHANGED <<github, file, created, off>> /\ Inner

\* A checkpoint of another request ends the invocation.
Load(w) ==
    /\ Works(w, "load")
    /\ IF file.body \in {None, Body[w]} THEN To(w, "discover") /\ UNCHANGED answer
       ELSE Done(w, "error")
    /\ UNCHANGED <<github, file, created, off>> /\ Inner

\* There is one reply with the marker, and it is the one requested.
Verified(w) == Len(replies) = 1 /\ Body[replies[1]] = Body[w]

\* Mutant: an operation without a receipt is sent again.
Prior_Never(w) == FALSE
Prior(w) == file # NoFile

Discover(w) ==
    /\ Works(w, "discover")
    /\ off' = [off EXCEPT ![w] = head # "expected"]
    /\ IF replies = <<>>
       THEN IF Prior(w) THEN Done(w, "pending") ELSE To(w, "recheck") /\ UNCHANGED answer
       ELSE IF Verified(w) THEN To(w, "confirm") /\ UNCHANGED answer ELSE Done(w, "error")
    /\ UNCHANGED <<github, file, created>> /\ Inner

\* Mutant: the head is not read again.
Current_Assumed == TRUE
Current == head = "expected"

Recheck(w) ==
    /\ Works(w, "recheck")
    /\ IF Current THEN To(w, "checkpoint") /\ UNCHANGED answer ELSE Done(w, "invalidated")
    /\ UNCHANGED <<github, file, created, off>> /\ Inner

Recorded(w) == file' = Posting(w)

Checkpoint(w) ==
    /\ Works(w, "checkpoint") /\ Recorded(w) /\ To(w, "post")
    /\ UNCHANGED <<github, created, answer, off>> /\ Inner

Post(w) ==
    /\ Works(w, "post") /\ flying' = flying \union {w} /\ To(w, "sent")
    /\ UNCHANGED <<head, replies, file, created, answer, off>> /\ Inner

Sent(w, outcome) ==
    /\ file' = Posting(w) /\ To(w, "verify") /\ created' = [created EXCEPT ![w] = outcome]
    /\ UNCHANGED <<github, answer, off>> /\ Inner

Answered(w) ==
    /\ Works(w, "sent") /\ \E i \in DOMAIN replies : replies[i] = w
    /\ Sent(w, "yes")

\* The answer is lost, or never comes.
PostFails(w) == Works(w, "sent") /\ Sent(w, "unknown")

\* Mutant: the POST is its own receipt.
Receipt_Assumed(w) == TRUE
Receipt(w) == Verified(w)

Verify(w) ==
    /\ Works(w, "verify")
    /\ IF Receipt(w) THEN To(w, "confirm") /\ UNCHANGED answer ELSE Done(w, "pending")
    /\ UNCHANGED <<github, file, created, off>> /\ Inner

Confirm(w) ==
    /\ Works(w, "confirm") /\ file' = Confirmed(w) /\ To(w, "final")
    /\ UNCHANGED <<github, created, answer, off>> /\ Inner

Final(w) ==
    /\ Works(w, "final")
    /\ Done(w, IF head = "expected" THEN "satisfied" ELSE "invalidated")
    /\ UNCHANGED <<github, file, created, off>> /\ Inner

\* A read fails: once the reply may have been sent the result is pending.
ReadFails(w) ==
    /\ \E step \in {"head", "discover", "recheck", "verify", "final"} : Works(w, step)
    /\ Done(w, IF at[w] \in {"verify", "final"} THEN "pending" ELSE "error")
    /\ UNCHANGED <<github, file, created, off>> /\ Inner

Reply(w) ==
    \/ ReadHead(w) \/ Load(w) \/ Discover(w) \/ Recheck(w) \/ Checkpoint(w) \/ Post(w)
    \/ Answered(w) \/ PostFails(w) \/ Verify(w) \/ Confirm(w) \/ Final(w) \/ ReadFails(w)

-----------------------------------------------------------------------------
\* The steps of the lock: an invocation leaves it when it has its result.
Locking(w) ==
    /\ Step(w) \/ Die(w)
    /\ pc[w] = "in" /\ pc'[w] # "dead" => at[w] = "done"
    /\ crowded' = (crowded \/ \E u, v \in Waits : u # v /\ pc'[u] = "in" /\ pc'[v] = "in")
    /\ UNCHANGED <<github, file, at, created, answer, off>>

ReplyNext ==
    \/ Push
    \/ \E w \in Waits : Arrive(w) \/ Vanish(w) \/ Locking(w) \/ Reply(w)

ReplySpec == ReplyInit /\ [][ReplyNext]_allVars

-----------------------------------------------------------------------------
(* Properties. *)

\* As long as the lock keeps the invocations apart the operation makes at most
\* one reply, counting those still under way: whatever dies, is lost or arrives
\* late, and however often the operation is repeated.
RepliesOnce == ~crowded => Len(replies) + Cardinality(flying) <= 1

\* What an invocation says of the reply is so: a satisfied one has its very reply
\* on GitHub, "created" tells who made it, and a confirmed checkpoint is that of a
\* reply that is there.
ReceiptTrue ==
    ~crowded =>
        /\ \A w \in Waits : answer[w] = "satisfied" =>
              /\ Len(replies) = 1 /\ Body[replies[1]] = Body[w]
              /\ created[w] = "yes" => replies[1] = w
              /\ created[w] = "no" => replies[1] # w
        /\ file.phase = "confirmed" =>
              Len(replies) = 1 /\ Body[replies[1]] = file.body

\* A reply is not sent for a head that was already left when it was looked for.
NothingSentStale == \A w \in Waits : at[w] \in {"post", "sent"} => ~off[w]

\* No two are inside the lock unless one died.
HeldApart == crowded => \E w \in Waits : pc[w] = "dead"
=============================================================================
