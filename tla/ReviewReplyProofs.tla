-------------------------- MODULE ReviewReplyProofs --------------------------
(***************************************************************************)
(* What ReviewReply promises, for any number of invocations and deaths: the *)
(* operation makes at most one reply, a receipt is true, nothing is sent for*)
(* a head already left, the lock fails to keep two apart only when one of   *)
(* them died, and it refuses nobody without a reason.                       *)
(***************************************************************************)
EXTENDS ReviewReply, FiniteSetTheorems, TLAPS

NoneDead == \A w \in Waits : pc[w] # "dead"

(* The lock.  A file names an invocation that is at the lock or inside it,  *)
(* or died there; while none has died it names whoever is inside, and no one*)
(* is about to remove a stale one.                                          *)
MakerPresent ==
    \A w \in Waits :
        /\ lock = File(w, TRUE) => pc[w] \in {"in", "leave", "dead"}
        /\ lock = File(w, FALSE) => pc[w] \in {"blank", "dead"}

HolderNamed ==
    NoneDead => \A w \in Waits :
        /\ pc[w] \in {"in", "leave"} => lock = File(w, TRUE)
        /\ pc[w] = "blank" => lock = File(w, FALSE)
        /\ pc[w] # "unlink"

TriesLeft == \A w \in Waits :
    /\ pc[w] \in {"read", "stale", "unlink"} => tries[w] > 0
    /\ pc[w] \in {"stale", "unlink"} => seen[w] \in Waits

LockInv == TypeOK /\ MakerPresent /\ HolderNamed /\ TriesLeft

LEMMA LockInit == Init => LockInv
BY LockAssumption DEF Init, LockInv, TypeOK, MakerPresent, HolderNamed, TriesLeft,
   Absent, File, None, Attempts, Ended

LEMMA LockStep ==
    ASSUME LockInv, NEW w \in Waits, Step(w) \/ Die(w)
    PROVE  LockInv'
<1> USE DEF LockInv, TypeOK, Absent, File, None, Attempts, Ended, Go
<1> USE LockAssumption
<1>1. CASE Create(w)
  <2>1. /\ pc[w] = "start" /\ lock = Absent /\ lock' = File(w, FALSE)
        /\ pc' = [pc EXCEPT ![w] = "blank"] /\ UNCHANGED <<seen, tries>>
    BY <1>1 DEF Create, Creatable
  <2>2. TypeOK' /\ TriesLeft'
    BY <2>1 DEF TriesLeft
  <2>3. MakerPresent'
    BY <2>1 DEF MakerPresent
  <2>4. HolderNamed'
    BY <2>1 DEF HolderNamed, NoneDead
  <2> QED
    BY <2>2, <2>3, <2>4
<1>2. CASE WriteOwner(w)
  <2>1. TypeOK'
    BY <1>2 DEF WriteOwner
  <2>2. MakerPresent'
    BY <1>2 DEF WriteOwner, MakerPresent
  <2>3. HolderNamed'
    <3>1. SUFFICES ASSUME NoneDead', NEW u \in Waits
                   PROVE  /\ pc'[u] \in {"in", "leave"} => lock' = File(u, TRUE)
                          /\ pc'[u] = "blank" => lock' = File(u, FALSE)
                          /\ pc'[u] # "unlink"
      BY DEF HolderNamed
    <3>2. NoneDead
      BY <1>2, <3>1 DEF WriteOwner, NoneDead
    <3>3. lock = File(w, FALSE) /\ lock' = File(w, TRUE)
      BY <1>2, <3>2 DEF WriteOwner, HolderNamed
    <3>4. CASE u = w
      BY <1>2, <3>3, <3>4 DEF WriteOwner
    <3>5. CASE u # w
      <4>1. pc'[u] = pc[u]
        BY <1>2, <3>5 DEF WriteOwner
      <4>2. File(u, TRUE) # File(w, FALSE) /\ File(u, FALSE) # File(w, FALSE)
        BY <3>5
      <4> QED
        BY <3>2, <3>3, <4>1, <4>2 DEF HolderNamed
    <3> QED
      BY <3>4, <3>5
  <2>4. TriesLeft'
    BY <1>2 DEF WriteOwner, TriesLeft
  <2> QED
    BY <2>1, <2>2, <2>3, <2>4
<1>3. CASE Exists(w)
  BY <1>3 DEF Exists, Left, MakerPresent, HolderNamed, TriesLeft, NoneDead
<1>4. CASE Read(w)
  BY <1>4 DEF Read, Blank, MakerPresent, HolderNamed, TriesLeft, NoneDead
<1>5. CASE OwnerExists(w)
  BY <1>5 DEF OwnerExists, MakerPresent, HolderNamed, TriesLeft, NoneDead
<1>6. CASE Reread(w)
  BY <1>6 DEF Reread, Unchanged, MayBeGone, Again, MakerPresent, HolderNamed, TriesLeft, NoneDead
<1>7. CASE Unlink(w)
  BY <1>7 DEF Unlink, Again, MakerPresent, HolderNamed, TriesLeft, NoneDead
<1>8. CASE GiveUp(w)
  BY <1>8 DEF GiveUp, MakerPresent, HolderNamed, TriesLeft, NoneDead
<1>9. CASE Leave(w)
  BY <1>9 DEF Leave, Mine, MakerPresent, HolderNamed, TriesLeft, NoneDead
<1>10. CASE Remove(w)
  BY <1>10 DEF Remove, MakerPresent, HolderNamed, TriesLeft, NoneDead
<1>11. CASE Die(w)
  BY <1>11 DEF Die, MakerPresent, HolderNamed, TriesLeft, NoneDead
<1> QED
  BY <1>1, <1>2, <1>3, <1>4, <1>5, <1>6, <1>7, <1>8, <1>9, <1>10, <1>11 DEF Step

-----------------------------------------------------------------------------
(* reply().  At any time the operation has no reply, one that is under way, *)
(* or one that is made, and none before the checkpoint names the request.   *)
Quiet == replies = <<>> /\ flying = {}
UnderWay == replies = <<>> /\ \E u \in Waits : flying = {u}
Made == flying = {} /\ \E u \in Waits : replies = <<u>>

AtMostOne == ~crowded => Quiet \/ UnderWay \/ Made
Unrecorded == file = NoFile => Quiet

\* Who has not been inside the lock has done nothing; two are inside only crowded.
Outside == \A w \in Waits : pc[w] \notin {"in", "leave", "out", "dead"} => at[w] = "head"
Apart == ~crowded => \A u, v \in Waits : pc[u] = "in" /\ pc[v] = "in" => u = v

\* Whoever is about to send has found nothing, and nothing can have come since.
ClearToSend ==
    ~crowded => \A w \in Waits : pc[w] = "in" =>
        /\ at[w] \in {"recheck", "checkpoint"} => file = NoFile
        /\ at[w] = "post" => Quiet

\* A request has a sender that knows of it, and "created" is said of one's own.
Made_By(w) == replies # <<>> /\ replies[1] = w
Owned == \A w \in Waits :
    w \in flying \/ Made_By(w) => at[w] = "sent" \/ created[w] # "no"
Created == ~crowded => \A w \in Waits : created[w] = "yes" => Made_By(w)

\* What was verified stays so.
Receipts ==
    ~crowded => \A w \in Waits :
        at[w] \in {"confirm", "final"} \/ answer[w] = "satisfied" => Verified(w)
Checkpointed ==
    ~crowded /\ file.phase = "confirmed" =>
        Len(replies) = 1 /\ Body[replies[1]] = file.body

\* A head that was left is not come back to.
HeadLeft == \A w \in Waits :
    /\ off[w] => head = "other"
    /\ at[w] \in {"checkpoint", "post", "sent"} => ~off[w]

Sending == AtMostOne /\ Unrecorded /\ Outside /\ Apart /\ ClearToSend
Receiving == Owned /\ Created /\ Receipts /\ Checkpointed
ReplyInv == ReplyTypeOK /\ LockInv /\ Sending /\ Receiving /\ HeadLeft

LEMMA One ==
    ASSUME NEW u \in Waits
    PROVE  /\ Append(<<>>, u) = <<u>> /\ <<u>> \in Seq(Waits)
           /\ Len(<<u>>) = 1 /\ <<u>>[1] = u /\ <<u>> # <<>> /\ DOMAIN <<u>> = {1}
OBVIOUS

LEMMA Records ==
    ASSUME NEW w \in Waits
    PROVE  /\ Posting(w) \in Files /\ Confirmed(w) \in Files
           /\ Posting(w) # NoFile /\ Confirmed(w) # NoFile
           /\ Posting(w).phase = "posting" /\ NoFile.phase = None
           /\ Confirmed(w).phase = "confirmed" /\ Confirmed(w).body = Body[w]
BY DEF Files, Posting, Confirmed, NoFile, None

LEMMA InitInv == ReplyInit => ReplyInv
<1> SUFFICES ASSUME ReplyInit PROVE ReplyInv
  OBVIOUS
<1>1. LockInv
  BY LockInit DEF ReplyInit
<1>2. ReplyTypeOK
  <2>1. TypeOK /\ replies \in Seq(Waits) /\ flying \subseteq Waits
    BY <1>1 DEF LockInv, ReplyInit
  <2>2. \A w \in Waits : at[w] = "head" /\ answer[w] = "none"
    BY DEF ReplyInit
  <2> QED
    BY <2>1, <2>2 DEF ReplyInit, ReplyTypeOK
<1>3. Sending
  BY DEF ReplyInit, Init, Sending, AtMostOne, Quiet, Unrecorded, Outside, Apart, ClearToSend
<1>4. Receiving
  BY DEF ReplyInit, Receiving, Owned, Made_By, Created, Receipts, Checkpointed, NoFile, None
<1>5. HeadLeft
  BY DEF ReplyInit, HeadLeft
<1> QED
  BY <1>1, <1>2, <1>3, <1>4, <1>5 DEF ReplyInv

LEMMA PushInv ==
    ASSUME ReplyInv, Push
    PROVE  ReplyInv'
<1> USE DEF ReplyInv, Sending, Receiving
<1>1. LockInv'
  BY DEF Push, Beside, LockInv, TypeOK, MakerPresent, HolderNamed, TriesLeft, NoneDead, lockVars
<1>2. ReplyTypeOK'
  BY <1>1 DEF Push, Beside, ReplyTypeOK, LockInv, lockVars
<1>3. Sending'
  BY DEF Push, Beside, ReplyTypeOK, lockVars,
     AtMostOne, Unrecorded, Outside, Apart, ClearToSend, Quiet, UnderWay, Made
<1>4. Receiving'
  BY DEF Push, Beside, ReplyTypeOK, lockVars,
     Owned, Made_By, Created, Receipts, Checkpointed, Verified
<1>5. HeadLeft'
  BY DEF Push, Beside, HeadLeft, ReplyTypeOK
<1> QED
  BY <1>1, <1>2, <1>3, <1>4, <1>5

LEMMA ArriveInv ==
    ASSUME ReplyInv, NEW w \in Waits, Arrive(w)
    PROVE  ReplyInv'
<1> USE DEF ReplyInv, Sending, Receiving
<1>1. LockInv'
  BY DEF Arrive, Beside, LockInv, TypeOK, MakerPresent, HolderNamed, TriesLeft, NoneDead, lockVars
<1>2. ~crowded => replies = <<>> /\ flying = {w} /\ replies' = <<w>> /\ flying' = {}
  BY One DEF Arrive, AtMostOne, Quiet, UnderWay, Made
<1>3. ReplyTypeOK'
  BY <1>1 DEF Arrive, Beside, ReplyTypeOK, LockInv, lockVars
<1>4. Sending'
  <2>1. AtMostOne'
    BY <1>2 DEF Arrive, Beside, AtMostOne, Made
  <2>2. Unrecorded' /\ Outside' /\ Apart'
    BY DEF Arrive, Beside, lockVars, Unrecorded, Outside, Apart, Quiet
  <2>3. ClearToSend'
    BY DEF Arrive, Beside, lockVars, ClearToSend, Quiet
  <2> QED
    BY <2>1, <2>2, <2>3
<1>5. Receiving'
  <2>1. Owned'
    BY DEF Arrive, Beside, Owned, Made_By, ReplyTypeOK
  <2>2. Created' /\ Receipts' /\ Checkpointed'
    BY <1>2, One DEF Arrive, Beside, Created, Made_By, Receipts, Verified, Checkpointed
  <2> QED
    BY <2>1, <2>2
<1>6. HeadLeft'
  BY DEF Arrive, Beside, HeadLeft
<1> QED
  BY <1>1, <1>3, <1>4, <1>5, <1>6

LEMMA VanishInv ==
    ASSUME ReplyInv, NEW w \in Waits, Vanish(w)
    PROVE  ReplyInv'
<1> USE DEF ReplyInv, Sending, Receiving
<1>1. LockInv'
  BY DEF Vanish, Beside, LockInv, TypeOK, MakerPresent, HolderNamed, TriesLeft, NoneDead, lockVars
<1>2. ReplyTypeOK'
  BY <1>1 DEF Vanish, Beside, ReplyTypeOK, LockInv, lockVars
<1>3. Sending'
  BY DEF Vanish, Beside, ReplyTypeOK, lockVars,
     AtMostOne, Unrecorded, Outside, Apart, ClearToSend, Quiet, UnderWay, Made
<1>4. Receiving'
  BY DEF Vanish, Beside, ReplyTypeOK, lockVars,
     Owned, Made_By, Created, Receipts, Checkpointed, Verified
<1>5. HeadLeft'
  BY DEF Vanish, Beside, HeadLeft, ReplyTypeOK
<1> QED
  BY <1>1, <1>2, <1>3, <1>4, <1>5

LEMMA ReadHeadInv ==
    ASSUME ReplyInv, NEW w \in Waits, ReadHead(w)
    PROVE  ReplyInv'
<1> USE DEF ReplyInv, Sending, Receiving
<1>1. LockInv'
  BY DEF ReadHead, Inner, Works, To, github, Done, LockInv, TypeOK, MakerPresent, HolderNamed, TriesLeft, NoneDead, lockVars
<1>2. ReplyTypeOK'
  BY <1>1 DEF ReadHead, Inner, Works, To, github, Done, ReplyTypeOK, LockInv, lockVars
<1>3. Sending'
  BY DEF ReadHead, Inner, Works, To, github, Done, ReplyTypeOK, lockVars,
     AtMostOne, Unrecorded, Outside, Apart, ClearToSend, Quiet, UnderWay, Made
<1>4. Receiving'
  BY DEF ReadHead, Inner, Works, To, github, Done, ReplyTypeOK, lockVars,
     Owned, Made_By, Created, Receipts, Checkpointed, Verified
<1>5. HeadLeft'
  BY DEF ReadHead, Inner, Works, To, github, Done, HeadLeft, ReplyTypeOK
<1> QED
  BY <1>1, <1>2, <1>3, <1>4, <1>5

LEMMA LoadInv ==
    ASSUME ReplyInv, NEW w \in Waits, Load(w)
    PROVE  ReplyInv'
<1> USE DEF ReplyInv, Sending, Receiving
<1>1. LockInv'
  BY DEF Load, Inner, Works, To, github, Done, LockInv, TypeOK, MakerPresent, HolderNamed, TriesLeft, NoneDead, lockVars
<1>2. ReplyTypeOK'
  BY <1>1 DEF Load, Inner, Works, To, github, Done, ReplyTypeOK, LockInv, lockVars
<1>3. Sending'
  BY DEF Load, Inner, Works, To, github, Done, ReplyTypeOK, lockVars,
     AtMostOne, Unrecorded, Outside, Apart, ClearToSend, Quiet, UnderWay, Made
<1>4. Receiving'
  BY DEF Load, Inner, Works, To, github, Done, ReplyTypeOK, lockVars,
     Owned, Made_By, Created, Receipts, Checkpointed, Verified
<1>5. HeadLeft'
  BY DEF Load, Inner, Works, To, github, Done, HeadLeft, ReplyTypeOK
<1> QED
  BY <1>1, <1>2, <1>3, <1>4, <1>5

LEMMA DiscoverInv ==
    ASSUME ReplyInv, NEW w \in Waits, Discover(w)
    PROVE  ReplyInv'
<1> USE DEF ReplyInv, Sending, Receiving
<1>1. LockInv'
  BY DEF Discover, Inner, Works, To, github, Done, Prior, Verified, LockInv, TypeOK, MakerPresent, HolderNamed, TriesLeft, NoneDead, lockVars
<1>2. ReplyTypeOK'
  BY <1>1 DEF Discover, Inner, Works, To, github, Done, Prior, Verified, ReplyTypeOK, LockInv, lockVars
<1>3. Sending'
  BY DEF Discover, Inner, Works, To, github, Done, Prior, Verified, ReplyTypeOK, lockVars,
     AtMostOne, Unrecorded, Outside, Apart, ClearToSend, Quiet, UnderWay, Made
<1>4. Receiving'
  BY DEF Discover, Inner, Works, To, github, Done, Prior, Verified, ReplyTypeOK, lockVars,
     Owned, Made_By, Created, Receipts, Checkpointed, Verified
<1>5. HeadLeft'
  BY DEF Discover, Inner, Works, To, github, Done, Prior, Verified, HeadLeft, ReplyTypeOK
<1> QED
  BY <1>1, <1>2, <1>3, <1>4, <1>5

LEMMA RecheckInv ==
    ASSUME ReplyInv, NEW w \in Waits, Recheck(w)
    PROVE  ReplyInv'
<1> USE DEF ReplyInv, Sending, Receiving
<1>1. LockInv'
  BY DEF Recheck, Inner, Works, To, github, Done, Current, LockInv, TypeOK, MakerPresent, HolderNamed, TriesLeft, NoneDead, lockVars
<1>2. ReplyTypeOK'
  BY <1>1 DEF Recheck, Inner, Works, To, github, Done, Current, ReplyTypeOK, LockInv, lockVars
<1>3. Sending'
  BY DEF Recheck, Inner, Works, To, github, Done, Current, ReplyTypeOK, lockVars,
     AtMostOne, Unrecorded, Outside, Apart, ClearToSend, Quiet, UnderWay, Made
<1>4. Receiving'
  BY DEF Recheck, Inner, Works, To, github, Done, Current, ReplyTypeOK, lockVars,
     Owned, Made_By, Created, Receipts, Checkpointed, Verified
<1>5. HeadLeft'
  BY DEF Recheck, Inner, Works, To, github, Done, Current, HeadLeft, ReplyTypeOK
<1> QED
  BY <1>1, <1>2, <1>3, <1>4, <1>5

LEMMA CheckpointInv ==
    ASSUME ReplyInv, NEW w \in Waits, Checkpoint(w)
    PROVE  ReplyInv'
<1> USE DEF ReplyInv, Sending, Receiving
<1>1. LockInv'
  BY DEF Checkpoint, Inner, Works, To, github, Recorded, LockInv, TypeOK, MakerPresent, HolderNamed, TriesLeft, NoneDead, lockVars
<1>2. ReplyTypeOK'
  BY <1>1, Records DEF Checkpoint, Inner, Works, To, github, Recorded, ReplyTypeOK, LockInv, lockVars
<1>3. Sending'
  BY Records DEF Checkpoint, Inner, Works, To, github, Recorded, ReplyTypeOK, lockVars,
     AtMostOne, Unrecorded, Outside, Apart, ClearToSend, Quiet, UnderWay, Made
<1>4. Receiving'
  BY Records DEF Checkpoint, Inner, Works, To, github, Recorded, ReplyTypeOK, lockVars,
     Owned, Made_By, Created, Receipts, Checkpointed, Verified
<1>5. HeadLeft'
  BY DEF Checkpoint, Inner, Works, To, github, Recorded, HeadLeft, ReplyTypeOK
<1> QED
  BY <1>1, <1>2, <1>3, <1>4, <1>5

LEMMA PostInv ==
    ASSUME ReplyInv, NEW w \in Waits, Post(w)
    PROVE  ReplyInv'
<1> USE DEF ReplyInv, Sending, Receiving
<1>1. LockInv'
  BY DEF Post, Inner, Works, To, github, LockInv, TypeOK, MakerPresent, HolderNamed, TriesLeft, NoneDead, lockVars
<1>2. ReplyTypeOK'
  BY <1>1 DEF Post, Inner, Works, To, github, ReplyTypeOK, LockInv, lockVars
<1>3. Sending'
  BY DEF Post, Inner, Works, To, github, ReplyTypeOK, lockVars,
     AtMostOne, Unrecorded, Outside, Apart, ClearToSend, Quiet, UnderWay, Made
<1>4. Receiving'
  BY DEF Post, Inner, Works, To, github, ReplyTypeOK, lockVars,
     Owned, Made_By, Created, Receipts, Checkpointed, Verified
<1>5. HeadLeft'
  BY DEF Post, Inner, Works, To, github, HeadLeft, ReplyTypeOK
<1> QED
  BY <1>1, <1>2, <1>3, <1>4, <1>5

LEMMA AnsweredInv ==
    ASSUME ReplyInv, NEW w \in Waits, Answered(w)
    PROVE  ReplyInv'
<1> USE DEF ReplyInv, Sending, Receiving
<1>1. LockInv'
  BY DEF Answered, Inner, Works, To, github, Sent, LockInv, TypeOK, MakerPresent, HolderNamed, TriesLeft, NoneDead, lockVars
<1>2. ReplyTypeOK'
  BY <1>1, Records DEF Answered, Inner, Works, To, github, Sent, ReplyTypeOK, LockInv, lockVars
<1>3. Sending'
  BY Records DEF Answered, Inner, Works, To, github, Sent, ReplyTypeOK, lockVars,
     AtMostOne, Unrecorded, Outside, Apart, ClearToSend, Quiet, UnderWay, Made
<1>4. ~crowded => Made_By(w)
  <2>1. ASSUME ~crowded PROVE \E u \in Waits : replies = <<u>>
    BY <2>1 DEF Answered, AtMostOne, Quiet, UnderWay, Made
  <2> QED
    BY <2>1, One DEF Answered, Made_By
<1>5. Receiving'
  BY <1>4, Records DEF Answered, Inner, Works, To, github, Sent, ReplyTypeOK, lockVars,
     Owned, Made_By, Created, Receipts, Checkpointed, Verified
<1>6. HeadLeft'
  BY DEF Answered, Inner, Works, To, github, Sent, HeadLeft, ReplyTypeOK
<1> QED
  BY <1>1, <1>2, <1>3, <1>5, <1>6

LEMMA PostFailsInv ==
    ASSUME ReplyInv, NEW w \in Waits, PostFails(w)
    PROVE  ReplyInv'
<1> USE DEF ReplyInv, Sending, Receiving
<1>1. LockInv'
  BY DEF PostFails, Inner, Works, To, github, Sent, LockInv, TypeOK, MakerPresent, HolderNamed, TriesLeft, NoneDead, lockVars
<1>2. ReplyTypeOK'
  BY <1>1, Records DEF PostFails, Inner, Works, To, github, Sent, ReplyTypeOK, LockInv, lockVars
<1>3. Sending'
  BY Records DEF PostFails, Inner, Works, To, github, Sent, ReplyTypeOK, lockVars,
     AtMostOne, Unrecorded, Outside, Apart, ClearToSend, Quiet, UnderWay, Made
<1>4. Receiving'
  BY Records DEF PostFails, Inner, Works, To, github, Sent, ReplyTypeOK, lockVars,
     Owned, Made_By, Created, Receipts, Checkpointed, Verified
<1>5. HeadLeft'
  BY DEF PostFails, Inner, Works, To, github, Sent, HeadLeft, ReplyTypeOK
<1> QED
  BY <1>1, <1>2, <1>3, <1>4, <1>5

LEMMA VerifyInv ==
    ASSUME ReplyInv, NEW w \in Waits, Verify(w)
    PROVE  ReplyInv'
<1> USE DEF ReplyInv, Sending, Receiving
<1>1. LockInv'
  BY DEF Verify, Inner, Works, To, github, Done, Receipt, LockInv, TypeOK, MakerPresent, HolderNamed, TriesLeft, NoneDead, lockVars
<1>2. ReplyTypeOK'
  BY <1>1 DEF Verify, Inner, Works, To, github, Done, Receipt, ReplyTypeOK, LockInv, lockVars
<1>3. Sending'
  BY DEF Verify, Inner, Works, To, github, Done, Receipt, ReplyTypeOK, lockVars,
     AtMostOne, Unrecorded, Outside, Apart, ClearToSend, Quiet, UnderWay, Made
<1>4. Receiving'
  BY DEF Verify, Inner, Works, To, github, Done, Receipt, ReplyTypeOK, lockVars,
     Owned, Made_By, Created, Receipts, Checkpointed, Verified
<1>5. HeadLeft'
  BY DEF Verify, Inner, Works, To, github, Done, Receipt, HeadLeft, ReplyTypeOK
<1> QED
  BY <1>1, <1>2, <1>3, <1>4, <1>5

LEMMA ConfirmInv ==
    ASSUME ReplyInv, NEW w \in Waits, Confirm(w)
    PROVE  ReplyInv'
<1> USE DEF ReplyInv, Sending, Receiving
<1>1. LockInv'
  BY DEF Confirm, Inner, Works, To, github, LockInv, TypeOK, MakerPresent, HolderNamed, TriesLeft, NoneDead, lockVars
<1>2. ReplyTypeOK'
  BY <1>1, Records DEF Confirm, Inner, Works, To, github, ReplyTypeOK, LockInv, lockVars
<1>3. Sending'
  BY Records DEF Confirm, Inner, Works, To, github, ReplyTypeOK, lockVars,
     AtMostOne, Unrecorded, Outside, Apart, ClearToSend, Quiet, UnderWay, Made
<1>4. Receiving'
  BY Records DEF Confirm, Inner, Works, To, github, ReplyTypeOK, lockVars,
     Owned, Made_By, Created, Receipts, Checkpointed, Verified
<1>5. HeadLeft'
  BY DEF Confirm, Inner, Works, To, github, HeadLeft, ReplyTypeOK
<1> QED
  BY <1>1, <1>2, <1>3, <1>4, <1>5

LEMMA FinalInv ==
    ASSUME ReplyInv, NEW w \in Waits, Final(w)
    PROVE  ReplyInv'
<1> USE DEF ReplyInv, Sending, Receiving
<1>1. LockInv'
  BY DEF Final, Inner, Works, To, github, Done, LockInv, TypeOK, MakerPresent, HolderNamed, TriesLeft, NoneDead, lockVars
<1>2. ReplyTypeOK'
  BY <1>1 DEF Final, Inner, Works, To, github, Done, ReplyTypeOK, LockInv, lockVars
<1>3. Sending'
  BY DEF Final, Inner, Works, To, github, Done, ReplyTypeOK, lockVars,
     AtMostOne, Unrecorded, Outside, Apart, ClearToSend, Quiet, UnderWay, Made
<1>4. Receiving'
  BY DEF Final, Inner, Works, To, github, Done, ReplyTypeOK, lockVars,
     Owned, Made_By, Created, Receipts, Checkpointed, Verified
<1>5. HeadLeft'
  BY DEF Final, Inner, Works, To, github, Done, HeadLeft, ReplyTypeOK
<1> QED
  BY <1>1, <1>2, <1>3, <1>4, <1>5

LEMMA ReadFailsInv ==
    ASSUME ReplyInv, NEW w \in Waits, ReadFails(w)
    PROVE  ReplyInv'
<1> USE DEF ReplyInv, Sending, Receiving
<1>1. LockInv'
  BY DEF ReadFails, Inner, Works, To, github, Done, LockInv, TypeOK, MakerPresent, HolderNamed, TriesLeft, NoneDead, lockVars
<1>2. ReplyTypeOK'
  BY <1>1 DEF ReadFails, Inner, Works, To, github, Done, ReplyTypeOK, LockInv, lockVars
<1>3. Sending'
  BY DEF ReadFails, Inner, Works, To, github, Done, ReplyTypeOK, lockVars,
     AtMostOne, Unrecorded, Outside, Apart, ClearToSend, Quiet, UnderWay, Made
<1>4. Receiving'
  BY DEF ReadFails, Inner, Works, To, github, Done, ReplyTypeOK, lockVars,
     Owned, Made_By, Created, Receipts, Checkpointed, Verified
<1>5. HeadLeft'
  BY DEF ReadFails, Inner, Works, To, github, Done, HeadLeft, ReplyTypeOK
<1> QED
  BY <1>1, <1>2, <1>3, <1>4, <1>5

LEMMA LockingInv ==
    ASSUME ReplyInv, NEW w \in Waits, Locking(w)
    PROVE  ReplyInv'
<1> USE DEF ReplyInv, Sending, Receiving
<1>1. LockInv'
  BY LockStep DEF Locking
<1>2. ReplyTypeOK'
  BY <1>1 DEF Locking, github, ReplyTypeOK, LockInv
<1>3. Outside'
  <2>1. ASSUME NEW u \in Waits, u # w PROVE pc'[u] = pc[u]
    BY <2>1 DEF Locking, LockInv, TypeOK, Step, Create, WriteOwner, Exists, Read, OwnerExists,
       Reread, Unlink, GiveUp, Leave, Remove, Die, Again, Go
  <2>2. pc[w] \in {"in", "leave", "out", "dead"} => pc'[w] \in {"in", "leave", "out", "dead"}
    BY DEF Locking, LockInv, TypeOK, Step, Create, WriteOwner, Exists, Read, OwnerExists,
       Reread, Unlink, GiveUp, Leave, Remove, Die, Again, Go
  <2> QED
    BY <2>1, <2>2 DEF Outside, Locking
<1>4. Apart'
  BY DEF Apart, Locking
<1>5. ClearToSend'
  <2>1. ASSUME NEW u \in Waits, pc'[u] = "in", pc[u] # "in" PROVE at[u] = "head"
    BY <2>1 DEF Outside, Locking, LockInv, TypeOK, Step, Create, WriteOwner, Exists, Read,
       OwnerExists, Reread, Unlink, GiveUp, Leave, Remove, Die, Again, Go
  <2> QED
    BY <2>1 DEF ClearToSend, Locking, github, Quiet
<1>6. AtMostOne' /\ Unrecorded'
  BY DEF Locking, github, AtMostOne, Unrecorded, Quiet, UnderWay, Made
<1>7. Receiving' /\ HeadLeft'
  BY DEF Locking, github, Owned, Made_By, Created, Receipts, Checkpointed, Verified, HeadLeft
<1> QED
  BY <1>1, <1>2, <1>3, <1>4, <1>5, <1>6, <1>7

-----------------------------------------------------------------------------
(* The theorems. *)

\* The invariant holds in every reachable state.
THEOREM InductiveInvariant == ReplySpec => []ReplyInv
<1>1. ReplyInit => ReplyInv
  BY InitInv
<1>2. ReplyInv /\ [ReplyNext]_allVars => ReplyInv'
  <2> SUFFICES ASSUME ReplyInv, [ReplyNext]_allVars PROVE ReplyInv'
    OBVIOUS
  <2>1. CASE Push
    BY <2>1, PushInv
  <2>2. ASSUME NEW w \in Waits, Arrive(w) \/ Vanish(w) \/ Locking(w) PROVE ReplyInv'
    BY <2>2, ArriveInv, VanishInv, LockingInv
  <2>3. ASSUME NEW w \in Waits, Reply(w) PROVE ReplyInv'
    BY <2>3, ReadHeadInv, LoadInv, DiscoverInv, RecheckInv, CheckpointInv, PostInv, AnsweredInv,
       PostFailsInv, VerifyInv, ConfirmInv, FinalInv, ReadFailsInv DEF Reply
  <2>4. CASE UNCHANGED allVars
    <3> USE <2>4 DEF allVars, lockVars, github, ReplyInv
    <3>1. LockInv'
      BY DEF LockInv, TypeOK, MakerPresent, HolderNamed, NoneDead, TriesLeft
    <3>2. ReplyTypeOK'
      BY <3>1 DEF LockInv, ReplyTypeOK
    <3>3. Sending'
      BY DEF Sending, AtMostOne, Unrecorded, Outside, Apart, ClearToSend, Quiet, UnderWay, Made
    <3>4. Receiving' /\ HeadLeft'
      BY DEF Receiving, Owned, Made_By, Created, Receipts, Checkpointed, Verified, HeadLeft
    <3> QED
      BY <3>1, <3>2, <3>3, <3>4
  <2> QED
    BY <2>1, <2>2, <2>3, <2>4 DEF ReplyNext
<1> QED
  BY <1>1, <1>2, PTL DEF ReplySpec

\* The state keeps its types.
THEOREM TypeInvariant == ReplySpec => []ReplyTypeOK
<1>1. ReplyInv => ReplyTypeOK
  BY DEF ReplyInv
<1> QED
  BY <1>1, InductiveInvariant, PTL

\* An operation replies at most once while the lock keeps its invocations apart.
THEOREM AtMostOneReply == ReplySpec => []RepliesOnce
<1>1. ReplyInv => RepliesOnce
  <2> SUFFICES ASSUME ReplyInv, ~crowded
               PROVE  Len(replies) + Cardinality(flying) <= 1
    BY DEF RepliesOnce
  <2>1. Len(<<>>) = 0
    OBVIOUS
  <2>2. Cardinality({}) = 0 /\ \A u \in Waits : Cardinality({u}) = 1
    BY FS_EmptySet, FS_Singleton
  <2>3. CASE Quiet
    BY <2>1, <2>2, <2>3 DEF Quiet
  <2>4. CASE UnderWay
    BY <2>1, <2>2, <2>4 DEF UnderWay
  <2>5. CASE Made
    BY <2>2, <2>5, One DEF Made
  <2> QED
    BY <2>3, <2>4, <2>5 DEF ReplyInv, Sending, AtMostOne
<1> QED
  BY <1>1, InductiveInvariant, PTL

\* What is said of a reply is so.
THEOREM ReceiptsAreTrue == ReplySpec => []ReceiptTrue
<1>1. ReplyInv => ReceiptTrue
  BY DEF ReplyInv, ReplyTypeOK, Receiving, Owned, Made_By, Created, Receipts, Verified,
     Checkpointed, ReceiptTrue
<1> QED
  BY <1>1, InductiveInvariant, PTL

\* Nothing is sent for a head that was already left.
THEOREM NeverSentStale == ReplySpec => []NothingSentStale
<1>1. ReplyInv => NothingSentStale
  BY DEF ReplyInv, HeadLeft, NothingSentStale
<1> QED
  BY <1>1, InductiveInvariant, PTL

\* Only a death can let two inside the lock.
THEOREM ApartUnlessDead == ReplySpec => []HeldApart
<1>1. ReplyInit => HeldApart
  BY DEF ReplyInit, HeldApart
<1>2. ReplyInv /\ ReplyInv' /\ HeldApart /\ [ReplyNext]_allVars => HeldApart'
  <2> SUFFICES ASSUME ReplyInv, ReplyInv', HeldApart, [ReplyNext]_allVars PROVE HeldApart'
    OBVIOUS
  <2>1. ASSUME NEW w \in Waits, Locking(w) PROVE HeldApart'
    <3>1. NoneDead' => \A u, v \in Waits : pc'[u] = "in" /\ pc'[v] = "in" => u = v
      BY DEF ReplyInv, LockInv, HolderNamed, File
    <3>2. NoneDead' => NoneDead
      BY <2>1 DEF NoneDead, Locking, ReplyInv, LockInv, TypeOK, Step, Create, WriteOwner, Exists,
         Read, OwnerExists, Reread, Unlink, GiveUp, Leave, Remove, Die, Again, Go
    <3> QED
      BY <2>1, <3>1, <3>2 DEF HeldApart, NoneDead, Locking
  <2>2. ASSUME UNCHANGED <<lockVars, crowded>> PROVE HeldApart'
    BY <2>2 DEF HeldApart, lockVars
  <2>3. ASSUME NEW w \in Waits, Reply(w) PROVE UNCHANGED <<lockVars, crowded>>
    BY <2>3 DEF Reply, ReadHead, Load, Discover, Recheck, Checkpoint, Post, Answered, PostFails,
       Sent, Verify, Confirm, Final, ReadFails, Inner
  <2> QED
    BY <2>1, <2>2, <2>3 DEF ReplyNext, Push, Arrive, Vanish, Beside, allVars
<1> QED
  BY <1>1, <1>2, InductiveInvariant, PTL DEF ReplySpec

-----------------------------------------------------------------------------
(* Refusals.  Who refuses is there until a second one dies: it made the lock, *)
(* or it removed the one that the first left when it died.                   *)

TwoDead == \E u, v \in Waits : u # v /\ pc[u] = "dead" /\ pc[v] = "dead"

\* Somebody got the lock, and lives.
Settled == \E v \in Waits : pc[v] \in {"blank", "in", "leave", "out"}
Lasting == Settled /\ (~NoneDead \/ \E v \in Waits : pc[v] = "out")

\* Nobody has come to the lock yet.
Fresh == lock = Absent /\ \A w \in Waits :
    pc[w] # "dead" => pc[w] = "start" /\ tries[w] = Attempts

\* The first to come is still there, and all the others found its lock.
First == NoneDead /\ Settled /\ \A w \in Waits :
    /\ pc[w] # "out" /\ tries[w] = Attempts
    /\ pc[w] = "stale" => lock = File(seen[w], TRUE)

\* It died, and left its lock ...
Waiting(w) == pc[w] \in {"start", "read", "stale", "unlink"}
Abandoned == \E d \in Waits :
    /\ pc[d] = "dead" /\ lock \in {File(d, FALSE), File(d, TRUE)}
    /\ \A w \in Waits :
         /\ Waiting(w) \/ pc[w] \in {"refused", "dead"}
         /\ Waiting(w) => tries[w] = Attempts
         /\ pc[w] \in {"stale", "unlink"} => lock = File(seen[w], TRUE)

\* ... which was removed by one that is about to try again.
Cleared == \E d, v \in Waits :
    /\ pc[d] = "dead" /\ lock = Absent /\ pc[v] = "start" /\ tries[v] = 1
    /\ \A w \in Waits :
         /\ Waiting(w) \/ pc[w] \in {"refused", "dead"}
         /\ Waiting(w) => tries[w] \in {1, Attempts}
         /\ pc[w] \in {"read", "stale", "unlink"} => tries[w] = Attempts
         /\ pc[w] \in {"stale", "unlink"} => seen[w] = d

RefusalInv == TwoDead \/ Fresh \/ First \/ Lasting \/ Abandoned \/ Cleared

LEMMA RefusalInit == Init => RefusalInv
BY DEF Init, RefusalInv, Fresh, Absent, File, None

LEMMA SettledStays ==
    ASSUME LockInv, NEW w \in Waits, Step(w) \/ Die(w), Lasting
    PROVE  TwoDead' \/ Lasting'
<1> USE DEF LockInv, TypeOK, Go, Again
<1>1. PICK v \in Waits : pc[v] \in {"blank", "in", "leave", "out"}
  BY DEF Lasting, Settled
<1>2. CASE Step(w)
  <2>1. /\ \A u \in Waits : pc[u] \in {"out", "dead"} => pc'[u] = pc[u]
        /\ \A u \in Waits : pc[u] \in {"blank", "in", "leave", "out"} =>
                            pc'[u] \in {"blank", "in", "leave", "out"}
    BY <1>2 DEF Step, Create, WriteOwner, Exists, Read, OwnerExists, Reread, Unlink, GiveUp,
       Leave, Remove
  <2> QED
    BY <1>1, <2>1 DEF Lasting, Settled, NoneDead
<1>3. CASE Die(w)
  <2>1. pc[w] \notin Ended /\ pc'[w] = "dead" /\ \A u \in Waits \ {w} : pc'[u] = pc[u]
    BY <1>3 DEF Die
  <2>2. CASE NoneDead
    <3>1. PICK o \in Waits : pc[o] = "out"
      BY <2>2 DEF Lasting
    <3> QED
      BY <2>1, <3>1 DEF Lasting, Settled, NoneDead, Ended
  <2>3. CASE ~NoneDead
    <3>1. PICK d \in Waits : pc[d] = "dead"
      BY <2>3 DEF NoneDead
    <3> QED
      BY <2>1, <3>1 DEF TwoDead, Ended
  <2> QED
    BY <2>2, <2>3
<1> QED
  BY <1>2, <1>3

LEMMA FreshStep ==
    ASSUME LockInv, NEW w \in Waits, Step(w) \/ Die(w), Fresh
    PROVE  Fresh' \/ First' \/ Lasting'
<1> USE DEF LockInv, TypeOK, Go
<1>1. CASE Create(w)
  <2>1. /\ pc[w] = "start" /\ pc'[w] = "blank" /\ tries' = tries
        /\ \A u \in Waits \ {w} : pc'[u] = pc[u]
    BY <1>1 DEF Create
  <2>2. CASE NoneDead
    <3>1. \A u \in Waits : pc[u] = "start" /\ tries[u] = Attempts
      BY <2>2 DEF Fresh, NoneDead
    <3>2. First'
      BY <2>1, <3>1 DEF First, NoneDead, Settled
    <3> QED
      BY <3>2
  <2>3. CASE ~NoneDead
    BY <2>1, <2>3 DEF Lasting, Settled, NoneDead
  <2> QED
    BY <2>2, <2>3
<1>2. CASE Die(w)
  BY <1>2 DEF Die, Fresh
<1>3. pc[w] # "start" => pc[w] = "dead"
  BY DEF Fresh
<1>4. CASE Step(w) /\ ~Create(w)
  <2>1. Exists(w) \/ GiveUp(w)
    BY <1>3, <1>4 DEF Step, WriteOwner, Read, OwnerExists, Reread, Unlink, Leave, Remove
  <2>2. ~Exists(w)
    BY DEF Exists, Fresh
  <2>3. pc[w] = "start" => tries[w] = 2
    BY DEF Fresh, Attempts
  <2>4. ~GiveUp(w)
    BY <2>3 DEF GiveUp
  <2> QED
    BY <2>1, <2>2, <2>4
<1> QED
  BY <1>1, <1>2, <1>4

LEMMA FirstStep ==
    ASSUME LockInv, NEW w \in Waits, Step(w) \/ Die(w), First
    PROVE  First' \/ Lasting' \/ Abandoned'
<1> USE DEF LockInv, TypeOK, Go
<1>1. PICK v \in Waits : pc[v] \in {"blank", "in", "leave"}
  BY DEF First, Settled
<1>2. /\ lock \in {File(v, FALSE), File(v, TRUE)} /\ lock # Absent
      /\ \A u \in Waits : pc[u] \in {"blank", "in", "leave"} => u = v
  BY <1>1, LockAssumption DEF HolderNamed, First, File, Absent, None
<1>3. CASE Die(w)
  <2>1. pc[w] \notin Ended /\ pc'[w] = "dead" /\ UNCHANGED <<lock, seen, tries>>
        /\ \A u \in Waits \ {w} : pc'[u] = pc[u]
    BY <1>3 DEF Die
  <2>2. CASE w = v
    <3>1. \A u \in Waits \ {w} : Waiting(u) \/ pc[u] = "refused"
      BY <1>2, <2>2 DEF First, NoneDead, Waiting, Ended
    <3>2. \A u \in Waits : (pc[u] \in {"stale", "unlink"} => lock = File(seen[u], TRUE))
                           /\ tries[u] = Attempts
      BY DEF First, HolderNamed
    <3>3. Abandoned'
      BY <1>2, <2>1, <2>2, <3>1, <3>2 DEF Abandoned, Waiting
    <3> QED
      BY <3>3
  <2>3. CASE w # v
    BY <1>1, <2>1, <2>3 DEF Lasting, Settled, NoneDead
  <2> QED
    BY <2>2, <2>3
<1>4. CASE Remove(w)
  BY <1>4 DEF Remove, Lasting, Settled
<1>5. ASSUME pc' \in [Waits -> Ended \union
                {"start", "blank", "in", "read", "stale", "unlink", "leave"}],
             \A u \in Waits \ {w} : pc'[u] = pc[u],
             pc'[w] \notin {"out", "dead"}, tries' = tries,
             pc[w] \in {"blank", "in", "leave"} => pc'[w] \in {"blank", "in", "leave"}
      PROVE  NoneDead' /\ Settled' /\ \A u \in Waits : pc'[u] # "out" /\ tries'[u] = Attempts
  BY <1>1, <1>5 DEF First, NoneDead, Settled
<1>6. CASE Create(w)
  BY <1>2, <1>6 DEF Create, Creatable
<1>7. CASE WriteOwner(w)
  <2>1. w = v /\ lock = File(w, FALSE)
    BY <1>2, <1>7 DEF WriteOwner, HolderNamed, First
  <2>2. \A u \in Waits : pc[u] # "stale"
    BY <2>1 DEF First, File
  <2> QED
    BY <1>5, <1>7, <2>2 DEF WriteOwner, First
<1>8. CASE Exists(w)
  BY <1>5, <1>8 DEF Exists, First
<1>9. CASE Read(w)
  <2>1. lock \notin Blank => lock = File(lock.maker, TRUE)
    BY <1>2 DEF Blank, File
  <2>2. /\ NoneDead' /\ Settled'
        /\ \A u \in Waits : pc'[u] # "out" /\ tries'[u] = Attempts
    BY <1>5, <1>9 DEF Read, Ended
  <2>3. \A u \in Waits : pc'[u] = "stale" => lock' = File(seen'[u], TRUE)
    <3> SUFFICES ASSUME NEW u \in Waits, pc'[u] = "stale" PROVE lock' = File(seen'[u], TRUE)
      OBVIOUS
    <3>1. CASE u = w
      BY <1>9, <2>1, <3>1 DEF Read
    <3>2. CASE u # w
      BY <1>9, <3>2 DEF Read, First
    <3> QED
      BY <3>1, <3>2
  <2> QED
    BY <2>2, <2>3 DEF First
<1>10. CASE OwnerExists(w)
  <2>1. /\ NoneDead' /\ Settled'
        /\ \A u \in Waits : pc'[u] # "out" /\ tries'[u] = Attempts
    BY <1>5, <1>10 DEF OwnerExists, Ended
  <2>2. \A u \in Waits : pc'[u] = "stale" => lock' = File(seen'[u], TRUE)
    BY <1>10 DEF OwnerExists, First
  <2> QED
    BY <2>1, <2>2 DEF First
<1>11. CASE Reread(w)
  <2>1. seen[w] \in Waits /\ pc[seen[w]] = "refused" /\ lock = File(seen[w], TRUE)
    BY <1>11 DEF Reread, MayBeGone, First, NoneDead, Ended, TriesLeft
  <2> QED
    BY <2>1 DEF MakerPresent
<1>12. CASE Unlink(w)
  BY <1>12 DEF Unlink, First, HolderNamed
<1>13. CASE GiveUp(w)
  <2>1. tries[w] = 2
    BY DEF First, Attempts
  <2> QED
    BY <1>13, <2>1 DEF GiveUp
<1>14. CASE Leave(w)
  <2>1. Mine(w)
    BY <1>14 DEF Leave, Mine, First, HolderNamed
  <2> QED
    BY <1>5, <1>14, <2>1 DEF Leave, First
<1> QED
  BY <1>3, <1>4, <1>6, <1>7, <1>8, <1>9, <1>10, <1>11, <1>12, <1>13, <1>14 DEF Step

\* The others find the lock of one that died; the first to remove it tries again.
LEMMA AbandonedStep ==
    ASSUME LockInv, NEW w \in Waits, Step(w) \/ Die(w), Abandoned
    PROVE  TwoDead' \/ Abandoned' \/ Cleared'
<1> USE DEF LockInv, TypeOK, Go
<1>1. PICK d \in Waits :
        /\ pc[d] = "dead" /\ lock \in {File(d, FALSE), File(d, TRUE)}
        /\ \A u \in Waits :
             /\ Waiting(u) \/ pc[u] \in {"refused", "dead"}
             /\ Waiting(u) => tries[u] = Attempts
             /\ pc[u] \in {"stale", "unlink"} => lock = File(seen[u], TRUE)
  BY DEF Abandoned
<1>2. lock # Absent /\ \A u \in Waits : pc[u] \in {"stale", "unlink"} => seen[u] = d
  BY <1>1, LockAssumption DEF File, Absent, None
<1>3. CASE Die(w)
  BY <1>1, <1>3 DEF Die, TwoDead, Ended
<1>4. ASSUME UNCHANGED <<lock, tries>>, \A u \in Waits \ {w} : pc'[u] = pc[u] /\ seen'[u] = seen[u],
             Waiting(w), pc'[w] \in {"read", "refused", "stale", "unlink"},
             pc'[w] \in {"stale", "unlink"} => lock = File(seen'[w], TRUE)
      PROVE  Abandoned'
  <2>1. w # d /\ pc'[d] = "dead"
    BY <1>1, <1>4 DEF Waiting
  <2>2. \A u \in Waits :
          /\ pc'[u] \in {"start", "read", "stale", "unlink"} \/ pc'[u] \in {"refused", "dead"}
          /\ pc'[u] \in {"start", "read", "stale", "unlink"} => tries'[u] = Attempts
          /\ pc'[u] \in {"stale", "unlink"} => lock' = File(seen'[u], TRUE)
    BY <1>1, <1>4 DEF Waiting
  <2> QED
    BY <1>1, <1>4, <2>1, <2>2 DEF Abandoned, Waiting
<1>5. CASE Create(w)
  BY <1>2, <1>5 DEF Create, Creatable
<1>6. CASE Exists(w)
  BY <1>4, <1>6 DEF Exists, Waiting
<1>7. CASE Read(w)
  <2>1. lock \notin Blank \union {Absent} => lock = File(lock.maker, TRUE)
    BY <1>1 DEF Blank, File
  <2> QED
    <3>1. /\ UNCHANGED <<lock, tries>> /\ Waiting(w) /\ pc'[w] \in {"stale", "refused"}
          /\ \A u \in Waits \ {w} : pc'[u] = pc[u] /\ seen'[u] = seen[u]
      BY <1>7 DEF Read, Waiting
    <3>2. pc'[w] = "stale" => lock = File(seen'[w], TRUE)
      BY <1>7, <2>1 DEF Read
    <3> QED
      BY <1>4, <3>1, <3>2
<1>8. CASE OwnerExists(w)
  BY <1>4, <1>8 DEF OwnerExists, Waiting
<1>9. CASE Reread(w)
  <2>1. Unchanged(w)
    BY <1>1, <1>9 DEF Reread, Unchanged
  <2> QED
    BY <1>1, <1>4, <1>9, <2>1 DEF Reread, Waiting
<1>10. CASE Unlink(w)
  <2>1. /\ lock' = Absent /\ seen' = seen /\ pc'[w] = "start" /\ tries'[w] = 1 /\ w # d
        /\ \A u \in Waits \ {w} : pc'[u] = pc[u] /\ tries'[u] = tries[u]
    <3>1. /\ lock' = Absent /\ seen' = seen /\ pc'[w] = "start" /\ tries'[w] = tries[w] - 1
          /\ \A u \in Waits \ {w} : pc'[u] = pc[u] /\ tries'[u] = tries[u]
      BY <1>10 DEF Unlink, Again
    <3>2. tries[w] = 2 /\ w # d
      BY <1>1, <1>10 DEF Unlink, Waiting, Attempts
    <3> QED
      BY ONLY <3>1, <3>2
  <2>2. \A u \in Waits :
          /\ pc'[u] \in {"start", "read", "stale", "unlink"} \/ pc'[u] \in {"refused", "dead"}
          /\ pc'[u] \in {"start", "read", "stale", "unlink"} => tries'[u] \in {1, Attempts}
          /\ pc'[u] \in {"read", "stale", "unlink"} => tries'[u] = Attempts
          /\ pc'[u] \in {"stale", "unlink"} => seen'[u] = d
    BY <1>1, <1>2, <2>1 DEF Waiting
  <2> QED
    BY <1>1, <2>1, <2>2 DEF Cleared, Waiting
<1>11. CASE GiveUp(w)
  <2>1. pc[w] = "start" => tries[w] = 2
    BY <1>1 DEF Waiting, Attempts
  <2> QED
    BY <1>11, <2>1 DEF GiveUp
<1>12. ~WriteOwner(w) /\ ~Leave(w) /\ ~Remove(w)
  BY <1>1 DEF WriteOwner, Leave, Remove, Waiting
<1> QED
  BY <1>3, <1>5, <1>6, <1>7, <1>8, <1>9, <1>10, <1>11, <1>12 DEF Step

LEMMA ClearedStep ==
    ASSUME LockInv, NEW w \in Waits, Step(w) \/ Die(w), Cleared
    PROVE  TwoDead' \/ Cleared' \/ Lasting'
<1> USE DEF LockInv, TypeOK, Go
<1>1. PICK d \in Waits, v \in Waits :
        /\ pc[d] = "dead" /\ lock = Absent /\ pc[v] = "start" /\ tries[v] = 1
        /\ \A u \in Waits :
             /\ Waiting(u) \/ pc[u] \in {"refused", "dead"}
             /\ Waiting(u) => tries[u] \in {1, Attempts}
             /\ pc[u] \in {"read", "stale", "unlink"} => tries[u] = Attempts
             /\ pc[u] \in {"stale", "unlink"} => seen[u] = d
  BY DEF Cleared
<1>2. CASE Die(w)
  BY <1>1, <1>2 DEF Die, TwoDead, Ended
<1>3. CASE Create(w)
  <2>1. w # d /\ pc'[w] = "blank" /\ pc'[d] = "dead"
    BY <1>1, <1>3 DEF Create
  <2> QED
    BY <2>1 DEF Lasting, Settled, NoneDead
<1>4. ASSUME lock' = lock, w # v, seen' = seen, \A u \in Waits \ {w} : pc'[u] = pc[u] /\ tries'[u] = tries[u],
             Waiting(w), pc'[w] = "refused" \/ (pc'[w] = "start" /\ tries'[w] = 1)
      PROVE  Cleared'
  <2>1. w # d /\ pc'[d] = "dead" /\ pc'[v] = "start" /\ tries'[v] = 1
    BY <1>1, <1>4 DEF Waiting
  <2>2. \A u \in Waits :
          /\ pc'[u] \in {"start", "read", "stale", "unlink"} \/ pc'[u] \in {"refused", "dead"}
          /\ pc'[u] \in {"start", "read", "stale", "unlink"} => tries'[u] \in {1, Attempts}
          /\ pc'[u] \in {"read", "stale", "unlink"} => tries'[u] = Attempts
          /\ pc'[u] \in {"stale", "unlink"} => seen'[u] = d
    BY <1>1, <1>4 DEF Waiting
  <2> QED
    BY <1>1, <1>4, <2>1, <2>2 DEF Cleared, Waiting
<1>5. CASE Exists(w)
  BY <1>1, <1>5 DEF Exists
<1>6. CASE Read(w)
  BY <1>1, <1>4, <1>6 DEF Read, Waiting
<1>7. CASE OwnerExists(w)
  BY <1>1, <1>7 DEF OwnerExists, MayExist
<1>8. CASE Reread(w)
  <2>1. ~Unchanged(w)
    BY <1>1, <1>8, LockAssumption DEF Reread, Unchanged, File, Absent, None
  <2>2. tries'[w] = 1 /\ pc'[w] = "start"
    BY <1>1, <1>8, <2>1 DEF Reread, Again, Attempts
  <2> QED
    BY <1>1, <1>4, <1>8, <2>1, <2>2 DEF Reread, Again, Waiting
<1>9. CASE Unlink(w)
  <2>1. tries'[w] = 1 /\ pc'[w] = "start"
    BY <1>1, <1>9 DEF Unlink, Again, Attempts
  <2> QED
    BY <1>1, <1>4, <1>9, <2>1 DEF Unlink, Again, Waiting
<1>10. CASE GiveUp(w)
  BY <1>1, <1>10 DEF GiveUp, Waiting, Attempts
<1>11. ~WriteOwner(w) /\ ~Leave(w) /\ ~Remove(w)
  BY <1>1 DEF WriteOwner, Leave, Remove, Waiting
<1> QED
  BY <1>2, <1>3, <1>5, <1>6, <1>7, <1>8, <1>9, <1>10, <1>11 DEF Step

LEMMA RefusalStep ==
    ASSUME LockInv, NEW w \in Waits, Step(w) \/ Die(w), RefusalInv
    PROVE  RefusalInv'
<1>1. CASE TwoDead
  <2>1. \A u \in Waits : pc[u] = "dead" => pc'[u] = "dead"
    BY DEF LockInv, TypeOK, Go, Again, Step, Die, Create, WriteOwner, Exists, Read, OwnerExists,
       Reread, Unlink, GiveUp, Leave, Remove, Ended
  <2> QED
    BY <1>1, <2>1 DEF TwoDead, RefusalInv
<1> QED
  BY <1>1, FreshStep, FirstStep, SettledStays, AbandonedStep, ClearedStep DEF RefusalInv

\* Somebody else is there when one refuses, or the lock has no owner, or two died.
Justified(w) ==
    \/ lock \in Blank
    \/ \E v \in Waits \ {w} :
         pc[v] \notin {"refused", "dead"} /\ (pc[v] # "start" \/ tries[v] < Attempts)
    \/ \E u, v \in Waits : u # v /\ pc[u] = "dead" /\ pc[v] = "dead"

LEMMA RefusalMet ==
    ASSUME LockInv, RefusalInv, NEW w \in Waits, Step(w) \/ Die(w),
           pc[w] # "refused", pc'[w] = "refused"
    PROVE  Justified(w)
<1> USE DEF LockInv, TypeOK, Go, Again
<1>1. /\ pc[w] \in {"start", "read", "stale"}
      /\ pc[w] = "start" => tries[w] = 0
      /\ pc[w] = "read" => lock \in Blank \union {Absent}
      /\ pc[w] = "stale" => pc[seen[w]] # "dead"
  BY DEF Step, Die, Create, WriteOwner, Exists, Read, OwnerExists,
       Reread, Unlink, GiveUp, Leave, Remove, Ended, MayExist
<1>2. CASE TwoDead
  BY <1>2 DEF TwoDead, Justified
<1>3. CASE Fresh
  BY <1>1, <1>3 DEF Fresh, Attempts
<1>4. CASE First \/ Lasting
  <2>1. PICK v \in Waits : pc[v] \in {"blank", "in", "leave", "out"}
    BY <1>4 DEF First, Lasting, Settled
  <2> QED
    BY <1>1, <2>1 DEF Justified
<1>5. CASE Abandoned
  <2>1. PICK d \in Waits :
          /\ pc[d] = "dead" /\ lock \in {File(d, FALSE), File(d, TRUE)}
          /\ Waiting(w) => tries[w] = Attempts
          /\ pc[w] = "stale" => lock = File(seen[w], TRUE)
    BY <1>5 DEF Abandoned
  <2>2. pc[w] # "start"
    BY <1>1, <2>1 DEF Waiting, Attempts
  <2>3. pc[w] # "stale"
    BY <1>1, <2>1 DEF File
  <2>4. lock # Absent
    BY <2>1, LockAssumption DEF File, Absent, None
  <2> QED
    BY <1>1, <2>2, <2>3, <2>4 DEF Justified
<1>6. CASE Cleared
  <2>1. PICK d \in Waits, v \in Waits :
          /\ pc[d] = "dead" /\ pc[v] = "start" /\ tries[v] = 1
          /\ Waiting(w) => tries[w] \in {1, Attempts}
    BY <1>6 DEF Cleared
  <2>2. v # w
    BY <1>1, <2>1
  <2> QED
    BY <2>1, <2>2 DEF Justified, Attempts
<1> QED
  BY <1>2, <1>3, <1>4, <1>5, <1>6 DEF RefusalInv

LEMMA LocksOrNot ==
  [ReplyNext]_allVars => UNCHANGED lockVars \/ \E w \in Waits : Step(w) \/ Die(w)
<1>1. \A w \in Waits : Reply(w) => UNCHANGED lockVars
  BY DEF Reply, ReadHead, Load, Discover, Recheck, Checkpoint, Post, Answered, PostFails,
     Sent, Verify, Confirm, Final, ReadFails, Inner
<1> QED
  BY <1>1 DEF ReplyNext, Push, Arrive, Vanish, Beside, Locking, allVars

\* Who is refused the lock is told so for a reason: as long as at most one process
\* died, its lock keeps nobody out, unless it died before it wrote its name there.
THEOREM RefusalsMet == ReplySpec => RefusedByOthers
<1>1. ReplyInit => RefusalInv
  BY RefusalInit DEF ReplyInit
<1>2. ReplyInv /\ RefusalInv /\ [ReplyNext]_allVars => RefusalInv'
  <2> SUFFICES ASSUME ReplyInv, RefusalInv, [ReplyNext]_allVars PROVE RefusalInv'
    OBVIOUS
  <2>1. CASE UNCHANGED lockVars
    <3>1. UNCHANGED <<lock, pc, seen, tries>>
      BY <2>1 DEF lockVars
    <3>2. (TwoDead \/ Fresh \/ First \/ Lasting)' <=> (TwoDead \/ Fresh \/ First \/ Lasting)
      BY <3>1 DEF TwoDead, Fresh, First, Lasting, Settled, NoneDead
    <3>3. \A w \in Waits : Waiting(w)' <=> Waiting(w)
      BY <3>1 DEF Waiting
    <3>4. Abandoned => Abandoned'
      BY <3>1, <3>3 DEF Abandoned
    <3>5. Cleared => Cleared'
      BY <3>1, <3>3 DEF Cleared
    <3> QED
      BY <3>2, <3>4, <3>5 DEF RefusalInv
  <2>2. CASE \E w \in Waits : Step(w) \/ Die(w)
    BY <2>2, RefusalStep DEF ReplyInv
  <2> QED
    BY <2>1, <2>2, LocksOrNot
<1>3. ReplyInv /\ RefusalInv /\ [ReplyNext]_allVars =>
        [\A w \in Waits : pc[w] # "refused" /\ pc'[w] = "refused" => Justified(w)]_vars
  <2> SUFFICES ASSUME ReplyInv, RefusalInv, [ReplyNext]_allVars
               PROVE  [\A w \in Waits : pc[w] # "refused" /\ pc'[w] = "refused" => Justified(w)]_vars
    OBVIOUS
  <2>1. CASE UNCHANGED lockVars
    BY <2>1 DEF lockVars, vars
  <2>2. ASSUME NEW u \in Waits, Step(u) \/ Die(u), NEW w \in Waits, pc[w] # "refused", pc'[w] = "refused"
        PROVE  Justified(w)
    <3>1. w = u
      BY <2>2 DEF Step, Die, Go, Again, Create, WriteOwner, Exists, Read, OwnerExists,
         Reread, Unlink, GiveUp, Leave, Remove, ReplyInv, LockInv, TypeOK
    <3> QED
      BY <2>2, <3>1, RefusalMet DEF ReplyInv
  <2> QED
    BY <2>1, <2>2, LocksOrNot
<1> QED
  BY <1>1, <1>2, <1>3, InductiveInvariant, PTL DEF ReplySpec, RefusedByOthers, Justified
=============================================================================
