----------------------------- MODULE StateLock -----------------------------
(***************************************************************************)
(* The lock beside a wait's state file (StateLock of kgr_github.py): a file *)
(* created with O_EXCL that names its owner.  Creating and writing it are   *)
(* two steps; so are reading and removing it, on the way out and when the   *)
(* owner it names is dead.  A process may die at any of them.               *)
(***************************************************************************)
EXTENDS Naturals, FiniteSets

CONSTANTS
    Waits,      \* invocations, each a process with an owner string of its own
    MaxDeaths   \* bound: processes that die

ASSUME LockAssumption == MaxDeaths \in Nat /\ "none" \notin Waits

VARIABLES
    lock,   \* the lock file: its maker, and whether it names that owner yet
    pc,     \* each invocation's step
    seen,   \* the owner it read in the lock
    tries   \* attempts it has left

vars == <<lock, pc, seen, tries>>

None == "none"
File(w, named) == [maker |-> w, named |-> named]
Absent == File(None, FALSE)     \* no file
Blank == {File(w, FALSE) : w \in Waits}
\* Mutant: no second attempt once a stale lock is removed.
Attempts_One == 1
Attempts == 2

Ended == {"refused", "out", "dead"}
\* What os.kill(pid, 0) may say of an owner: one that ended may still be exiting.
MayExist(w) == pc[w] # "dead"
MayBeGone(w) == pc[w] \in Ended
Inside == {w \in Waits : pc[w] = "in"}

TypeOK ==
    /\ lock \in [maker : Waits, named : BOOLEAN] \union {Absent}
    /\ pc \in [Waits -> Ended \union
                 {"start", "blank", "in", "read", "stale", "unlink", "leave"}]
    /\ seen \in [Waits -> Waits \union {None}] /\ tries \in [Waits -> 0 .. Attempts]

Init ==
    /\ lock = Absent /\ pc = [w \in Waits |-> "start"]
    /\ seen = [w \in Waits |-> None] /\ tries = [w \in Waits |-> Attempts]

Go(w, step) == pc' = [pc EXCEPT ![w] = step]

Left(w) == tries[w] > 0

Creatable == lock = Absent

Create(w) ==
    /\ pc[w] = "start" /\ Left(w) /\ Creatable
    /\ lock' = File(w, FALSE) /\ Go(w, "blank")
    /\ UNCHANGED <<seen, tries>>

\* The owner goes to the file that was created, which the path may not name
\* any more.
WriteOwner(w) ==
    /\ pc[w] = "blank" /\ Go(w, "in")
    /\ lock' = IF lock = File(w, FALSE) THEN File(w, TRUE) ELSE lock
    /\ UNCHANGED <<seen, tries>>

\* FileExistsError; the file may be gone again when its owner is read.
Exists(w) ==
    /\ pc[w] = "start" /\ Left(w) /\ lock # Absent
    /\ Go(w, "read")
    /\ UNCHANGED <<lock, seen, tries>>

\* A lock without an owner refuses the wait.
Read(w) ==
    /\ pc[w] = "read"
    /\ IF lock \notin Blank \union {Absent}
       THEN Go(w, "stale") /\ seen' = [seen EXCEPT ![w] = lock.maker]
       ELSE Go(w, "refused") /\ UNCHANGED seen
    /\ UNCHANGED <<lock, tries>>

\* Mutant: a lock read as stale is removed without looking at it again.
Unchanged_Always(w) == TRUE
Unchanged(w) == lock = File(seen[w], TRUE)

Again(w) == Go(w, "start") /\ tries' = [tries EXCEPT ![w] = @ - 1]

\* An owner that exists refuses the wait; the lock of one that does not is read
\* once more.
OwnerExists(w) ==
    /\ pc[w] = "stale" /\ MayExist(seen[w]) /\ Go(w, "refused")
    /\ UNCHANGED <<lock, seen, tries>>

Reread(w) ==
    /\ pc[w] = "stale" /\ MayBeGone(seen[w])
    /\ IF Unchanged(w) THEN Go(w, "unlink") /\ UNCHANGED tries ELSE Again(w)
    /\ UNCHANGED <<lock, seen>>

\* Whatever the path names by now is removed.
Unlink(w) ==
    /\ pc[w] = "unlink" /\ lock' = Absent /\ Again(w)
    /\ UNCHANGED seen

GiveUp(w) ==
    /\ pc[w] = "start" /\ tries[w] = 0 /\ Go(w, "refused")
    /\ UNCHANGED <<lock, seen, tries>>

Mine(w) == lock = File(w, TRUE)

\* __exit__: the lock is read, then removed if it is one's own.
Leave(w) ==
    /\ pc[w] = "in" /\ Go(w, IF Mine(w) THEN "leave" ELSE "out")
    /\ UNCHANGED <<lock, seen, tries>>

Remove(w) ==
    /\ pc[w] = "leave" /\ lock' = Absent /\ Go(w, "out")
    /\ UNCHANGED <<seen, tries>>

Die(w) ==
    /\ pc[w] \notin Ended
    /\ Cardinality({v \in Waits : pc[v] = "dead"}) < MaxDeaths
    /\ Go(w, "dead")
    /\ UNCHANGED <<lock, seen, tries>>

Step(w) ==
    \/ Create(w) \/ WriteOwner(w) \/ Exists(w) \/ Read(w) \/ OwnerExists(w)
    \/ Reread(w) \/ Unlink(w) \/ GiveUp(w) \/ Leave(w) \/ Remove(w)

-----------------------------------------------------------------------------
(* Properties. *)

\* One wait at a time works on the state file.
OneHolder == \A v, w \in Inside : v = w

\* The lock that one process left when it died refuses nobody: whoever is refused
\* meets another that has begun and not died or been refused, or a lock without an
\* owner.  Two deaths may: the first leaves its lock, the second has removed it.
RefusedByOthers ==
    [][\A w \in Waits : pc[w] # "refused" /\ pc'[w] = "refused" =>
         \/ lock \in Blank
         \/ \E v \in Waits \ {w} :
              pc[v] \notin {"refused", "dead"} /\ (pc[v] # "start" \/ tries[v] < Attempts)
         \/ \E u, v \in Waits : u # v /\ pc[u] = "dead" /\ pc[v] = "dead"]_vars
=============================================================================
