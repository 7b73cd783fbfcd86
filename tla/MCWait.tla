------------------------------- MODULE MCWait -------------------------------
(* Small instances of WaitTransition: open and red that a caller waits in,   *)
(* flaky that shares its key with open, and what decides a wait.             *)
EXTENDS WaitTransition, TLC

AllValues == {"open", "flaky", "red", "failed", "done", "gone"}
Classes == [v \in AllValues |->
    CASE v = "failed" -> "changed" [] v = "done" -> "satisfied" [] v = "gone" -> "invalidated"
      [] OTHER -> "waiting"]
KeyOf == [v \in AllValues |-> IF v = "flaky" THEN "open" ELSE v]
NewOrForeign == {NoFile, [Saved("open") EXCEPT !.mine = FALSE]}
=============================================================================
