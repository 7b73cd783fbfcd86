------------------------------ MODULE MCReply ------------------------------
(* A small instance of ReviewReply: an operation that is repeated, and reused *)
(* for another body.                                                          *)
EXTENDS ReviewReply

CONSTANTS v, w, x

Bodies == [i \in {v, w, x} |-> IF i = x THEN "b" ELSE "a"]
=============================================================================
