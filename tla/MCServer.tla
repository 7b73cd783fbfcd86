------------------------------ MODULE MCServer ------------------------------
(* Small instances of WSServer.  The configurations choose which part of   *)
(* it is exercised:                                                        *)
(*   MCServerHandlers  one connection, every frame and handler outcome     *)
(*   MCServerClocks    one connection, all four clocks, and fairness       *)
(*   MCServerRegistry  three connections, the cap, posts, Destroy          *)
EXTENDS WSServer

(* Connections are interchangeable: no action or invariant names one.      *)
(* Used for safety only.                                                   *)
Symmetry == Permutations(Conns)
=============================================================================
