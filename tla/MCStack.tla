------------------------------ MODULE MCStack ------------------------------
(* Small instances of StackState, one initial state each: guards beside and   *)
(* inside each other over branches that others move; three pull requests that *)
(* are restacked while they are read; a guarded push while a stack is read.   *)
EXTENDS StackState, TLC

CONSTANTS g1, g2
AllGuards == {g1, g2}

Pushes == [refs |-> {"a", "b"}, numbered |-> {}, commits |-> {1, 2},
           heads |-> [a |-> 1, b |-> NoCommit], local |-> [a |-> 2, b |-> 2],
           stack |-> <<>>, guards |-> 2, moves |-> 1]
Alone == [Pushes EXCEPT !.numbered = {"b"}, !.guards = 1, !.moves = 3]
Stacked == [refs |-> {"a", "b", "c"}, numbered |-> {}, commits |-> {1, 2},
            heads |-> [a |-> 1, b |-> 1, c |-> 1], local |-> [a |-> 1, b |-> 1, c |-> 1],
            stack |-> <<"a", "b", "c">>, guards |-> 0, moves |-> 3]
PushedWhileRead == [Pushes EXCEPT !.heads.b = 1, !.stack = <<"a", "b">>, !.guards = 1, !.moves = 1]
AllWorlds == {Pushes, Alone, Stacked, PushedWhileRead}
Symmetry == Permutations(AllGuards)
=============================================================================
