----------------------------- MODULE MCPairing ------------------------------
(***************************************************************************)
(* Finite instances of Pairing for TLC: two daemons with different tokens *)
(* or, as srand(time(NULL)) may have it, the same; or one alone.           *)
(***************************************************************************)
EXTENDS Pairing

CONSTANTS d1, d2, t1, t2

Different == {[d \in Daemons |-> IF d = d1 THEN t1 ELSE t2]}
SameOrNot == Different \cup {[d \in Daemons |-> t1]}

\* Connections 1..6 are those of d1, the odd ones its command connections.
Owner == [c \in Conns |-> IF c <= 6 THEN d1 ELSE d2]
Purpose == [c \in Conns |-> IF c % 2 = 1 THEN "cmd" ELSE "data"]
Alone == [c \in Conns |-> d1]
=============================================================================
