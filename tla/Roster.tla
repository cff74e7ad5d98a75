------------------------------- MODULE Roster -------------------------------
(***************************************************************************)
(* What the server's list of clients promises: it changes by one element   *)
(* at a time, the newest first, and its order never changes.  ClientList   *)
(* implements it with pointers.                                            *)
(***************************************************************************)
EXTENDS Sequences, Naturals

CONSTANT Members
VARIABLE roster

Init == roster = <<>>

Join(m) ==
  /\ \A i \in 1..Len(roster) : roster[i] # m
  /\ roster' = <<m>> \o roster

\* Everybody may leave, whatever his place.
Leave(i) ==
  roster' = SubSeq(roster, 1, i - 1) \o SubSeq(roster, i + 1, Len(roster))

Next ==
  \/ \E m \in Members : Join(m)
  \/ \E i \in 1..Len(roster) : Leave(i)

Spec == Init /\ [][Next]_roster
=============================================================================
