---------------------------- MODULE CopyService -----------------------------
(***************************************************************************)
(* What llncp promises to its users.  Each client asks for one copy; the   *)
(* service carries a request out at any time after it was made completely, *)
(* and tells its client once how it ended: OK only if it was carried out,  *)
(* ERR if it was not and never will be.                                    *)
(*                                                                         *)
(* Transfer implements this with a daemon, threads and two connections.    *)
(***************************************************************************)
CONSTANTS
  Clients,
  Repeats   \* may a request be carried out twice, and fail the second time?

VARIABLES
  asked,    \* clients whose request is complete
  done,     \* those whose request was carried out
  answer    \* what each client knows

vars == <<asked, done, answer>>

Init ==
  /\ asked = {} /\ done = {}
  /\ answer = [c \in Clients |-> "none"]

Ask(c) ==
  /\ c \notin asked
  /\ asked' = asked \cup {c}
  /\ UNCHANGED <<done, answer>>

CarryOut(c) ==
  /\ c \in asked \ done
  /\ answer[c] # "ERR"
  /\ done' = done \cup {c}
  /\ UNCHANGED <<asked, answer>>

Tell(c, reply) ==
  /\ answer[c] = "none"
  /\ answer' = [answer EXCEPT ![c] = reply]
  /\ UNCHANGED <<asked, done>>

Confirm(c) == c \in done /\ Tell(c, "OK")

Deny(c) == (c \notin done \/ Repeats) /\ Tell(c, "ERR")

\* The client was interrupted, or the daemon has let it down.
GiveUp(c) == Tell(c, "INT") \/ Tell(c, "EOF")

Next ==
  \E c \in Clients : Ask(c) \/ CarryOut(c) \/ Confirm(c) \/ Deny(c) \/ GiveUp(c)

Spec == Init /\ [][Next]_vars
=============================================================================
