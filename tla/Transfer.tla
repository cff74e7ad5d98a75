------------------------------ MODULE Transfer ------------------------------
(***************************************************************************)
(* The commands, the daemon and the server threads together, with the      *)
(* faults of their environment, and what they are meant to achieve.        *)
(***************************************************************************)
EXTENDS Command, Daemon, ServerThread

Prefixes(s) == {SubSeq(s, 1, n) : n \in 0..Len(s)}

\* The network fails: what had not arrived is lost, in every direction.
Break(e) ==
  /\ breaks < MaxBreaks
  /\ link[e] = "up"
  /\ breaks' = breaks + 1
  /\ \E how \in IF Resets THEN {"fin", "rst"} ELSE {"fin"} :
       link' = [link EXCEPT ![e] = how]
  /\ \E n \in rd[e]..Len(data[e]) :
       data' = [data EXCEPT ![e] = SubSeq(@, 1, n)]
  /\ \E s \in Prefixes(up[e]) : up' = [up EXCEPT ![e] = s]
  /\ \E s \in Prefixes(down[e]) : down' = [down EXCEPT ![e] = s]
  /\ UNCHANGED <<daemonSide, rd, thrVars, diskVars>>

CrashServer ==
  /\ breaks < MaxBreaks
  /\ breaks' = breaks + 1
  /\ ServerEnds

-----------------------------------------------------------------------------
\* The daemon waits in accept, for as long as nobody comes.
Quiet ==
  /\ pc = "top" /\ ~resend /\ backlog = <<>>
  /\ UNCHANGED vars

Next ==
  \/ \E c \in Clients :
       ClientConnect(c) \/ ClientSend(c) \/ ClientReceive(c) \/ ClientEof(c)
         \/ ClientInterrupt(c)
  \/ Daemon
  \/ \E e \in Epochs : SrvThread(e) \/ SrvEnding(e)
  \/ DConnectFails \/ CrashServer \/ \E e \in Epochs : Break(e)
  \/ Quiet

Spec == Init /\ [][Next]_vars

(***************************************************************************)
(* Processes and threads are scheduled; users need not start a command or  *)
(* interrupt one, faults need not happen, and a server thread may never    *)
(* learn that its connection is gone.                                      *)
(***************************************************************************)
Fairness ==
  /\ WF_vars(Daemon)
  /\ WF_vars(\E e \in Epochs : SrvThread(e))
  /\ WF_vars(\E c \in Clients : ClientSend(c) \/ ClientReceive(c) \/ ClientEof(c))

FairSpec == Spec /\ Fairness

-----------------------------------------------------------------------------
(***************************************************************************)
(* Safety.                                                                 *)
(***************************************************************************)

\* The command connection and the data connection stay in step: when the
\* server opens a destination, its name is the path the daemon sent for the
\* very request whose header the server holds (server.c, 388-392).
Aligned ==
  \A e \in Epochs : st[e] = "open" => path[e] = Dest(e)

\* A client is told ACK_OK only if some server thread received the whole of
\* that client's file, or made its directory (server.c, 418).
AckTruthful ==
  \A c \in Clients : "OK" \in {inbox[c], result[c]} => c \in delivered

\* A client is told ACK_ERROR only if its request was not carried out.
RefusedNotDelivered ==
  \A c \in Clients : "ERR" \in {inbox[c], result[c]} => c \notin delivered

\* An acknowledged copy is on the server's disk, byte for byte, as long as no
\* other client asked for the same destination.
Copy(c) == IF job[c].kind = "dir" THEN Directory ELSE Complete(c)
OnlyWriter(c) == \A d \in Clients \ {c} : job[d].dest # job[c].dest

IntactWhileAcked ==
  \A c \in Clients :
    result[c] = "OK" /\ OnlyWriter(c) => files[job[c].dest] = Copy(c)

\* An answer belongs to the request the daemon is sending: none is left on
\* the command connection when it begins with another.
NoStrayAnswer ==
  pc \in {"top", "attrs", "source", "dest", "stat", "open"} =>
    down[epoch] = <<>>

\* The chunks of send_data, discard_data and write_data, counted with / and %
\* of BUFFERSIZE, cover exactly their length: no chunk goes beyond it, and
\* when the loop and the remainder are through, nothing is left over.  A
\* thread never reads what was not sent (server.c, 252-269 and 293-301,
\* client_daemon.c, 382-409).
ThreadWithin(e) ==
  /\ rd[e] <= Len(data[e]) /\ got[e] <= rd[e]
  /\ st[e] = "discard" => left[e] \in 1..h[e].discard
  /\ st[e] = "path" => left[e] = 0
  /\ st[e] = "write" => /\ pos[e] % BUFFERSIZE = 0 /\ got[e] < WriteLen(e)
                        /\ pos[e] + WriteLen(e) <= h[e].len
  /\ st[e] = "ack" /\ h[e].cmd = "file" => pos[e] = h[e].len

DaemonWithin ==
  /\ pc = "data" => /\ off % BUFFERSIZE = 0 /\ cnt < ChunkLen
                    /\ off + ChunkLen <= hdr.len
  /\ pc = "await" /\ hdr.cmd = "file" => off = hdr.len
  /\ pc \in {"attrs", "source", "dest", "stat"} => cur \in Clients

NoOverrun == DaemonWithin /\ \A e \in Epochs : ThreadWithin(e)

\* What the server throws away are file bytes of an earlier request, which
\* was refused: never a path, never a byte of the request it works on.
OnlyUselessDiscarded ==
  [][\A e \in Epochs :
       st[e] = "discard" /\ rd'[e] > rd[e] =>
         LET unit == data[e][rd[e] + 1]
         IN  unit.k > 0 /\ unit.r # h[e].req]_vars

\* The request sent again after a broken connection is the one that was
\* interrupted: its header, its source and its destination.
ResendsCurrent ==
  [][pc = "top" /\ resend /\ ~resend' =>
       hdr'.req = cur' /\ src' = cur' /\ dst' = cur']_vars

(***************************************************************************)
(* The system as its users see it.  After a break mkdir may meet the       *)
(* directory it has made before.                                           *)
(***************************************************************************)
Service ==
  INSTANCE CopyService WITH Repeats <- MaxBreaks > 0,
                            asked <- {c \in Clients : sent[c] = RequestSent},
                            done <- delivered \ {None},
                            answer <- result

\* Nothing is carried out that was not asked for completely, and no client
\* is told anything but the truth, or told twice.
ImplementsCopyService == Service!Spec

(***************************************************************************)
(* Liveness.                                                               *)
(***************************************************************************)

\* Every command that got through to the daemon ends.
EveryClientAnswered ==
  \A c \in Clients : sent[c] >= Connected ~> result[c] # "none"
=============================================================================
