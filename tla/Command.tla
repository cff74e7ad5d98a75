------------------------------ MODULE Command -------------------------------
(***************************************************************************)
(* The llncp command (client.c): one run of it is one client.              *)
(***************************************************************************)
EXTENDS TransferState

othersThanClient == <<pc, cur, closed, attrVars, discard, resend, fileVars,
                      epoch, netVars, thrVars, diskVars, breaks, job>>

ClientConnect(c) ==
  /\ sent[c] = 0
  /\ sent' = [sent EXCEPT ![c] = Connected]
  /\ backlog' = Append(backlog, c)
  /\ UNCHANGED <<othersThanClient, result, inbox>>

\* The lengths, the source path and the destination path: three sends.
ClientSend(c) ==
  /\ sent[c] \in Connected..SourceSent
  /\ result[c] = "none"
  /\ sent' = [sent EXCEPT ![c] = @ + 1]
  /\ UNCHANGED <<othersThanClient, result, inbox, backlog>>

ClientReceive(c) ==
  /\ sent[c] = RequestSent
  /\ result[c] = "none"
  /\ inbox[c] # "none"
  /\ result' = [result EXCEPT ![c] = inbox[c]]
  /\ UNCHANGED <<othersThanClient, sent, inbox, backlog>>

\* "Something went wrong. Socket was closed."
ClientEof(c) ==
  /\ result[c] = "none"
  /\ c \in closed
  /\ inbox[c] = "none"
  /\ result' = [result EXCEPT ![c] = "EOF"]
  /\ UNCHANGED <<othersThanClient, sent, inbox, backlog>>

\* Ctrl-C: FORCED_SOCKET_CLOSED is sent and the process is gone.
ClientInterrupt(c) ==
  /\ sent[c] \in InterruptAt
  /\ result[c] = "none"
  /\ result' = [result EXCEPT ![c] = "INT"]
  /\ UNCHANGED <<othersThanClient, sent, inbox, backlog>>
=============================================================================
