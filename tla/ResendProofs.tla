---------------------------- MODULE ResendProofs ----------------------------
(***************************************************************************)
(* What the daemon sends again after a broken connection is the request it *)
(* was working on, however often connections break and servers crash.      *)
(*                                                                         *)
(* This needs clients that are not interrupted before they have sent their *)
(* whole request (the run early_interrupt_resends shows what happens       *)
(* otherwise), and sources that exist.                                     *)
(***************************************************************************)
EXTENDS TransferProofs

Undisturbed ==
  /\ InterruptAt \subseteq {RequestSent}
  /\ \A j \in Jobs : j.kind # "missing"

\* A command that has ended, or whose connection the daemon has closed, had
\* sent its whole request.
EndedWhole ==
  \A c \in Clients :
    c \in closed \/ result[c] # "none" => sent[c] = RequestSent

\* From create_dest_file_attrs until the next accept, everything the daemon
\* holds belongs to the client behind client_socket.
Loaded  == cur \in Clients /\ sent[cur] = RequestSent /\ src = cur /\ dst = cur
Holding == Loaded /\ hdr.req = cur

OneRequest ==
  /\ pc \in {"attrs", "source", "dest", "stat"} => cur \in Clients /\ ~resend
  /\ pc = "dest" => src = cur
  /\ pc = "stat" => Loaded
  /\ pc \in {"open", "path", "data", "await", "connect", "auth"} => Holding
  /\ resend => Holding

Whole == EndedWhole /\ OneRequest

LEMMA InitWhole == Init => Whole
  BY DEF Init, Whole, EndedWhole, OneRequest

LEMMA ClientWhole ==
  ASSUME Undisturbed, Whole, Typed, NEW c \in Clients,
         ClientConnect(c) \/ ClientSend(c) \/ ClientReceive(c) \/ ClientEof(c)
           \/ ClientInterrupt(c)
  PROVE  Whole'
<1> USE DEF Whole, Typed, TypeOK, TypeClients, TypeDaemon, othersThanClient,
            Connected, AttrsSent, SourceSent, RequestSent
<1>1. \A d \in Clients : sent[d] = RequestSent => sent'[d] = RequestSent
  BY DEF ClientConnect, ClientSend, ClientReceive, ClientEof, ClientInterrupt
<1>2. EndedWhole'
  <2>1. CASE ClientConnect(c) \/ ClientSend(c)
    BY <1>1, <2>1 DEF ClientConnect, ClientSend, EndedWhole
  <2>2. CASE ClientReceive(c) \/ ClientEof(c)
    BY <1>1, <2>2 DEF ClientReceive, ClientEof, EndedWhole
  <2>3. CASE ClientInterrupt(c)
    <3>1. sent[c] = RequestSent
      BY <2>3 DEF ClientInterrupt, Undisturbed
    <3> QED
      BY <1>1, <2>3, <3>1 DEF ClientInterrupt, EndedWhole
  <2> QED
    BY <2>1, <2>2, <2>3
<1>3. OneRequest'
  <2>1. UNCHANGED <<pc, cur, resend, src, dst, hdr>>
    BY DEF ClientConnect, ClientSend, ClientReceive, ClientEof,
           ClientInterrupt, attrVars
  <2> QED
    BY <1>1, <2>1 DEF OneRequest, Loaded, Holding
<1> QED
  BY <1>2, <1>3

\* The ends of a request: each closes the connection of cur, which had sent
\* its whole request, or has it sent again.
LEMMA EndsWhole ==
  ASSUME Whole, Typed, Holding, UNCHANGED <<attrVars, cur, sent, result>>,
         \/ CatchForced \/ CloseClient
         \/ (CatchClosed \/ pc' = "path") /\ UNCHANGED closed
         \/ pc' \in {"top", "path", "data", "await"}
              /\ UNCHANGED <<closed, resend>>
  PROVE  Whole'
<1>1. Holding'
  BY DEF Holding, Loaded, attrVars
<1>2. closed' \subseteq closed \cup {cur}
  BY DEF CatchForced, CloseClient
<1>3. EndedWhole'
  BY <1>2 DEF Whole, EndedWhole, Holding, Loaded
<1>4. pc' \in {"top", "path", "data", "await", "connect"}
  BY DEF CatchForced, CatchClosed, CloseClient
<1> QED
  BY <1>1, <1>3, <1>4 DEF Whole, OneRequest

LEMMA LoadingWhole ==
  ASSUME Undisturbed, Whole, Typed,
         DAccept \/ DLoadAttrs \/ DLoadSource \/ DLoadDest \/ DStat
  PROVE  Whole'
<1> USE DEF Whole, Typed, TypeOK, TypeClients, TypeDaemon, serverSide,
            clientVars, attrVars, Connected, AttrsSent, SourceSent, RequestSent
<1>1. CASE DAccept
  <2>1. backlog # <<>> /\ backlog \in Seq(Clients) /\ cur' = Head(backlog)
    BY <1>1 DEF DAccept
  <2>2. cur' \in Clients
    BY <2>1
  <2> QED
    BY <1>1, <2>2 DEF DAccept, EndedWhole, OneRequest
<1>2. \A c \in Clients : \A stage \in {2, 3, 4} : ~GoneBefore(c, stage)
  BY DEF GoneBefore, EndedWhole
<1>3. CASE DLoadAttrs
  <2>1. pc' = "source" /\ UNCHANGED <<closed, resend>>
    BY <1>2, <1>3 DEF DLoadAttrs, OneRequest
  <2> QED
    BY <1>3, <2>1 DEF DLoadAttrs, EndedWhole, OneRequest
<1>4. CASE DLoadSource
  <2>1. pc' = "dest" /\ src' = cur /\ UNCHANGED <<closed, resend>>
    BY <1>2, <1>4 DEF DLoadSource, OneRequest
  <2> QED
    BY <1>4, <2>1 DEF DLoadSource, EndedWhole, OneRequest
<1>5. CASE DLoadDest
  <2>1. /\ pc' = "stat" /\ dst' = cur /\ UNCHANGED <<closed, resend>>
        /\ sent[cur] = 4
    BY <1>2, <1>5 DEF DLoadDest, OneRequest
  <2> QED
    BY <1>5, <2>1 DEF DLoadDest, EndedWhole, OneRequest, Loaded
<1>6. CASE DStat
  <2>1. job[cur].kind # "missing"
    BY <1>6 DEF DStat, OneRequest, Undisturbed
  <2>2. pc' = "open" /\ hdr'.req = cur /\ UNCHANGED <<closed, resend>>
    BY <1>6, <2>1 DEF DStat, NewHeader
  <2> QED
    BY <1>6, <2>2 DEF DStat, EndedWhole, OneRequest, Loaded, Holding
<1> QED
  BY <1>1, <1>3, <1>4, <1>5, <1>6

LEMMA SendingWhole ==
  ASSUME Whole, Typed,
         \/ DResend \/ DOpenFails \/ DSendHeader \/ DSendPath
         \/ DSendData \/ DSendDead \/ DSendAnswered \/ DSendInterrupted
         \/ DReadError \/ DAwait \/ DConnect \/ DConnectFails \/ DAuthenticate
  PROVE  Whole'
<1>1. CASE DResend
  BY <1>1 DEF DResend, Whole, EndedWhole, OneRequest, Holding, Loaded,
              serverSide, clientVars, attrVars
<1>2. CASE DConnect
  BY <1>2 DEF DConnect, Whole, EndedWhole, OneRequest, Holding, Loaded,
              clientVars, attrVars
<1>3. Holding \/ pc \in {"top", "attrs", "source", "dest", "stat"}
  BY DEF Whole, OneRequest, Typed, TypeOK, TypeDaemon
<1>4. CASE DOpenFails \/ DReadError \/ DSendInterrupted \/ DConnectFails
  <2>1. CatchForced \/ CloseClient
    BY <1>4 DEF DOpenFails, DReadError, DSendInterrupted, DConnectFails,
                ReplyAndClose
  <2>2. Holding /\ UNCHANGED <<attrVars, cur, sent, result>>
    BY <1>3, <1>4 DEF DOpenFails, DReadError, DSendInterrupted, DConnectFails,
                      serverSide, clientVars, attrVars
  <2> QED
    BY <2>1, <2>2, EndsWhole
<1>5. CASE DSendHeader \/ DSendPath \/ DSendData \/ DSendDead
  <2>1. Holding /\ UNCHANGED <<attrVars, cur, sent, result, closed>>
    BY <1>3, <1>5 DEF DSendHeader, DSendPath, DSendData, DSendDead,
                      serverSide, clientVars, attrVars
  <2>2. \/ CatchClosed
        \/ pc' \in {"path", "data", "await"} /\ UNCHANGED resend
    <3>1. CASE DSendHeader
      BY <3>1 DEF DSendHeader
    <3>2. CASE DSendPath
      BY <3>2 DEF DSendPath, AfterPath
    <3>3. CASE DSendData
      BY <3>3 DEF DSendData, NextChunk
    <3>4. CASE DSendDead
      BY <3>4 DEF DSendDead, NextChunk
    <3> QED
      BY <1>5, <3>1, <3>2, <3>3, <3>4
  <2> QED
    BY <2>1, <2>2, EndsWhole
<1>6. CASE DSendAnswered \/ DAwait \/ DAuthenticate
  <2>1. Holding /\ UNCHANGED <<attrVars, cur, sent, result>>
    BY <1>3, <1>6 DEF DSendAnswered, DAwait, DAuthenticate,
                      serverSide, clientVars, attrVars
  <2>2. \/ CatchForced \/ CloseClient
        \/ CatchClosed /\ UNCHANGED closed
        \/ pc' \in {"top", "data", "await"} /\ UNCHANGED <<closed, resend>>
    BY <1>6 DEF DSendAnswered, DAwait, DAuthenticate, ReplyAndClose,
                ReplyAndForce, NextChunk
  <2> QED
    BY <2>1, <2>2, EndsWhole
<1> QED
  BY <1>1, <1>2, <1>4, <1>5, <1>6

LEMMA ServerApart ==
  ASSUME NEW e \in Epochs,
         SrvThread(e) \/ SrvEnding(e) \/ CrashServer \/ Break(e)
  PROVE  UNCHANGED daemonSide
<1>1. CASE SrvThread(e)
  BY <1>1 DEF SrvThread, SrvAuth, SrvHeader, SrvDiscard, SrvPath, SrvOpen,
              SrvMkdir, SrvRefuse, SrvData, SrvAck, SrvExit
<1>2. CASE SrvEnding(e)
  BY <1>2 DEF SrvEnding, SrvWriteFails, SrvEof, SrvSigpipe, SrvHeaderReset,
              SrvDiscardReset, SrvPathReset, SrvDataReset, DataReset, ServerEnds
<1>3. CASE CrashServer \/ Break(e)
  BY <1>3 DEF CrashServer, ServerEnds, Break
<1> QED
  BY <1>1, <1>2, <1>3

LEMMA ApartWhole ==
  ASSUME Whole, UNCHANGED daemonSide
  PROVE  Whole'
BY DEF Whole, EndedWhole, OneRequest, Holding, Loaded, daemonSide, clientVars,
       attrVars

LEMMA NextWhole ==
  ASSUME Undisturbed
  PROVE  Whole /\ Typed /\ [Next]_vars => Whole'
<1> SUFFICES ASSUME Whole, Typed, [Next]_vars PROVE Whole'
  OBVIOUS
<1>1. 1 \in Epochs
  BY TransferAssumption DEF TransferAssumption, Epochs
<1>2. CASE UNCHANGED vars
  BY <1>2 DEF vars, Whole, EndedWhole, OneRequest, Holding, Loaded,
              clientVars, attrVars
<1>3. CASE Next
  BY <1>1, <1>2, <1>3, ClientWhole, LoadingWhole, SendingWhole, ServerApart,
     ApartWhole DEF Next, Daemon, Quiet
<1> QED
  BY <1>2, <1>3

\* The request sent again after a broken connection is the one that was
\* interrupted: header, source and destination are those of the client that
\* still waits behind client_socket (client_daemon.c, 640-650).
THEOREM ResendsTheRequest ==
  ASSUME Undisturbed
  PROVE  Spec => ResendsCurrent
<1> DEFINE Resending == pc = "top" /\ resend /\ ~resend'
           Own == hdr'.req = cur' /\ src' = cur' /\ dst' = cur'
<1>1. Whole /\ Typed /\ [Next]_vars => [Resending => Own]_vars
  <2> SUFFICES ASSUME Whole, Typed, Next, Resending PROVE Own
    OBVIOUS
  <2>1. Holding
    BY DEF Whole, OneRequest
  <2>2. CASE ~Daemon /\ ~DConnectFails
    <3>1. 1 \in Epochs
      BY TransferAssumption DEF TransferAssumption, Epochs
    <3>2. UNCHANGED resend
      BY <2>2, <3>1, ServerApart
         DEF Next, ClientConnect, ClientSend, ClientReceive, ClientEof,
             ClientInterrupt, othersThanClient, daemonSide, Quiet, vars
    <3> QED
      BY <3>2
  <2>3. CASE Daemon
    <3>1. DResend
      BY <2>3 DEF Daemon, DAccept, DLoadAttrs, DLoadSource, DLoadDest, DStat,
                  DOpenFails, DSendHeader, DSendPath, DSendData, DSendDead,
                  DSendAnswered, DSendInterrupted, DReadError, DAwait,
                  DConnect, DAuthenticate
    <3> QED
      BY <2>1, <3>1 DEF DResend, Holding, Loaded, attrVars
  <2>4. CASE DConnectFails
    BY <2>4 DEF DConnectFails
  <2> QED
    BY <2>2, <2>3, <2>4
<1> QED
  BY InitTyped, NextTyped, InitWhole, NextWhole, <1>1, PTL
     DEF Spec, ResendsCurrent
=============================================================================
