--------------------------- MODULE AlignmentProofs ---------------------------
(***************************************************************************)
(* The two connections of a pair stay in step, and what follows: answers   *)
(* are true, only useless bytes are discarded, and the system is the       *)
(* CopyService it promises to be.                                          *)
(*                                                                         *)
(* The inductive invariant is Aligning.  It says of every pair that the    *)
(* thread's request has its path at a certain position of the data         *)
(* connection and its bytes behind it (Framed); of the open pair, where    *)
(* that position is as the daemon counts (InStep); and which of the        *)
(* daemon's counters and answers are then possible.                        *)
(*                                                                         *)
(* It holds for Regular instances: either nothing breaks, and then         *)
(* anything may be refused (the run refusals), or connections break and    *)
(* servers crash at any step, and then the disk refuses no file (the run   *)
(* recovery).  A refusal before a break is one of the cases in which the   *)
(* code does lose step.  Refusals, Denials and Copies are proved on top    *)
(* of Aligning, each where it holds.                                       *)
(***************************************************************************)
EXTENDS ResendProofs

\* Neither a connection nor a server fails, no command is interrupted, and
\* there are only files: then anything may be refused.
NothingBreaks ==
  /\ MaxBreaks = 0 /\ InterruptAt = {}
  /\ \A j \in Jobs : j.kind = "file"

\* Connections may end, but not with a reset, and every file can be created.
NothingRefused ==
  /\ ~Resets /\ MayRefuse = {}
  /\ \A i, j \in Jobs : i.dest = j.dest => i.kind = j.kind

Regular ==
  /\ Undisturbed /\ ~ReadErrors
  /\ NothingBreaks \/ NothingRefused

-----------------------------------------------------------------------------
\* A header as create_dest_file_attrs makes it, of a client that has sent its
\* whole request.
Proper(req) ==
  /\ req \in Headers /\ req.req \in Clients /\ sent[req.req] = RequestSent
  /\ req.cmd = job[req.req].kind
  /\ \/ req.cmd = "file" /\ req.len = job[req.req].size
     \/ req.cmd = "dir" /\ req.len = 0

\* The thread of pair e has the request req before it or in hand, and the
\* request's path is the unit at the position at of the data connection.
Serving(e, req, at) ==
  \/ st[e] = "hdr" /\ up[e] = <<req>> /\ at = rd[e] + req.discard + 1
  \/ /\ up[e] = <<>> /\ h[e] = req
     /\ \/ st[e] = "discard" /\ at = rd[e] + left[e] + 1
        \/ st[e] = "path" /\ at = rd[e] + 1
        \/ /\ path[e] = Dest(e) /\ path[e] \notin BadPaths
           /\ \/ st[e] = "open" /\ at = rd[e]
              \/ /\ st[e] = "write" /\ req.cmd = "file"
                 /\ at + pos[e] + got[e] = rd[e]
              \/ /\ st[e] = "ack" /\ at + req.len = rd[e]
                 /\ req.cmd = "dir" => req.req \in delivered

\* From there on come the path and the bytes of req, as far as they are sent;
\* what is unread before it are bytes of others.
Layout(e, req, at) ==
  \A i \in 1..Len(data[e]) :
    /\ i = at => data[e][i] = PathUnit(req.req)
    /\ i > at => data[e][i] = ByteUnit(req.req, i - at)
    /\ rd[e] < i /\ i < at => data[e][i].k > 0 /\ data[e][i].r # req.req

AtWork(e) ==
  \/ st[e] \in {"discard", "path", "open", "write", "ack"}
  \/ st[e] = "hdr" /\ up[e] # <<>>

Framed(e) ==
  AtWork(e) =>
    \E req \in Headers, at \in Nat \ {0} :
      Proper(req) /\ Serving(e, req, at) /\ Layout(e, req, at)

-----------------------------------------------------------------------------
Waiting == {"top", "attrs", "source", "dest", "stat", "open"}
Sending == {"data", "await"}
InHand  == {"open", "path", "data", "await", "connect", "auth"}

\* n bytes of the clients in C lie unread in the current data connection.
Useless(n, C) ==
  /\ Len(data[epoch]) = rd[epoch] + n
  /\ \A i \in 1..Len(data[epoch]) :
       i > rd[epoch] => data[epoch][i].k > 0 /\ data[epoch][i].r \in C

Idle == st[epoch] = "hdr" /\ up[epoch] = <<>>

Behind == down[epoch] = <<>> /\ Serving(epoch, hdr, Len(data[epoch]) - off - cnt)
Refusing == down[epoch] = <<"ERR">> /\ Idle /\ Useless(off + cnt, {hdr.req})
Finished == down[epoch] = <<"OK">> /\ Idle /\ Useless(0, {}) /\ pc = "await"
GivenUp == down[epoch] = <<"FORCED">> /\ st[epoch] = "exit"

\* The two ends of a pair that is open.
InStep ==
  link[epoch] = "up" =>
    /\ pc \in Waiting => down[epoch] = <<>> /\ Idle /\ Useless(discard, closed)
    /\ pc = "path" =>
         down[epoch] = <<>> /\ Serving(epoch, hdr, Len(data[epoch]) + 1)
    /\ pc \in Sending => Behind \/ Refusing \/ Finished \/ GivenUp
    /\ pc = "auth" =>
         /\ up[epoch] = <<>> /\ data[epoch] = <<>> /\ rd[epoch] = 0
         /\ \/ st[epoch] = "auth" /\ down[epoch] = <<>>
            \/ st[epoch] = "hdr" /\ down[epoch] = <<"OK">>

\* The daemon's positions in the file and its header.
Counts ==
  /\ pc \in InHand \/ resend => Proper(hdr)
  /\ pc = "data" => /\ hdr.cmd = "file"
                    /\ link[epoch] = "up" => tot = off
  /\ pc = "await" => off = hdr.len /\ cnt = 0

\* What is to be discarded at the server's.
Discards ==
  /\ pc \in {"open", "path"} => hdr.discard = discard
  /\ pc \in {"data", "await", "connect", "auth"} => discard = 0
  /\ ~NothingBreaks => discard = 0 /\ hdr.discard = 0

\* At most one answer is on its way, that to the request being sent.
Answers ==
  /\ pc \in Waiting \cup {"path"} => down[epoch] = <<>>
  /\ pc \in Sending =>
       \/ down[epoch] \in {<<>>, <<"FORCED">>}
       \/ down[epoch] = <<"OK">> /\ pc = "await" /\ hdr.req \in delivered
       \/ down[epoch] = <<"ERR">> /\ (NothingBreaks \/ hdr.len = 0)
  /\ pc = "auth" => down[epoch] \in {<<>>, <<"OK">>}

\* Pairs not opened yet are empty, and no connection is reset.
Unopened ==
  /\ \A e \in Epochs : e > epoch =>
       /\ st[e] = "none" /\ up[e] = <<>> /\ down[e] = <<>>
       /\ data[e] = <<>> /\ rd[e] = 0
  /\ \A e \in Epochs : link[e] # "rst" /\ seen[e] = {}

\* A directory on the disk was asked for.
DirsAskedFor ==
  \A at \in Paths \cup {Junk} :
    files[at].kind = "dir" =>
      \E c \in Clients : job[c].dest = at /\ job[c].kind = "dir"

\* Every client is accepted once.
Queue ==
  /\ \A i, j \in 1..Len(backlog) : backlog[i] = backlog[j] => i = j
  /\ \A i \in 1..Len(backlog) : backlog[i] \notin closed /\ backlog[i] # cur
  /\ \A c \in Clients : c = cur \/ (\E i \in 1..Len(backlog) : backlog[i] = c)
                          => sent[c] # 0

\* Nothing but a message that the thread gives up ends a pair.
Unbroken ==
  /\ ~resend
  /\ pc = "connect" => st[epoch] \in {"exit", "dead"}
  /\ pc \notin Sending \cup {"connect"} => link[epoch] = "up"
  /\ pc \in Sending /\ link[epoch] # "up" =>
       down[epoch] = <<"FORCED">> /\ st[epoch] \in {"exit", "dead"}
  /\ \A e \in Epochs : e < epoch => st[e] \in {"exit", "dead"}
  /\ pc \notin {"top", "connect", "auth"} => cur \notin closed
  /\ \A c \in Clients :
       /\ inbox[c] # "none" => c \in closed
       /\ result[c] # "none" => c \in closed

\* Nobody is told what is not so.
Told ==
  \A c \in Clients :
    /\ inbox[c] = "OK" => c \in delivered
    /\ result[c] \in {"OK", "ERR"} => result[c] = inbox[c]

Aligning ==
  /\ \A e \in Epochs : Framed(e)
  /\ InStep /\ Counts /\ Discards /\ Answers /\ Unopened /\ DirsAskedFor
  /\ Queue /\ Told /\ (NothingBreaks => Unbroken)

-----------------------------------------------------------------------------
(***************************************************************************)
(* Frames                                                                  *)
(***************************************************************************)
LEMMA PairTypes ==
  ASSUME Typed, NEW e \in Epochs
  PROVE  /\ rd[e] \in Nat /\ left[e] \in Nat /\ pos[e] \in Nat /\ got[e] \in Nat
         /\ h[e] \in Headers /\ h[e].len \in Nat /\ h[e].discard \in Nat
         /\ up[e] \in Seq(Headers) /\ down[e] \in Seq(Flags)
         /\ data[e] \in Seq(Units) /\ Len(data[e]) \in Nat
         /\ rd[e] <= Len(data[e]) /\ got[e] <= rd[e]
<1>1. h[e] \in Headers
  BY DEF Typed, TypeOK, TypeThreads
<1>2. h[e].len \in Nat /\ h[e].discard \in Nat
  BY <1>1 DEF Headers
<1>3. /\ up[e] \in Seq(Headers) /\ down[e] \in Seq(Flags)
      /\ data[e] \in Seq(Units) /\ rd[e] \in Nat
  BY DEF Typed, TypeOK, TypeNet
<1>4. Len(data[e]) \in Nat
  BY <1>3
<1> QED
  BY <1>1, <1>2, <1>3, <1>4
     DEF Typed, TypeOK, TypeThreads, NoOverrun, ThreadWithin

LEMMA DaemonTypes ==
  ASSUME Typed
  PROVE  /\ epoch \in Epochs /\ epoch \in Nat
         /\ hdr \in Headers /\ hdr.len \in Nat /\ hdr.discard \in Nat
         /\ off \in Nat /\ cnt \in Nat /\ tot \in Nat /\ discard \in Nat
BY DEF Typed, TypeOK, TypeDaemon, Headers, Epochs

\* What every step of the system respects.
Onwards ==
  /\ UNCHANGED job
  /\ \A c \in Clients : sent[c] = RequestSent => sent'[c] = RequestSent
  /\ delivered \subseteq delivered'

LEMMA ServerLeaves ==
  ASSUME NEW e \in Epochs,
         SrvThread(e) \/ SrvEnding(e) \/ CrashServer \/ Break(e)
  PROVE  Onwards
<1>1. UNCHANGED daemonSide
  BY ServerApart
<1>2. delivered \subseteq delivered'
  BY DEF SrvThread, SrvAuth, SrvHeader, SrvDiscard, SrvPath, SrvOpen,
         SrvMkdir, SrvRefuse, SrvData, SrvAck, SrvExit, SrvEnding,
         SrvWriteFails, SrvEof, SrvSigpipe, SrvHeaderReset, SrvDiscardReset,
         SrvPathReset, SrvDataReset, DataReset, ServerEnds, CrashServer, Break,
         diskVars
<1> QED
  BY <1>1, <1>2 DEF Onwards, daemonSide, clientVars

LEMMA StepOnwards ==
  ASSUME Typed, [Next]_vars
  PROVE  Onwards
<1>1. ASSUME NEW c \in Clients,
             ClientConnect(c) \/ ClientSend(c) \/ ClientReceive(c)
               \/ ClientEof(c) \/ ClientInterrupt(c)
      PROVE  Onwards
  BY <1>1 DEF ClientConnect, ClientSend, ClientReceive, ClientEof,
              ClientInterrupt, othersThanClient, diskVars, Onwards, Typed,
              TypeOK, TypeClients, Connected, SourceSent, RequestSent
<1>2. CASE Daemon \/ DConnectFails \/ Quiet \/ UNCHANGED vars
  BY <1>2 DEF Daemon, DAccept, DResend, DLoadAttrs, DLoadSource, DLoadDest, DStat,
              DOpenFails, DSendHeader, DSendPath, DSendData, DSendDead,
              DSendAnswered, DSendInterrupted, DReadError, DAwait, DConnect,
              DAuthenticate, DConnectFails, Quiet, vars, serverSide, clientVars,
              diskVars, Onwards
<1>3. 1 \in Epochs
  BY TransferAssumption DEF TransferAssumption, Epochs
<1> QED
  BY <1>1, <1>2, <1>3, ServerLeaves DEF Next

ThreadStays(e) ==
  UNCHANGED <<st[e], h[e], path[e], left[e], pos[e], got[e], rd[e], up[e]>>

\* Nothing is added to the data connection of e; the end of it may be lost.
Shortened(e) ==
  /\ Len(data'[e]) <= Len(data[e]) /\ Len(data'[e]) \in Nat
  /\ \A i \in 1..Len(data'[e]) : data'[e][i] = data[e][i]

LEMMA ProperStays ==
  ASSUME Onwards, NEW req, Proper(req)
  PROVE  Proper(req)'
BY DEF Onwards, Proper

LEMMA ServingStays ==
  ASSUME Onwards, NEW e, NEW req, NEW at, Serving(e, req, at), ThreadStays(e)
  PROVE  Serving(e, req, at)'
BY DEF Onwards, Serving, ThreadStays, Dest

LEMMA LayoutStays ==
  ASSUME Typed, NEW e \in Epochs, NEW req, NEW at, Layout(e, req, at),
         rd'[e] \in Nat, rd'[e] >= rd[e], Shortened(e)
  PROVE  Layout(e, req, at)'
<1> SUFFICES ASSUME NEW i \in 1..Len(data'[e])
             PROVE  /\ i = at => data'[e][i] = PathUnit(req.req)
                    /\ i > at => data'[e][i] = ByteUnit(req.req, i - at)
                    /\ rd'[e] < i /\ i < at =>
                         data'[e][i].k > 0 /\ data'[e][i].r # req.req
  BY DEF Layout
<1>1. i \in 1..Len(data[e]) /\ data'[e][i] = data[e][i]
  BY PairTypes DEF Shortened
<1>2. rd'[e] < i => rd[e] < i
  BY PairTypes
<1> QED
  BY <1>1, <1>2 DEF Layout

LEMMA FramedStays ==
  ASSUME Typed, Onwards, NEW e \in Epochs, Framed(e), ThreadStays(e),
         Shortened(e)
  PROVE  Framed(e)'
<1> SUFFICES ASSUME AtWork(e)'
             PROVE  \E req \in Headers, at \in Nat \ {0} :
                      Proper(req)' /\ Serving(e, req, at)' /\ Layout(e, req, at)'
  BY DEF Framed
<1>1. AtWork(e)
  BY DEF AtWork, ThreadStays
<1>2. PICK req \in Headers, at \in Nat \ {0} :
         Proper(req) /\ Serving(e, req, at) /\ Layout(e, req, at)
  BY <1>1 DEF Framed
<1>3. rd'[e] = rd[e] /\ rd[e] \in Nat /\ rd'[e] >= rd[e]
  BY PairTypes DEF ThreadStays
<1> QED
  BY <1>2, <1>3, ProperStays, ServingStays, LayoutStays

\* A thread serves one request at a time, from one position.
LEMMA ServingOne ==
  ASSUME Typed, NEW e \in Epochs,
         NEW r \in Headers, NEW at \in Int, Serving(e, r, at),
         NEW s \in Headers, NEW to \in Int, Serving(e, s, to)
  PROVE  r = s /\ at = to
<1> USE PairTypes
<1>1. CASE st[e] = "hdr"
  <2>1. <<r>> = <<s>> /\ at = rd[e] + r.discard + 1 /\ to = rd[e] + s.discard + 1
    BY <1>1 DEF Serving
  <2> QED
    BY <2>1
<1>2. CASE st[e] # "hdr"
  <2>1. r = s /\ r = h[e]
    BY <1>2 DEF Serving
  <2>2. at = to
    BY <1>2, <2>1 DEF Serving
  <2> QED
    BY <2>1, <2>2
<1> QED
  BY <1>1, <1>2

LEMMA ServingWorks ==
  ASSUME NEW e, NEW req, NEW at, Serving(e, req, at)
  PROVE  /\ AtWork(e)
         /\ st[e] = "hdr" => up[e] = <<req>>
         /\ st[e] # "hdr" => up[e] = <<>> /\ h[e] = req
BY DEF Serving, AtWork

-----------------------------------------------------------------------------
(***************************************************************************)
(* The server's threads                                                    *)
(***************************************************************************)
Sure == Typed /\ Whole /\ OnePairOpen /\ Aligning

PairStays(e) ==
  ThreadStays(e) /\ UNCHANGED <<data[e], down[e], link[e], seen[e]>>

LEMMA PairApart ==
  ASSUME Typed, NEW e \in Epochs, NEW d \in Epochs, d # e, ~SrvSigpipe(e),
         SrvThread(e) \/ SrvEnding(e) \/ Break(e)
  PROVE  PairStays(d)
<1> USE DEF Typed, TypeOK, TypeNet, TypeThreads, PairStays, ThreadStays
<1>1. CASE SrvAuth(e) \/ SrvHeader(e) \/ SrvDiscard(e) \/ SrvExit(e)
  BY <1>1 DEF SrvAuth, SrvHeader, SrvDiscard, SrvExit, BeginRequest
<1>0. ASSUME NEW flag, NEW next, Send(e, flag, next)
      PROVE  UNCHANGED <<st[d], down[d], link[d]>>
  BY <1>0 DEF Send
<1>2. CASE SrvPath(e)
  <2>1. UNCHANGED <<st[d], down[d], link[d]>>
    BY <1>0, <1>2 DEF SrvPath
  <2> QED
    BY <1>2, <2>1 DEF SrvPath
<1>7. CASE SrvRefuse(e) \/ SrvAck(e) \/ SrvWriteFails(e)
  <2>1. UNCHANGED <<st[d], down[d], link[d]>>
    BY <1>0, <1>7 DEF SrvRefuse, SrvAck, SrvWriteFails
  <2> QED
    BY <1>7, <2>1 DEF SrvRefuse, SrvAck, SrvWriteFails
<1>3. CASE SrvOpen(e) \/ SrvMkdir(e) \/ SrvEof(e)
  BY <1>3 DEF SrvOpen, SrvMkdir, SrvEof, netVars
<1>4. CASE SrvData(e)
  BY <1>4, SMTT(30) DEF SrvData, WriteChunk
<1>5. CASE SrvHeaderReset(e) \/ SrvDiscardReset(e) \/ SrvPathReset(e)
             \/ SrvDataReset(e)
  BY <1>5 DEF SrvHeaderReset, SrvDiscardReset, SrvPathReset, SrvDataReset,
              DataReset, BeginRequest, WriteChunk, netVars
<1>6. CASE Break(e)
  BY <1>6 DEF Break, thrVars
<1> QED
  BY <1>1, <1>2, <1>3, <1>4, <1>5, <1>6, <1>7 DEF SrvThread, SrvEnding

\* With the daemon's own state unchanged, what concerns only that stays true.
LEMMA DaemonSideStays ==
  ASSUME Typed, Aligning, Onwards, OnlyCloses, UNCHANGED daemonSide
  PROVE  Counts' /\ Discards' /\ Queue' /\ Told'
<1> USE DEF daemonSide, clientVars, attrVars, fileVars
<1>1. link[epoch] # "up" => link'[epoch] # "up"
  BY DaemonTypes DEF OnlyCloses
<1>2. Proper(hdr) => Proper(hdr)'
  BY ProperStays
<1>3. Counts'
  BY <1>1, <1>2 DEF Aligning, Counts, ChunkLen
<1>4. Discards'
  BY DEF Aligning, Discards, NothingBreaks
<1>5. Queue'
  BY DEF Aligning, Queue
<1>6. Told'
  BY DEF Aligning, Told, Onwards
<1> QED
  BY <1>3, <1>4, <1>5, <1>6

LEMMA ProperPositions ==
  ASSUME Typed, NEW e \in Epochs
  PROVE  /\ Len(data[e]) + 1 \in Int
         /\ Len(data[epoch]) + 1 \in Int /\ Len(data[epoch]) - off - cnt \in Int
BY PairTypes, DaemonTypes

\* The current pair, if another moves.
LEMMA InStepStays ==
  ASSUME Onwards, InStep, ThreadStays(epoch),
         UNCHANGED <<pc, closed, hdr, discard, off, cnt, epoch>>,
         UNCHANGED <<data[epoch], down[epoch], link[epoch]>>
  PROVE  InStep'
<1> USE DEF ThreadStays
<1>1. \A at : Serving(epoch, hdr, at) => Serving(epoch, hdr, at)'
  BY ServingStays
<1>2. Idle => Idle'
  BY DEF Idle
<1>3. \A n, C : Useless(n, C) => Useless(n, C)'
  BY DEF Useless
<1>4. Behind => Behind'
  BY <1>1 DEF Behind
<1>5. Refusing => Refusing'
  BY <1>2, <1>3 DEF Refusing
<1>6. Finished => Finished'
  BY <1>2, <1>3 DEF Finished
<1>7. GivenUp => GivenUp'
  BY DEF GivenUp
<1> QED
  BY <1>1, <1>2, <1>3, <1>4, <1>5, <1>6, <1>7 DEF InStep

LEMMA AnswersStay ==
  ASSUME Onwards, Answers, UNCHANGED <<pc, hdr, epoch, down[epoch]>>
  PROVE  Answers'
BY DEF Answers, Onwards, NothingBreaks

LEMMA PairElsewhere ==
  ASSUME Typed, Onwards, NEW e \in Epochs, Framed(e), PairStays(e)
  PROVE  Framed(e)'
<1>1. Shortened(e)
  BY PairTypes DEF PairStays, Shortened
<1> QED
  BY <1>1, FramedStays DEF PairStays

\* Where nothing breaks, the only thread alive is that of an open pair.
LEMMA Living ==
  ASSUME Sure, NothingBreaks, NEW e \in Epochs, 
         st[e] \notin {"none", "exit", "dead"}
  PROVE  e = epoch /\ link[epoch] = "up" /\ pc # "connect"
<1>1. epoch \in Epochs /\ e \in Int /\ epoch \in Int
  BY DaemonTypes DEF Sure, Epochs
<1>2. e = epoch
  BY <1>1 DEF Sure, Aligning, Unbroken, Unopened
<1> QED
  BY <1>2 DEF Sure, Aligning, Unbroken

\* A thread moves and keeps the connections as they are.
LEMMA ThreadAligns ==
  ASSUME Sure, Onwards, OnlyCloses, NEW e \in Epochs,
         st[e] \notin {"none", "exit", "dead"},
         UNCHANGED daemonSide, UNCHANGED <<link, seen>>,
         \A d \in Epochs : d # e => PairStays(d),
         Framed(e)', DirsAskedFor', e = epoch => InStep' /\ Answers'
  PROVE  Aligning'
<1>1. Counts' /\ Discards' /\ Queue' /\ Told'
  BY DaemonSideStays DEF Sure
<1>2. \A d \in Epochs : Framed(d)'
  BY PairElsewhere DEF Sure, Aligning
<1>3. epoch \in Epochs /\ epoch' = epoch /\ pc' = pc
  BY DaemonTypes DEF Sure, daemonSide
<1>4. InStep' /\ Answers'
  <2>1. CASE e # epoch
    BY <1>3, <2>1, InStepStays, AnswersStay
       DEF Sure, Aligning, PairStays, daemonSide, attrVars, fileVars
  <2> QED
    BY <2>1
<1>5. Unopened'
  <2>1. e <= epoch
    BY <1>3 DEF Sure, Aligning, Unopened, Epochs
  <2> QED
    BY <1>3, <2>1 DEF Sure, Aligning, Unopened, PairStays, ThreadStays, Epochs
<1>6. NothingBreaks => Unbroken'
  <2> SUFFICES ASSUME NothingBreaks PROVE Unbroken'
    OBVIOUS
  <2>1. e = epoch /\ link[epoch] = "up" /\ pc # "connect"
    BY Living
  <2>2. \A d \in Epochs : d < epoch => d # epoch
    BY <1>3 DEF Epochs
  <2> QED
    BY <1>3, <2>1, <2>2
       DEF Sure, Aligning, Unbroken, daemonSide, clientVars, PairStays, ThreadStays
<1>7. NothingBreaks' <=> NothingBreaks
  BY DEF NothingBreaks
<1> QED
  BY <1>1, <1>2, <1>4, <1>5, <1>6, <1>7 DEF Aligning

\* A thread goes on with its request and says nothing.
LEMMA ThreadGoesOn ==
  ASSUME Sure, Typed', Onwards, OnlyCloses, NEW e \in Epochs,
         NEW req \in Headers, NEW at \in Nat \ {0},
         Proper(req), Serving(e, req, at), Layout(e, req, at),
         Serving(e, req, at)', rd'[e] >= rd[e],
         UNCHANGED daemonSide, UNCHANGED <<link, seen, data, down>>,
         \A d \in Epochs : d # e => PairStays(d), DirsAskedFor'
  PROVE  Aligning'
<1>1. st[e] \notin {"none", "exit", "dead"} /\ AtWork(e)
  BY ServingWorks DEF AtWork
<1>2. Framed(e)'
  <2>1. Shortened(e)
    BY PairTypes DEF Shortened, Sure
  <2>2. rd'[e] \in Nat
    BY DEF Typed, TypeOK, TypeNet
  <2> QED
    BY <2>1, <2>2, ProperStays, LayoutStays DEF Framed, Sure
<1>3. ASSUME e = epoch PROVE InStep' /\ Answers'
  <2>1. Answers'
    BY AnswersStay DEF Sure, Aligning, daemonSide, attrVars
  <2>2. SUFFICES ASSUME link[epoch] = "up" PROVE InStep'
    BY <2>1 DEF InStep, daemonSide
  <2>3. ~Idle /\ st[epoch] # "exit" /\ st[epoch] # "auth"
        /\ (st[epoch] = "hdr" => up[epoch] # <<>>)
    BY <1>1, <1>3 DEF Idle, AtWork
  <2>4. \A to \in Int : Serving(epoch, hdr, to) => Serving(epoch, hdr, to)'
    BY <1>3, ServingOne, DaemonTypes DEF Sure, daemonSide, attrVars
  <2>5. CASE pc = "path"
    <3>1. Len(data[epoch]) + 1 \in Int
      BY ProperPositions DEF Sure
    <3>2. down[epoch] = <<>> /\ Serving(epoch, hdr, Len(data[epoch]) + 1)
      BY <2>2, <2>5 DEF Sure, Aligning, InStep
    <3> QED
      BY <2>4, <2>5, <3>1, <3>2
         DEF InStep, daemonSide, attrVars, Waiting, Sending
  <2>6. CASE pc \in Sending
    <3>1. Len(data[epoch]) - off - cnt \in Int
      BY <1>3, ProperPositions DEF Sure
    <3>2. Behind
      BY <2>2, <2>3, <2>6
         DEF Sure, Aligning, InStep, Refusing, Finished, GivenUp
    <3>3. Behind'
      BY <2>4, <3>1, <3>2 DEF Behind, daemonSide, attrVars, fileVars
    <3> QED
      BY <2>6, <3>3 DEF InStep, daemonSide, Waiting, Sending
  <2>7. CASE pc \notin Sending /\ pc # "path"
    BY <2>2, <2>3, <2>7 DEF Sure, Aligning, InStep, daemonSide
  <2> QED
    BY <2>1, <2>5, <2>6, <2>7
<1> QED
  BY <1>1, <1>2, <1>3, ThreadAligns

\* A thread sends its answer: the daemon is sending just this request.
LEMMA ThreadAnswers ==
  ASSUME Sure, Typed', Onwards, OnlyCloses, NEW e \in Epochs,
         NEW req \in Headers, NEW at \in Nat \ {0},
         Proper(req), Serving(e, req, at), Layout(e, req, at),
         st[e] # "hdr", at <= Len(data[e]),
         NEW flag, Send(e, flag, IF flag = "FORCED" THEN "exit" ELSE "hdr"),
         \/ flag = "OK" /\ at + req.len = rd'[e] /\ req.req \in delivered'
         \/ flag = "ERR" /\ rd'[e] = at /\ (NothingBreaks \/ req.len = 0)
         \/ flag = "FORCED",
         UNCHANGED daemonSide, UNCHANGED <<seen, data, up>>,
         \A d \in Epochs : d # e => PairStays(d), DirsAskedFor'
  PROVE  Aligning'
<1> USE DEF daemonSide, attrVars, fileVars
<1>1. st[e] \notin {"none", "exit", "dead"} /\ AtWork(e) /\ up[e] = <<>>
  BY DEF Serving, AtWork
<1>2. /\ UNCHANGED link
      /\ st'[e] = "dead" \/ st'[e] = IF flag = "FORCED" THEN "exit" ELSE "hdr"
  BY DEF Send, Sure, Typed, TypeOK, TypeThreads
<1>3. Framed(e)'
  BY <1>1, <1>2 DEF Framed, AtWork
<1>4. ASSUME e = epoch, link[epoch] # "up" PROVE InStep' /\ Answers'
  <2>1. UNCHANGED down
    BY <1>4 DEF Send
  <2> QED
    BY <1>2, <1>4, <2>1, AnswersStay DEF Sure, Aligning, InStep
<1>5. ASSUME e = epoch, link[epoch] = "up" PROVE InStep' /\ Answers'
  <2>1. /\ down'[epoch] = Append(down[epoch], flag)
        /\ st'[epoch] = IF flag = "FORCED" THEN "exit" ELSE "hdr"
    BY <1>5 DEF Send, Sure, Typed, TypeOK, TypeThreads, TypeNet
  <2>2. pc # "path"
    <3>1. pc = "path" => at = Len(data[epoch]) + 1
      BY <1>5, ServingOne, ProperPositions, DaemonTypes DEF Sure, Aligning, InStep
    <3> QED
      BY <1>5, <3>1, PairTypes DEF Sure
  <2>3. pc \in Sending
    BY <1>1, <1>5, <2>2
       DEF Sure, Aligning, InStep, Idle, AtWork, OnePairOpen, Typed, TypeOK,
           TypeDaemon, Waiting, Sending
  <2>4. Behind
    BY <1>1, <1>5, <2>3
       DEF Sure, Aligning, InStep, Refusing, Finished, GivenUp, Idle, AtWork
  <2>5. hdr = req /\ at = Len(data[epoch]) - off - cnt
    BY <1>5, <2>4, ServingOne, ProperPositions, DaemonTypes DEF Sure, Behind
  <2>6. down'[epoch] = <<flag>>
    BY <2>1, <2>4 DEF Behind
  <2>7. Len(data[epoch]) \in Nat /\ rd'[epoch] \in Nat /\ rd'[epoch] <= Len(data[epoch])
    BY <1>5, PairTypes
       DEF Sure, Typed, TypeOK, TypeNet, NoOverrun, ThreadWithin
  <2>8. CASE flag = "FORCED"
    BY <2>1, <2>3, <2>6, <2>8 DEF InStep, Answers, GivenUp, Waiting, Sending
  <2>9. CASE flag = "ERR"
    <3>1. Len(data[epoch]) = rd'[epoch] + (off + cnt)
      BY <1>5, <2>5, <2>7, <2>9, DaemonTypes DEF Sure
    <3>2. ASSUME NEW i \in 1..Len(data[epoch]), i > rd'[epoch]
          PROVE  data[epoch][i].k > 0 /\ data[epoch][i].r \in {hdr.req}
      <4>1. i > at /\ data[epoch][i] = ByteUnit(req.req, i - at)
        BY <1>5, <2>9, <3>2 DEF Layout
      <4> QED
        BY <2>5, <2>7, <4>1 DEF ByteUnit
    <3>3. Refusing'
      BY <1>1, <1>5, <2>1, <2>6, <2>9, <3>1, <3>2 DEF Refusing, Idle, Useless
    <3> QED
      BY <2>3, <2>5, <2>6, <2>9, <3>3
         DEF InStep, Answers, Waiting, Sending, NothingBreaks
  <2>10. CASE flag = "OK"
    <3>1. off + cnt >= hdr.len
      BY <1>5, <2>5, <2>7, <2>10, DaemonTypes, SMTT(30) DEF Sure
    <3>2. pc = "await"
      <4> SUFFICES ASSUME pc = "data" PROVE FALSE
        BY <2>3 DEF Sending
      <4>1. /\ ChunkLen \in Nat /\ cnt < ChunkLen /\ off + ChunkLen <= hdr.len
            /\ off \in Nat /\ cnt \in Nat /\ hdr.len \in Nat
        BY DaemonChunk, DaemonTypes DEF Sure
      <4> QED
        BY ONLY <3>1, <4>1
    <3>3. Len(data[epoch]) = rd'[epoch]
      BY <1>5, <2>5, <2>7, <2>10, <3>2, DaemonTypes DEF Sure, Aligning, Counts
    <3>4. Useless(0, {})'
      BY <2>7, <3>3 DEF Useless
    <3>5. Finished'
      BY <1>1, <1>5, <2>1, <2>6, <2>10, <3>2, <3>4 DEF Finished, Idle
    <3> QED
      BY <2>3, <2>5, <2>6, <2>10, <3>2, <3>5
         DEF InStep, Answers, Waiting, Sending
  <2> QED
    BY <2>8, <2>9, <2>10
<1> QED
  BY <1>1, <1>2, <1>3, <1>4, <1>5, ThreadAligns

\* The n elements that follow the first m.
LEMMA Slice ==
  ASSUME NEW S, NEW s \in Seq(S), NEW m \in Nat, NEW n \in Nat,
         m + n <= Len(s)
  PROVE  /\ Len(SubSeq(s, m + 1, m + n)) = n
         /\ SubSeq(s, m + 1, m + n) = [k \in 1..n |-> s[m + k]]
<1> DEFINE t == SubSeq(s, m + 1, m + n)
<1>1. /\ m + 1 \in Int /\ m + n \in Int /\ Len(s) \in Nat
      /\ \A i \in (m + 1)..(m + n) : i \in 1..Len(s)
  OBVIOUS
<1>2. \A i \in (m + 1)..(m + n) : s[i] \in S
  BY <1>1
<1>3. /\ t \in Seq(S) /\ Len(t) = IF m + 1 <= m + n THEN m + n - (m + 1) + 1 ELSE 0
      /\ \A i \in 1..(m + n - (m + 1) + 1) : t[i] = s[m + 1 + i - 1]
  <2>1. t \in Seq(S)
    BY <1>1, <1>2, SubSeqProperties
  <2>2. Len(t) = IF m + 1 <= m + n THEN m + n - (m + 1) + 1 ELSE 0
    BY <1>1, <1>2, SubSeqProperties
  <2>3. \A i \in 1..(m + n - (m + 1) + 1) : t[i] = s[m + 1 + i - 1]
    BY <1>1, <1>2, SubSeqProperties
  <2> QED
    BY <2>1, <2>2, <2>3
<1>4. /\ m + n - (m + 1) + 1 = n /\ (m + 1 <= m + n <=> n > 0)
      /\ \A i \in 1..n : m + 1 + i - 1 = m + i
  OBVIOUS
<1>5. Len(t) = n
  <2>1. CASE n > 0
    BY <1>3, <1>4, <2>1, Zenon
  <2>2. CASE ~(n > 0)
    <3>1. n = 0
      BY <2>2
    <3> QED
      BY <1>3, <1>4, <2>2, <3>1, Zenon
  <2> QED
    BY <2>1, <2>2
<1>6. \A i \in 1..n : t[i] = s[m + i]
  BY <1>3, <1>4
<1>7. t = [i \in 1..n |-> t[i]]
  BY <1>3, <1>5
<1> QED
  BY <1>5, <1>6, <1>7

\* What is known of every step of the thread of pair e.
Moving(e) ==
  /\ Typed' /\ Onwards /\ OnlyCloses
  /\ \A d \in Epochs : d # e => PairStays(d)

LEMMA DirsStay ==
  ASSUME DirsAskedFor, Onwards,
         \A at \in Paths \cup {Junk} :
           files'[at].kind = "dir" => files[at].kind = "dir"
  PROVE  DirsAskedFor'
BY DEF DirsAskedFor, Onwards

LEMMA StoreKinds ==
  ASSUME Typed, NEW e \in Epochs, NEW at, NEW units, Store(e, at, units)
  PROVE  \A d \in Paths \cup {Junk} : files'[d].kind = files[d].kind
<1>1. files \in [Paths \cup {Junk} -> FileStates] /\ path[e] \in Paths \cup {Junk}
  BY DEF Typed, TypeOK, TypeDisk, TypeThreads
<1>2. CASE files[path[e]].kind = "file"
  <2>1. PICK bytes : files' = [files EXCEPT ![path[e]].bytes = bytes]
    BY <1>2 DEF Store
  <2> QED
    BY <1>1, <2>1 DEF FileStates
<1>3. CASE files[path[e]].kind # "file"
  BY <1>3 DEF Store
<1> QED
  BY <1>2, <1>3

LEMMA WhatIsServed ==
  ASSUME Sure, NEW e \in Epochs, AtWork(e)
  PROVE  \E req \in Headers, at \in Nat \ {0} :
           /\ Proper(req) /\ Serving(e, req, at) /\ Layout(e, req, at)
           /\ req.len \in Nat /\ req.discard \in Nat
BY DEF Sure, Aligning, Framed, Headers

LEMMA HeaderAligns ==
  ASSUME Sure, NEW e \in Epochs, Moving(e), SrvHeader(e)
  PROVE  Aligning'
<1> USE DEF Moving
<1>1. AtWork(e)
  BY DEF SrvHeader, AtWork
<1>2. PICK req \in Headers, at \in Nat \ {0} :
        /\ Proper(req) /\ Serving(e, req, at) /\ Layout(e, req, at)
        /\ req.len \in Nat /\ req.discard \in Nat
  BY <1>1, WhatIsServed
<1>3. up[e] = <<req>> /\ at = rd[e] + req.discard + 1
  BY <1>2 DEF SrvHeader, Serving
<1>4. /\ up'[e] = <<>> /\ h'[e] = req /\ left'[e] = req.discard /\ rd'[e] = rd[e]
      /\ st'[e] = IF req.discard > 0 THEN "discard" ELSE "path"
  <2>1. MoreChunks(req.discard, 0) <=> req.discard > 0
    BY <1>2, NoChunks
  <2> QED
    BY <1>3, <2>1 DEF SrvHeader, BeginRequest, ToDiscard, Sure, Typed, TypeOK,
                      TypeNet, TypeThreads
<1>5. Serving(e, req, at)'
  <2>1. CASE req.discard > 0
    BY <1>3, <1>4, <2>1 DEF Serving
  <2>2. CASE ~(req.discard > 0)
    <3>1. req.discard = 0 /\ at = rd[e] + 1
      BY <1>2, <1>3, <2>2, PairTypes DEF Sure
    <3> QED
      BY <1>3, <1>4, <3>1 DEF Serving
  <2> QED
    BY <2>1, <2>2
<1>6. DirsAskedFor'
  BY DirsStay DEF SrvHeader, diskVars, Sure, Aligning
<1> QED
  BY <1>2, <1>4, <1>5, <1>6, PairTypes, ThreadGoesOn DEF SrvHeader, Sure

LEMMA DiscardAligns ==
  ASSUME Sure, NEW e \in Epochs, Moving(e), SrvDiscard(e)
  PROVE  Aligning'
<1> USE DEF Moving
<1>1. AtWork(e)
  BY DEF SrvDiscard, AtWork
<1>2. PICK req \in Headers, at \in Nat \ {0} :
        Proper(req) /\ Serving(e, req, at) /\ Layout(e, req, at)
  BY <1>1, WhatIsServed
<1>3. up[e] = <<>> /\ h[e] = req /\ at = rd[e] + left[e] + 1
  BY <1>2 DEF SrvDiscard, Serving
<1>4. /\ up'[e] = <<>> /\ h'[e] = req /\ left'[e] = left[e] - 1
      /\ rd'[e] = rd[e] + 1
      /\ st'[e] = IF left[e] = 1 THEN "path" ELSE "discard"
  <2>1. DiscardDone(e) <=> left[e] = 1
    BY DiscardByte DEF SrvDiscard, Sure
  <2> QED
    BY <1>3, <2>1, SMTT(30) DEF SrvDiscard, Sure, Typed, TypeOK, TypeNet, TypeThreads
<1>5. Serving(e, req, at)'
  <2>1. rd[e] \in Nat /\ left[e] \in Nat
    BY PairTypes DEF Sure
  <2>2. /\ at = rd'[e] + left'[e] + 1
        /\ left[e] = 1 => at = rd'[e] + 1
    BY <1>3, <1>4, <2>1
  <2> QED
    BY <1>4, <2>2 DEF Serving
<1>6. DirsAskedFor'
  BY DirsStay DEF SrvDiscard, diskVars, Sure, Aligning
<1> QED
  BY <1>2, <1>4, <1>5, <1>6, PairTypes, ThreadGoesOn DEF SrvDiscard, Sure

LEMMA PathAligns ==
  ASSUME Sure, NEW e \in Epochs, Moving(e), SrvPath(e)
  PROVE  Aligning'
<1> USE DEF Moving
<1>1. AtWork(e)
  BY DEF SrvPath, AtWork
<1>2. PICK req \in Headers, at \in Nat \ {0} :
        Proper(req) /\ Serving(e, req, at) /\ Layout(e, req, at)
  BY <1>1, WhatIsServed
<1>3. up[e] = <<>> /\ h[e] = req /\ at = rd[e] + 1
  BY <1>2 DEF SrvPath, Serving
<1>4. rd'[e] = rd[e] + 1 /\ rd'[e] >= rd[e] /\ at <= Len(data[e])
      /\ at \in 1..Len(data[e])
  BY <1>3, PairTypes, SMTT(30) DEF SrvPath, Unread, Sure, Typed, TypeOK, TypeNet
<1>5. data[e][rd[e] + 1] = PathUnit(req.req)
  BY <1>2, <1>3, <1>4 DEF Layout
<1>6. path'[e] = PathIn(PathUnit(req.req))
  BY <1>5 DEF SrvPath, Sure, Typed, TypeOK, TypeThreads
<1>7. path'[e] = job[req.req].dest /\ req.req # None
  BY <1>2, <1>6, TransferAssumption
     DEF PathIn, PathUnit, Proper, TransferAssumption
<1>8. DirsAskedFor'
  BY DirsStay DEF SrvPath, diskVars, Sure, Aligning
<1>9. CASE path'[e] \in BadPaths
  <2>1. Send(e, "FORCED", "exit")
    BY <1>9 DEF SrvPath
  <2> QED
    BY <1>2, <1>4, <1>8, <2>1, ThreadAnswers DEF SrvPath
<1>10. CASE path'[e] \notin BadPaths
  <2>1. /\ st'[e] = "open" /\ h'[e] = req /\ up'[e] = <<>>
        /\ UNCHANGED <<down, link, data, job>>
    BY <1>3, <1>10
       DEF SrvPath, daemonSide, clientVars, Sure, Typed, TypeOK, TypeThreads
  <2>2. Serving(e, req, at)'
    BY <1>3, <1>4, <1>7, <1>10, <2>1 DEF Serving, Dest
  <2> QED
    BY <1>2, <1>4, <1>8, <2>1, <2>2, ThreadGoesOn DEF SrvPath
<1> QED
  BY <1>9, <1>10

LEMMA OpenAligns ==
  ASSUME Sure, NEW e \in Epochs, Moving(e), SrvOpen(e) \/ SrvMkdir(e)
  PROVE  Aligning'
<1> USE DEF Moving
<1>1. AtWork(e) /\ st[e] = "open"
  BY DEF SrvOpen, SrvMkdir, AtWork
<1>2. PICK req \in Headers, at \in Nat \ {0} :
        /\ Proper(req) /\ Serving(e, req, at) /\ Layout(e, req, at)
        /\ req.len \in Nat
  BY <1>1, WhatIsServed
<1>3. /\ up[e] = <<>> /\ h[e] = req /\ at = rd[e]
      /\ path[e] = Dest(e) /\ path[e] \notin BadPaths
  BY <1>1, <1>2 DEF Serving
<1>4. UNCHANGED <<daemonSide, netVars, h, path, seen>> /\ Dest(e)' = Dest(e)
  BY DEF SrvOpen, SrvMkdir, Dest, daemonSide, clientVars
<1>5. rd'[e] = rd[e] /\ rd'[e] >= rd[e]
  BY <1>4, PairTypes DEF netVars, Sure
<1>6. path[e] = job[req.req].dest /\ path[e] \in Paths \cup {Junk}
  BY <1>2, <1>3, TransferAssumption
     DEF Dest, Proper, TransferAssumption, Sure, Typed, TypeOK, TypeThreads
<1>7. CASE SrvOpen(e)
  <2>0. req.len \in Nat /\ (MoreChunks(req.len, 0) <=> req.len > 0)
    BY NoChunks DEF Headers
  <2>1. /\ pos'[e] = 0 /\ got'[e] = 0 /\ req.cmd = "file"
        /\ st'[e] = IF req.len = 0 THEN "ack" ELSE "write"
    BY <1>3, <1>7, <2>0 DEF SrvOpen, FirstState, Sure, Typed, TypeOK, TypeThreads
  <2>2. Serving(e, req, at)'
    BY <1>3, <1>4, <2>1 DEF Serving, netVars
  <2>3. DirsAskedFor'
    BY <1>6, <1>7, DirsStay
       DEF SrvOpen, File, Sure, Aligning, Typed, TypeOK, TypeDisk
  <2> QED
    BY <1>2, <1>4, <1>5, <2>2, <2>3, ThreadGoesOn DEF netVars
<1>8. CASE SrvMkdir(e)
  <2>1. /\ st'[e] = "ack" /\ req.cmd = "dir" /\ req.req \in delivered'
        /\ req.len = 0
    BY <1>2, <1>3, <1>8 DEF SrvMkdir, Proper, Sure, Typed, TypeOK, TypeThreads
  <2>2. Serving(e, req, at)'
    BY <1>3, <1>4, <2>1 DEF Serving, netVars
  <2>3. DirsAskedFor'
    <3>1. files' = [files EXCEPT ![path[e]] = Directory]
      BY <1>8 DEF SrvMkdir
    <3>2. \A d \in Paths \cup {Junk} : d # path[e] => files'[d] = files[d]
      BY <3>1 DEF Sure, Typed, TypeOK, TypeDisk
    <3>3. /\ job[req.req].dest = path[e] /\ job[req.req].kind = "dir"
          /\ req.req \in Clients
      BY <1>2, <1>6, <2>1 DEF Proper
    <3> QED
      BY <3>2, <3>3 DEF DirsAskedFor, Sure, Aligning, Onwards
  <2> QED
    BY <1>2, <1>4, <1>5, <2>2, <2>3, ThreadGoesOn DEF netVars
<1> QED
  BY <1>7, <1>8

\* Only a directory is refused where connections may break.
LEMMA RefuseAligns ==
  ASSUME Regular, Sure, NEW e \in Epochs, Moving(e), SrvRefuse(e)
  PROVE  Aligning'
<1> USE DEF Moving
<1>1. AtWork(e) /\ st[e] = "open"
  BY DEF SrvRefuse, Refused, AtWork
<1>2. PICK req \in Headers, at \in Nat \ {0} :
        Proper(req) /\ Serving(e, req, at) /\ Layout(e, req, at)
  BY <1>1, WhatIsServed
<1>3. h[e] = req /\ at = rd[e] /\ path[e] = Dest(e)
  BY <1>1, <1>2 DEF Serving
<1>4. job[req.req] \in Jobs /\ path[e] = job[req.req].dest
      /\ path[e] \in Paths /\ path[e] # Junk
  BY <1>2, <1>3, TransferAssumption
     DEF Dest, Proper, TransferAssumption, Sure, Typed, TypeOK, TypeClients
<1>5. NothingBreaks \/ req.len = 0
  <2> SUFFICES ASSUME NothingRefused, req.cmd = "file" PROVE FALSE
    BY <1>2 DEF Regular, Proper
  <2>1. files[path[e]].kind = "dir"
    BY <1>3, <1>4 DEF SrvRefuse, Refused, NothingRefused
  <2>2. PICK c \in Clients : job[c].dest = path[e] /\ job[c].kind = "dir"
    BY <1>4, <2>1 DEF Sure, Aligning, DirsAskedFor
  <2>3. job[c] \in Jobs /\ job[req.req].kind = "file"
    BY <1>2 DEF Proper, Sure, Typed, TypeOK, TypeClients
  <2> QED
    BY <1>4, <2>2, <2>3 DEF NothingRefused
<1>6. DirsAskedFor'
  BY DirsStay DEF SrvRefuse, diskVars, Sure, Aligning
<1>7. at <= Len(data[e]) /\ rd'[e] = at
  BY <1>3, PairTypes DEF SrvRefuse, Sure
<1>8. Send(e, "ERR", "hdr")
  BY DEF SrvRefuse
<1> QED
  BY <1>1, <1>2, <1>5, <1>6, <1>7, <1>8, ThreadAnswers DEF SrvRefuse

LEMMA DataAligns ==
  ASSUME Sure, NEW e \in Epochs, Moving(e), SrvData(e)
  PROVE  Aligning'
<1> USE DEF Moving
<1>1. AtWork(e) /\ st[e] = "write"
  BY DEF SrvData, AtWork
<1>2. PICK req \in Headers, at \in Nat \ {0} :
        Proper(req) /\ Serving(e, req, at) /\ Layout(e, req, at)
  BY <1>1, WhatIsServed
<1>3. /\ up[e] = <<>> /\ h[e] = req /\ at + pos[e] + got[e] = rd[e]
      /\ path[e] = Dest(e) /\ path[e] \notin BadPaths /\ req.cmd = "file"
  BY <1>1, <1>2 DEF Serving
<1>4. /\ rd'[e] = rd[e] + 1 /\ rd'[e] >= rd[e] /\ up'[e] = <<>> /\ h'[e] = req
      /\ UNCHANGED path /\ Dest(e)' = Dest(e)
  BY <1>3, PairTypes DEF SrvData, Sure, Typed, TypeOK, TypeNet, Dest, daemonSide,
                         clientVars
<1>5. /\ got[e] < WriteLen(e) /\ WriteLen(e) \in Nat
      /\ pos[e] + WriteLen(e) <= h[e].len
      /\ MoreChunks(h[e].len, pos[e] + WriteLen(e))
           <=> pos[e] + WriteLen(e) # h[e].len
  BY <1>1, ThreadChunk DEF Sure
<1>6. CASE got[e] + 1 < WriteLen(e)
  <2>1. got'[e] = got[e] + 1 /\ UNCHANGED <<files, pos, st>>
    BY <1>6 DEF SrvData, Sure, Typed, TypeOK, TypeThreads
  <2>2. Serving(e, req, at)'
    BY <1>1, <1>3, <1>4, <2>1, PairTypes DEF Serving, Sure
  <2>3. DirsAskedFor'
    BY <2>1, DirsStay DEF Sure, Aligning
  <2> QED
    BY <1>2, <1>4, <2>2, <2>3, ThreadGoesOn DEF SrvData
<1>7. CASE ~(got[e] + 1 < WriteLen(e))
  <2> DEFINE units == SubSeq(data[e], rd[e] - got[e] + 1, rd[e] + 1)
  <2>1. WriteChunk(e, units)
    BY <1>7 DEF SrvData
  <2>2. Len(units) = got[e] + 1
    <3>1. /\ rd[e] - got[e] \in Nat /\ got[e] + 1 \in Nat
          /\ data[e] \in Seq(Units) /\ (rd[e] - got[e]) + (got[e] + 1) = rd[e] + 1
          /\ rd[e] + 1 <= Len(data[e])
      BY PairTypes DEF SrvData, Unread, Sure
    <3> QED
      BY <3>1, Slice
  <2> HIDE DEF units
  <2>3. /\ pos'[e] = pos[e] + (got[e] + 1) /\ got'[e] = 0
        /\ st'[e] = IF pos[e] + (got[e] + 1) = req.len THEN "ack" ELSE "write"
    <3>1. got[e] + 1 = WriteLen(e)
      BY <1>5, <1>7, PairTypes DEF Sure
    <3>2. MoreChunks(req.len, pos[e] + (got[e] + 1)) <=> pos[e] + (got[e] + 1) # req.len
      BY <1>3, <1>5, <3>1
    <3> QED
      BY <1>3, <2>1, <2>2, <3>2 DEF WriteChunk, Sure, Typed, TypeOK, TypeThreads
  <2>4. Serving(e, req, at)'
    <3>t. pos[e] \in Nat /\ got[e] \in Nat /\ rd[e] \in Nat
      BY PairTypes DEF Sure
    <3>1. at + pos'[e] + got'[e] = rd'[e]
      <4>1. /\ at + pos[e] + got[e] = rd[e] /\ rd'[e] = rd[e] + 1
            /\ pos'[e] = pos[e] + (got[e] + 1) /\ got'[e] = 0
        BY <1>3, <1>4, <2>3
      <4> QED
        BY <3>t, <4>1
    <3>2. st'[e] = "ack" => at + req.len = rd'[e]
      <4>1. st'[e] = "ack" => req.len = pos[e] + (got[e] + 1)
        BY <2>3
      <4>2. at + (pos[e] + (got[e] + 1)) = rd'[e]
        BY <1>3, <1>4, <3>t, SMTT(30)
      <4> QED
        BY <4>1, <4>2
    <3> QED
      BY <1>3, <1>4, <2>3, <3>1, <3>2 DEF Serving
  <2>5. DirsAskedFor'
    BY <2>1, StoreKinds, DirsStay DEF WriteChunk, Sure, Aligning
  <2> QED
    BY <1>2, <1>4, <2>4, <2>5, ThreadGoesOn DEF SrvData
<1> QED
  BY <1>6, <1>7

\* What write_data has received of req is the file.
LEMMA ReceivedWhole ==
  ASSUME Sure, NEW e \in Epochs, NEW req \in Headers, NEW at \in Nat \ {0},
         Proper(req), Serving(e, req, at), Layout(e, req, at),
         st[e] = "ack", req.cmd = "file"
  PROVE  FileReceived(e)
<1> DEFINE first == rd[e] - req.len + 1
<1>1. /\ h[e] = req /\ path[e] = Dest(e) /\ at + req.len = rd[e]
      /\ req.len = job[req.req].size /\ req.len \in Nat
  BY DEF Serving, Proper, Headers
<1>2. /\ first = at + 1 /\ first \in Nat /\ rd[e] \in Nat /\ rd[e] >= req.len
      /\ rd[e] <= Len(data[e]) /\ data[e] \in Seq(Units)
  BY <1>1, PairTypes DEF Sure
<1>3. SubSeq(data[e], first, rd[e])
        = [k \in 1..req.len |-> ByteUnit(req.req, k)]
  <2> DEFINE bytes == SubSeq(data[e], first, rd[e])
  <2>1. \A k \in 1..req.len : data[e][at + k] = ByteUnit(req.req, k)
    <3> SUFFICES ASSUME NEW k \in 1..req.len
                 PROVE  data[e][at + k] = ByteUnit(req.req, k)
      OBVIOUS
    <3>1. at + k \in 1..Len(data[e]) /\ at + k > at /\ (at + k) - at = k
      BY <1>1, <1>2, PairTypes DEF Sure
    <3> QED
      BY <3>1, Zenon DEF Layout
  <2>2. /\ at + req.len = rd[e] /\ first = at + 1 /\ at + req.len <= Len(data[e])
    BY <1>1, <1>2
  <2>3. bytes = [k \in 1..req.len |-> data[e][at + k]]
    BY <1>1, <1>2, <2>2, Slice, SMTT(30)
  <2> QED
    BY <2>1, <2>3
<1>4. Complete(h[e].req).bytes = [k \in 1..req.len |-> ByteUnit(req.req, k)]
  BY <1>1 DEF Complete, File
<1> QED
  BY <1>1, <1>2, <1>3, <1>4 DEF FileReceived

LEMMA AckAligns ==
  ASSUME Sure, NEW e \in Epochs, Moving(e), SrvAck(e) \/ SrvWriteFails(e)
  PROVE  Aligning'
<1> USE DEF Moving
<1>1. AtWork(e) /\ st[e] # "hdr"
  BY DEF SrvAck, SrvWriteFails, AtWork
<1>2. PICK req \in Headers, at \in Nat \ {0} :
        /\ Proper(req) /\ Serving(e, req, at) /\ Layout(e, req, at)
        /\ req.len \in Nat
  BY <1>1, WhatIsServed
<1>3. CASE SrvAck(e)
  <2>1. /\ h[e] = req /\ at + req.len = rd[e]
        /\ req.cmd = "dir" => req.req \in delivered
    BY <1>2, <1>3 DEF SrvAck, Serving
  <2>2. at <= Len(data[e]) /\ rd'[e] = rd[e]
    BY <1>2, <1>3, <2>1, PairTypes DEF SrvAck, Sure
  <2>3. req.req \in delivered'
    <3>1. CASE req.cmd = "dir"
      BY <2>1, <3>1 DEF Onwards
    <3>2. CASE req.cmd = "file"
      <4>1. FileReceived(e) /\ req.req # None
        BY <1>2, <1>3, <3>2, ReceivedWhole, TransferAssumption
           DEF SrvAck, Proper, TransferAssumption
      <4> QED
        BY <1>3, <2>1, <3>2, <4>1 DEF SrvAck
    <3> QED
      BY <1>2, <3>1, <3>2 DEF Proper
  <2>4. DirsAskedFor'
    BY <1>3, StoreKinds, DirsStay DEF SrvAck, Flush, Sure, Aligning
  <2>5. Send(e, "OK", "hdr")
    BY <1>3 DEF SrvAck
  <2> QED
    BY <1>1, <1>2, <1>3, <2>1, <2>2, <2>3, <2>4, <2>5, ThreadAnswers DEF SrvAck
<1>4. CASE SrvWriteFails(e)
  <2>1. at <= Len(data[e])
    <3>1. at + pos[e] + got[e] = rd[e]
      BY <1>2, <1>4 DEF SrvWriteFails, Serving
    <3> QED
      BY <3>1, PairTypes DEF Sure
  <2>2. DirsAskedFor'
    BY <1>4, DirsStay DEF SrvWriteFails, diskVars, Sure, Aligning
  <2>3. Send(e, "FORCED", "exit")
    BY <1>4 DEF SrvWriteFails
  <2> QED
    BY <1>1, <1>2, <1>4, <2>1, <2>2, <2>3, ThreadAnswers DEF SrvWriteFails
<1> QED
  BY <1>3, <1>4

LEMMA AuthAligns ==
  ASSUME Sure, NEW e \in Epochs, Moving(e), SrvAuth(e) \/ SrvEof(e)
  PROVE  Aligning'
<1> USE DEF Moving
<1>1. UNCHANGED <<daemonSide, link, seen, data, up, files>>
  BY DEF SrvAuth, SrvEof, netVars, diskVars, daemonSide
<1>2. st[e] \notin {"none", "exit", "dead"}
  BY DEF SrvAuth, SrvEof, WantsMore
<1>3. DirsAskedFor'
  BY <1>1, DirsStay DEF Sure, Aligning
<1>4. CASE link[e] # "up"
  <2>1. st'[e] = "dead" /\ UNCHANGED down
    BY <1>4 DEF SrvAuth, SrvEof, netVars, Sure, Typed, TypeOK, TypeThreads
  <2>2. Framed(e)'
    BY <2>1 DEF Framed, AtWork
  <2>3. e = epoch => InStep' /\ Answers'
    BY <1>1, <1>4, <2>1, AnswersStay
       DEF InStep, daemonSide, attrVars, Sure, Aligning
  <2> QED
    BY <1>1, <1>2, <1>3, <2>2, <2>3, ThreadAligns
<1>5. CASE link[e] = "up"
  <2>1. e = epoch /\ epoch \in Epochs
    BY <1>5, DaemonTypes DEF Sure, OnePairOpen, Epochs
  <2>2. /\ st[epoch] = "auth" /\ st'[epoch] = "hdr"
        /\ down'[epoch] = Append(down[epoch], "OK")
    BY <1>5, <2>1
       DEF SrvAuth, SrvEof, Sure, Typed, TypeOK, TypeThreads, TypeNet
  <2>3. pc = "auth"
    BY <1>5, <2>1, <2>2
       DEF Sure, Aligning, InStep, Idle, Serving, Behind, Refusing, Finished,
           GivenUp, OnePairOpen, Typed, TypeOK, TypeDaemon, Waiting, Sending
  <2>4. up[epoch] = <<>> /\ data[epoch] = <<>> /\ rd[epoch] = 0 /\ down[epoch] = <<>>
    BY <1>5, <2>1, <2>2, <2>3 DEF Sure, Aligning, InStep
  <2>5. rd'[epoch] = rd[epoch] /\ epoch' = epoch /\ pc' = pc /\ down'[epoch] = <<"OK">>
    BY <2>1, <2>2, <2>4, <1>5 DEF SrvAuth, SrvEof, daemonSide
  <2>6. Framed(e)'
    BY <1>1, <2>1, <2>2, <2>4 DEF Framed, AtWork
  <2>7. InStep' /\ Answers'
    BY <1>1, <2>2, <2>3, <2>4, <2>5 DEF InStep, Answers, Waiting, Sending
  <2> QED
    BY <1>1, <1>2, <1>3, <2>6, <2>7, ThreadAligns
<1> QED
  BY <1>4, <1>5

LEMMA ExitAligns ==
  ASSUME Sure, NEW e \in Epochs, Moving(e), SrvExit(e)
  PROVE  Aligning'
<1> USE DEF Moving
<1>1. UNCHANGED <<daemonSide, seen, down, files>> /\ st[e] = "exit" /\ st'[e] = "dead"
  BY DEF SrvExit, diskVars, daemonSide, Sure, Typed, TypeOK, TypeThreads
<1>2. /\ link'[e] # "up" /\ link'[e] # "rst" /\ epoch \in Epochs
      /\ epoch' = epoch /\ pc' = pc
  BY <1>1, DaemonTypes
     DEF SrvExit, Sure, Typed, TypeOK, TypeNet, Aligning, Unopened, daemonSide
<1>3. Counts' /\ Discards' /\ Queue' /\ Told'
  BY <1>1, DaemonSideStays DEF Sure
<1>4. \A d \in Epochs : Framed(d)'
  <2>1. Framed(e)'
    BY <1>1 DEF Framed, AtWork
  <2> QED
    BY <2>1, PairElsewhere DEF Sure, Aligning
<1>5. DirsAskedFor'
  BY <1>1, DirsStay DEF Sure, Aligning
<1>6. Answers'
  BY <1>1, AnswersStay DEF Sure, Aligning, daemonSide, attrVars
<1>7. InStep'
  <2>1. CASE e = epoch
    BY <1>2, <2>1 DEF InStep
  <2>2. CASE e # epoch
    BY <1>1, <1>2, <2>2, InStepStays
       DEF Sure, Aligning, PairStays, daemonSide, attrVars, fileVars
  <2> QED
    BY <2>1, <2>2
<1>8. Unopened'
  BY <1>1, <1>2 DEF Sure, Aligning, Unopened, PairStays, ThreadStays
<1>9. NothingBreaks => Unbroken'
  <2> SUFFICES ASSUME NothingBreaks PROVE Unbroken'
    OBVIOUS
  <2>1. Unbroken
    BY DEF Sure, Aligning
  <2>2. CASE e = epoch
    <3>1. pc = "connect" \/ (pc \in Sending /\ down[epoch] = <<"FORCED">>)
      BY <1>1, <2>1, <2>2
         DEF Unbroken, Sure, Aligning, InStep, Idle, Serving, Behind, Refusing,
             Finished, GivenUp, OnePairOpen, Typed, TypeOK, TypeDaemon, Waiting,
             Sending
    <3>2. \A d \in Epochs : d < epoch => d # e
      BY <1>2, <2>2 DEF Epochs
    <3> QED
      BY <1>1, <1>2, <2>1, <2>2, <3>1, <3>2
         DEF Unbroken, daemonSide, clientVars, PairStays, ThreadStays, Sending
  <2>3. CASE e # epoch
    BY <1>1, <1>2, <2>1, <2>3
       DEF Unbroken, daemonSide, clientVars, PairStays, ThreadStays
  <2> QED
    BY <2>2, <2>3
<1>10. NothingBreaks' <=> NothingBreaks
  BY DEF NothingBreaks
<1> QED
  BY <1>3, <1>4, <1>5, <1>6, <1>7, <1>8, <1>9, <1>10 DEF Aligning

\* The network fails: a prefix of at most one message is that message or none.
LEMMA PrefixOfOne ==
  ASSUME NEW t, NEW x, t \in {<<>>, <<x>>}, NEW s \in Prefixes(t)
  PROVE  s \in {<<>>, t}
<1>1. PICK n \in 0..Len(t) : s = SubSeq(t, 1, n)
  BY DEF Prefixes
<1>2. CASE n = 0
  BY <1>1, <1>2, SubSeqEmpty
<1>3. CASE n # 0
  <2>1. t # <<>>
    BY <1>1, <1>3
  <2>2. t = <<x>> /\ t \in Seq({x}) /\ Len(t) = 1 /\ t[1] = x
    <3>1. t = <<x>>
      BY <2>1
    <3>2. <<x>> \in Seq({x}) /\ Len(<<x>>) = 1 /\ <<x>>[1] = x
      OBVIOUS
    <3> QED
      BY <3>1, <3>2, Zenon
  <2>3. n = 1
    BY <1>1, <1>3, <2>2
  <2>4. SubSeq(t, 1, 1) = t
    <3>1. 1 \in Int /\ \A i \in 1..1 : t[i] \in {x}
      BY <2>2
    <3>2. /\ SubSeq(t, 1, 1) \in Seq({x}) /\ Len(SubSeq(t, 1, 1)) = 1
      BY <3>1, SubSeqProperties
    <3>3. \A i \in 1..Len(SubSeq(t, 1, 1)) : SubSeq(t, 1, 1)[i] = t[i]
      BY <2>2, <3>2
    <3> QED
      BY <2>2, <3>2, <3>3, SeqEqual, Zenon
  <2> QED
    BY <1>1, <2>3, <2>4
<1> QED
  BY <1>2, <1>3

LEMMA BreakAligns ==
  ASSUME Regular, Sure, NEW e \in Epochs, Moving(e), Break(e)
  PROVE  Aligning'
<1> USE DEF Moving
<1>1. /\ UNCHANGED <<daemonSide, rd, thrVars, diskVars>>
      /\ ~NothingBreaks /\ ~NothingBreaks' /\ ~Resets
  <2>1. breaks \in Nat /\ breaks < MaxBreaks
    BY TransferAssumption DEF Break, Sure, Typed, TypeOK, TypeDisk, TransferAssumption
  <2>2. MaxBreaks # 0
    BY <2>1
  <2> QED
    BY <2>2 DEF Break, Regular, NothingBreaks, NothingRefused
<1>2. /\ link[e] = "up" /\ link' = [link EXCEPT ![e] = "fin"]
      /\ e = epoch /\ epoch' = epoch /\ pc' = pc /\ epoch \in Epochs
  BY <1>1, DaemonTypes DEF Break, Sure, OnePairOpen, daemonSide, Epochs
<1>3. Counts' /\ Discards' /\ Queue' /\ Told'
  BY <1>1, DaemonSideStays DEF Sure
<1>4. Shortened(e)
  <2>1. PICK n \in rd[e]..Len(data[e]) : data'[e] = SubSeq(data[e], 1, n)
    BY DEF Break, Sure, Typed, TypeOK, TypeNet
  <2>2. /\ n \in Nat /\ n <= Len(data[e]) /\ data[e] \in Seq(Units)
        /\ 0 + n <= Len(data[e])
    BY PairTypes DEF Sure
  <2>3. Len(data'[e]) = n /\ data'[e] = [k \in 1..n |-> data[e][0 + k]]
    BY <2>1, <2>2, Slice
  <2>4. ASSUME NEW i \in 1..n PROVE data'[e][i] = data[e][i]
    BY <2>2, <2>3
  <2> QED
    BY <2>2, <2>3, <2>4 DEF Shortened
<1>5. up'[e] \in Prefixes(up[e]) /\ down'[e] \in Prefixes(down[e])
  BY DEF Break, Sure, Typed, TypeOK, TypeNet
<1>6. Framed(e)'
  <2> SUFFICES ASSUME AtWork(e)' PROVE Framed(e)'
    BY DEF Framed
  <2>1. up[e] = <<>> => up'[e] = <<>>
    BY <1>5, PrefixOfOne
  <2>2. AtWork(e)
    BY <1>1, <2>1 DEF AtWork, thrVars
  <2>3. PICK req \in Headers, at \in Nat \ {0} : Serving(e, req, at)
    BY <2>2, WhatIsServed
  <2>4. up[e] \in {<<>>, <<req>>}
    BY <2>3 DEF Serving
  <2>5. up'[e] = up[e]
    <3>1. up'[e] \in {<<>>, up[e]}
      BY <1>5, <2>4, PrefixOfOne
    <3>2. CASE st[e] = "hdr"
      BY <1>1, <3>1, <3>2 DEF AtWork, thrVars
    <3>3. CASE st[e] # "hdr"
      BY <2>3, <3>1, <3>3, ServingWorks
    <3> QED
      BY <3>2, <3>3
  <2> QED
    BY <1>1, <1>4, <2>5, FramedStays DEF Sure, Aligning, thrVars, ThreadStays
<1>7. \A d \in Epochs : Framed(d)'
  BY <1>6, PairElsewhere DEF Sure, Aligning
<1>8. DirsAskedFor'
  BY <1>1, DirsStay DEF Sure, Aligning, diskVars
<1>9. InStep'
  BY <1>2 DEF InStep, Sure, Typed, TypeOK, TypeNet
<1>10. Answers'
  <2>1. down[epoch] # <<>> => down'[epoch] \in {<<>>, down[epoch]}
    <3>1. CASE pc \in Sending \cup {"auth"}
      <4>1. PICK flag : down[epoch] \in {<<>>, <<flag>>}
        BY <3>1 DEF Sure, Aligning, Answers
      <4> QED
        BY <1>2, <1>5, <4>1, PrefixOfOne
    <3>2. CASE pc \in Waiting \cup {"path"}
      BY <3>2 DEF Sure, Aligning, Answers
    <3>3. CASE pc = "connect"
      BY <1>2, <3>3 DEF Sure, OnePairOpen
    <3> QED
      BY <3>1, <3>2, <3>3 DEF Sure, Typed, TypeOK, TypeDaemon, Waiting, Sending
  <2>2. down[epoch] = <<>> => down'[epoch] = <<>>
    BY <1>2, <1>5, PrefixOfOne
  <2>3. UNCHANGED <<pc, hdr, epoch, delivered>>
    BY <1>1 DEF daemonSide, attrVars, diskVars
  <2>4. Answers
    BY DEF Sure, Aligning
  <2>5. pc \in Waiting \cup {"path"} => down'[epoch] = <<>>
    BY <2>2, <2>4 DEF Answers
  <2>6. pc \in Sending => \/ down'[epoch] \in {<<>>, <<"FORCED">>}
                          \/ down'[epoch] = <<"OK">> /\ pc = "await" /\ hdr.req \in delivered
                          \/ down'[epoch] = <<"ERR">> /\ (NothingBreaks \/ hdr.len = 0)
    BY <2>1, <2>2, <2>4, Zenon DEF Answers
  <2>7. pc = "auth" => down'[epoch] \in {<<>>, <<"OK">>}
    BY <2>1, <2>2, <2>4, Zenon DEF Answers
  <2>8. NothingBreaks' <=> NothingBreaks
    BY DEF NothingBreaks
  <2> QED
    BY <2>3, <2>5, <2>6, <2>7, <2>8 DEF Answers
<1>11. Unopened'
  <2>1. \A d \in Epochs : link'[d] # "rst"
    BY <1>2 DEF Sure, Aligning, Unopened, Typed, TypeOK, TypeNet
  <2>2. \A d \in Epochs : d > epoch => d # e
    BY <1>2 DEF Epochs
  <2> QED
    BY <1>1, <1>2, <2>1, <2>2
       DEF Sure, Aligning, Unopened, PairStays, ThreadStays, thrVars
<1> QED
  BY <1>1, <1>3, <1>7, <1>8, <1>9, <1>10, <1>11 DEF Aligning

LEMMA CrashAligns ==
  ASSUME Sure, Typed', Onwards, OnlyCloses, CrashServer
  PROVE  Aligning'
<1>1. /\ UNCHANGED <<daemonSide, up, down, data, rd, seen, files>>
      /\ ~NothingBreaks /\ ~NothingBreaks'
  <2>1. breaks \in Nat /\ breaks < MaxBreaks
    BY TransferAssumption
       DEF CrashServer, Sure, Typed, TypeOK, TypeDisk, TransferAssumption
  <2>2. MaxBreaks # 0
    BY <2>1
  <2> QED
    BY <2>2 DEF CrashServer, ServerEnds, diskVars, NothingBreaks, daemonSide
<1>2. \A e \in Epochs : /\ st'[e] = IF st[e] = "none" THEN "none" ELSE "dead"
                        /\ link'[e] # "up" /\ (link[e] # "rst" => link'[e] # "rst")
  BY DEF CrashServer, ServerEnds
<1>3. epoch \in Epochs /\ epoch' = epoch
  BY <1>1, DaemonTypes DEF Sure, daemonSide
<1>4. Counts' /\ Discards' /\ Queue' /\ Told'
  BY <1>1, DaemonSideStays DEF Sure
<1>5. \A d \in Epochs : Framed(d)'
  BY <1>2 DEF Framed, AtWork
<1>6. DirsAskedFor'
  BY <1>1, DirsStay DEF Sure, Aligning
<1>7. InStep'
  BY <1>2, <1>3 DEF InStep
<1>8. Answers'
  BY <1>1, AnswersStay DEF Sure, Aligning, daemonSide, attrVars
<1>9. Unopened'
  BY <1>1, <1>2, <1>3 DEF Sure, Aligning, Unopened
<1> QED
  BY <1>1, <1>4, <1>5, <1>6, <1>7, <1>8, <1>9 DEF Aligning

\* No connection is reset, and so no recv fails and nobody is killed.
LEMMA NoFailingRecv ==
  ASSUME Sure, NEW e \in Epochs
  PROVE  /\ ~SrvSigpipe(e) /\ ~SrvHeaderReset(e)
         /\ ~SrvDiscardReset(e) /\ ~SrvPathReset(e) /\ ~SrvDataReset(e)
BY DEF Sure, Aligning, Unopened, SrvSigpipe, SrvHeaderReset, SrvDiscardReset,
       SrvPathReset, SrvDataReset, DataReset

LEMMA ServerAligns ==
  ASSUME Regular, Sure, Typed', NEW e \in Epochs,
         SrvThread(e) \/ SrvEnding(e) \/ CrashServer \/ Break(e)
  PROVE  Aligning'
<1>1. Onwards /\ OnlyCloses
  BY ServerLeaves, ServerOnlyCloses DEF Sure
<1>2. CASE CrashServer
  BY <1>1, <1>2, CrashAligns
<1>3. CASE SrvThread(e) \/ SrvEnding(e) \/ Break(e)
  <2>1. Moving(e)
    BY <1>1, <1>3, PairApart, NoFailingRecv DEF Moving, Sure
  <2> QED
    BY <1>3, <2>1, NoFailingRecv, HeaderAligns, DiscardAligns, PathAligns, OpenAligns,
       RefuseAligns, DataAligns, AckAligns, AuthAligns, ExitAligns, BreakAligns
       DEF SrvThread, SrvEnding
<1> QED
  BY <1>2, <1>3

-----------------------------------------------------------------------------
(***************************************************************************)
(* The commands                                                            *)
(***************************************************************************)
LEMMA ClientAligns ==
  ASSUME Sure, Typed', Onwards, NEW c \in Clients,
         ClientConnect(c) \/ ClientSend(c) \/ ClientReceive(c) \/ ClientEof(c)
           \/ ClientInterrupt(c)
  PROVE  Aligning'
<1> USE DEF Sure, Aligning
<1>1. /\ UNCHANGED <<pc, cur, closed, hdr, discard, resend, off, cnt, tot, epoch,
                     netVars, thrVars, diskVars, inbox>>
      /\ backlog' = backlog \/ ClientConnect(c)
      /\ \A d \in Clients : sent[d] # 0 => sent'[d] # 0
  BY DEF ClientConnect, ClientSend, ClientReceive, ClientEof, ClientInterrupt,
         othersThanClient, attrVars, fileVars, Typed, TypeOK, TypeClients,
         Connected, SourceSent, RequestSent
<1>2. \A e \in Epochs : PairStays(e)
  BY <1>1 DEF PairStays, ThreadStays, netVars, thrVars
<1>3. epoch \in Epochs
  BY DaemonTypes
<1>4. \A e \in Epochs : Framed(e)'
  BY <1>2, PairElsewhere
<1>5. InStep' /\ Answers'
  BY <1>1, <1>2, <1>3, InStepStays, AnswersStay DEF PairStays
<1>6. Counts' /\ Discards'
  BY <1>1, ProperStays DEF Counts, Discards, ChunkLen, NothingBreaks, netVars
<1>7. Unopened' /\ DirsAskedFor'
  BY <1>1, DirsStay DEF Unopened, netVars, thrVars, diskVars
<1>8. Queue'
  <2>1. CASE backlog' = backlog
    BY <1>1, <2>1 DEF Queue
  <2>2. CASE ClientConnect(c)
    <3>1. backlog' = Append(backlog, c) /\ backlog \in Seq(Clients) /\ sent[c] = 0
          /\ sent'[c] # 0
      BY <2>2 DEF ClientConnect, Typed, TypeOK, TypeClients, Connected
    <3>2. c \notin closed /\ c # cur /\ \A i \in 1..Len(backlog) : backlog[i] # c
      BY <3>1 DEF Queue, Whole, EndedWhole, RequestSent
    <3>3. /\ Len(backlog') = Len(backlog) + 1 /\ Len(backlog) \in Nat
          /\ \A i \in 1..Len(backlog) : backlog'[i] = backlog[i]
          /\ backlog'[Len(backlog) + 1] = c
      BY <3>1
    <3>4. \A i \in 1..Len(backlog') : i \in 1..Len(backlog) \/ i = Len(backlog) + 1
      BY <3>3
    <3> QED
      BY <1>1, <3>1, <3>2, <3>3, <3>4 DEF Queue
  <2> QED
    BY <1>1, <2>1, <2>2
<1>9. result' = result \/ result' = [result EXCEPT ![c] = result'[c]]
  BY DEF ClientConnect, ClientSend, ClientReceive, ClientEof, ClientInterrupt
<1>10. Told'
  BY <1>1, <1>9
     DEF Told, ClientConnect, ClientSend, ClientReceive, ClientEof, ClientInterrupt,
         diskVars, Typed, TypeOK, TypeClients
<1>11. NothingBreaks => Unbroken'
  <2> SUFFICES ASSUME NothingBreaks PROVE Unbroken'
    OBVIOUS
  <2>1. ~ClientInterrupt(c)
    BY DEF NothingBreaks, ClientInterrupt
  <2>2. \A d \in Clients :
          result'[d] # "none" => result[d] # "none" \/ inbox[d] # "none" \/ d \in closed
    BY <2>1 DEF ClientConnect, ClientSend, ClientReceive, ClientEof, Typed,
                TypeOK, TypeClients
  <2> QED
    BY <1>1, <2>2 DEF Unbroken, netVars, thrVars
<1>12. NothingBreaks' <=> NothingBreaks
  BY DEF NothingBreaks
<1> QED
  BY <1>4, <1>5, <1>6, <1>7, <1>8, <1>10, <1>11, <1>12

-----------------------------------------------------------------------------
(***************************************************************************)
(* The daemon: loading a request.                                          *)
(***************************************************************************)
\* Up to the header the daemon only reads what the client has sent.
LEMMA Loading ==
  ASSUME Regular, Sure,
         DAccept \/ DResend \/ DLoadAttrs \/ DLoadSource \/ DLoadDest \/ DStat
  PROVE  /\ pc \in Waiting \ {"open"} /\ pc' \in Waiting \ {"top"}
         /\ UNCHANGED <<closed, discard, off, cnt, tot, epoch, netVars, thrVars, diskVars,
                        inbox, result, sent>>
         /\ resend' => resend
         /\ hdr' = hdr \/ DStat
         /\ (backlog' = backlog /\ cur' = cur) \/ DAccept
<1> USE DEF Sure, Aligning
<1>1. \A c \in Clients : \A stage \in {2, 3, 4} : ~GoneBefore(c, stage)
  BY DEF GoneBefore, Whole, EndedWhole, RequestSent
<1>2. pc \in {"attrs", "source", "dest", "stat"} => cur \in Clients
  BY DEF Whole, OneRequest
<1>3. CASE DAccept
  BY <1>3 DEF DAccept, Waiting, attrVars, fileVars
<1>4. CASE DResend
  BY <1>4 DEF DResend, Waiting, attrVars, fileVars, serverSide, clientVars, netVars
<1>5. CASE DLoadAttrs
  BY <1>1, <1>2, <1>5
     DEF DLoadAttrs, Waiting, attrVars, fileVars, serverSide, clientVars,
         netVars, AttrsSent
<1>6. CASE DLoadSource
  BY <1>1, <1>2, <1>6
     DEF DLoadSource, Waiting, fileVars, serverSide, clientVars, netVars,
         SourceSent
<1>7. CASE DLoadDest
  BY <1>1, <1>2, <1>7
     DEF DLoadDest, Waiting, fileVars, serverSide, clientVars, netVars,
         RequestSent
<1>8. CASE DStat
  <2>1. job[cur].kind # "missing"
    BY <1>2, <1>8 DEF DStat, Regular, Undisturbed, Typed, TypeOK, TypeClients
  <2> QED
    BY <1>8, <2>1
       DEF DStat, Waiting, fileVars, serverSide, clientVars, netVars
<1> QED
  BY <1>3, <1>4, <1>5, <1>6, <1>7, <1>8

LEMMA LoadingAligns ==
  ASSUME Regular, Sure, Typed', Whole', Onwards,
         DAccept \/ DResend \/ DLoadAttrs \/ DLoadSource \/ DLoadDest \/ DStat
  PROVE  Aligning'
<1> USE DEF Sure, Aligning
<1>1. /\ pc \in Waiting \ {"open"} /\ pc' \in Waiting \ {"top"}
      /\ UNCHANGED <<closed, discard, off, cnt, tot, epoch, netVars, thrVars, diskVars,
                     inbox, result, sent>>
      /\ resend' => resend
      /\ hdr' = hdr \/ DStat
      /\ (backlog' = backlog /\ cur' = cur) \/ DAccept
  BY Loading
<1>2. \A e \in Epochs : PairStays(e)
  BY <1>1 DEF PairStays, ThreadStays, netVars, thrVars
<1>3. \A e \in Epochs : Framed(e)'
  BY <1>2, PairElsewhere
<1>4. Answers'
  BY <1>1 DEF Answers, Waiting, Sending, netVars
<1>5. InStep'
  <2> SUFFICES ASSUME link[epoch] = "up"
               PROVE  down[epoch] = <<>> /\ Idle' /\ Useless(discard, closed)'
    BY <1>1 DEF InStep, Waiting, Sending, netVars
  <2>1. down[epoch] = <<>> /\ Idle /\ Useless(discard, closed)
    BY <1>1 DEF InStep
  <2> QED
    BY <1>1, <2>1 DEF Idle, Useless, netVars, thrVars
<1>6. Unopened' /\ DirsAskedFor'
  BY <1>1, DirsStay DEF Unopened, netVars, thrVars, diskVars
<1>7. Told'
  BY <1>1 DEF Told, diskVars
<1>8. ASSUME DStat PROVE Proper(hdr') /\ hdr'.discard = discard /\ pc = "stat"
  <2>1. /\ cur \in Clients /\ sent[cur] = RequestSent /\ job[cur].kind # "missing"
        /\ job[cur] \in Jobs
    BY <1>8 DEF DStat, Whole, OneRequest, Loaded, Regular, Undisturbed,
                Typed, TypeOK, TypeClients
  <2>2. hdr' = NewHeader(job[cur].kind, IF job[cur].kind = "dir" THEN 0 ELSE job[cur].size)
    BY <1>8, <2>1 DEF DStat
  <2>3. job[cur].kind \in {"file", "dir"} /\ hdr' \in Headers
    BY <2>1, TransferAssumption DEF TransferAssumption, Kinds, Typed, TypeOK, TypeDaemon
  <2> QED
    BY <1>8, <2>1, <2>2, <2>3 DEF DStat, NewHeader, Proper
<1>9. ASSUME DResend PROVE Proper(hdr) /\ hdr.discard = discard
  <2>1. resend
    BY <1>9 DEF DResend
  <2>2. hdr.discard = discard
    BY <2>1 DEF Unbroken, Discards
  <2> QED
    BY <2>1, <2>2 DEF Counts
<1>10. pc' = "open" => DResend \/ DStat
  BY DEF DAccept, DResend, DLoadAttrs, DLoadSource, DLoadDest, DStat, CatchClosed,
         CatchForced
<1>11. Proper(hdr) => Proper(hdr)'  \/ DStat
  BY <1>1 DEF Proper, Onwards
<1>13. Counts'
  <2>1. pc' \notin InHand \ {"open"} /\ pc' \notin {"data", "await"}
    BY <1>1 DEF Waiting, InHand
  <2>2. pc' = "open" => Proper(hdr)'
    BY <1>1, <1>8, <1>9, <1>10 DEF Onwards, Proper
  <2>3. resend' => Proper(hdr)'
    <3> SUFFICES ASSUME resend' PROVE Proper(hdr)'
      OBVIOUS
    <3>1. ~DStat
      BY <1>1, <1>8 DEF Whole, OneRequest
    <3> QED
      BY <1>1, <1>11, <3>1 DEF Counts
  <2> QED
    BY <2>1, <2>2, <2>3 DEF Counts
<1>14. Discards'
  <2>1. hdr'.discard = hdr.discard \/ hdr'.discard = discard
    BY <1>1, <1>8
  <2>2. pc' = "open" => hdr'.discard = discard
    BY <1>1, <1>8, <1>9, <1>10
  <2> QED
    BY <1>1, <2>1, <2>2 DEF Discards, NothingBreaks, Waiting
<1>15. Queue'
  <2>1. CASE DAccept
    <3>1. /\ backlog \in Seq(Clients) /\ backlog # <<>> /\ cur' = backlog[1]
          /\ backlog' = Tail(backlog)
      BY <2>1 DEF DAccept, Typed, TypeOK, TypeClients
    <3>2. /\ Len(backlog') = Len(backlog) - 1 /\ Len(backlog) \in Nat
          /\ Len(backlog) >= 1
          /\ \A i \in 1..Len(backlog') : /\ i + 1 \in 1..Len(backlog)
                                         /\ backlog'[i] = backlog[i + 1]
      BY <3>1
    <3>3. 1 \in 1..Len(backlog) /\ \A i \in 1..Len(backlog') : i + 1 # 1
      BY <3>2
    <3>4. \A i, j \in 1..Len(backlog') : backlog'[i] = backlog'[j] => i + 1 = j + 1
      BY <3>2 DEF Queue
    <3>5. \A i, j \in 1..Len(backlog') : backlog'[i] = backlog'[j] => i = j
      BY <3>2, <3>4
    <3>6. \A i \in 1..Len(backlog') : backlog'[i] \notin closed /\ backlog'[i] # cur'
      BY <3>1, <3>2, <3>3 DEF Queue
    <3>7. \A c \in Clients : c = cur' \/ (\E i \in 1..Len(backlog') : backlog'[i] = c)
                               => sent[c] # 0
      BY <3>1, <3>2, <3>3 DEF Queue
    <3> QED
      BY <1>1, <3>5, <3>6, <3>7 DEF Queue
  <2>2. CASE ~DAccept
    BY <1>1, <2>2 DEF Queue
  <2> QED
    BY <2>1, <2>2
<1>16. NothingBreaks => Unbroken'
  <2> SUFFICES ASSUME NothingBreaks PROVE Unbroken'
    OBVIOUS
  <2>1. Unbroken
    OBVIOUS
  <2>2. pc' # "top" => cur' \notin closed
    <3>1. CASE DAccept
      <4>1. backlog \in Seq(Clients) /\ backlog # <<>> /\ cur' = backlog[1]
            /\ 1 \in 1..Len(backlog)
        BY <3>1 DEF DAccept, Typed, TypeOK, TypeClients
      <4> QED
        BY <4>1 DEF Queue
    <3>2. CASE ~DAccept
      <4>1. cur' = cur /\ pc # "top"
        BY <1>1, <2>1, <3>2
           DEF Unbroken, DResend, DLoadAttrs, DLoadSource, DLoadDest, DStat
      <4> QED
        BY <1>1, <2>1, <4>1 DEF Unbroken, Waiting
    <3> QED
      BY <3>1, <3>2
  <2> QED
    BY <1>1, <2>1, <2>2 DEF Unbroken, Waiting, Sending, netVars, thrVars
<1>17. NothingBreaks' <=> NothingBreaks
  BY DEF NothingBreaks
<1> QED
  BY <1>3, <1>4, <1>5, <1>6, <1>7, <1>13, <1>14, <1>15, <1>16, <1>17

-----------------------------------------------------------------------------
(***************************************************************************)
(* The daemon: steps that put nothing into the pair.                       *)
(***************************************************************************)
Listening ==
  /\ UNCHANGED <<up, data, rd, thrVars, diskVars, epoch, clientVars, cur, attrVars>>
  /\ \A e \in Epochs : e # epoch => UNCHANGED down[e]
  /\ HangUp \/ UNCHANGED link
  /\ closed' = closed \/ closed' = closed \cup {cur}

LEMMA ListeningKeeps ==
  ASSUME Sure, Onwards, Listening
  PROVE  /\ \A e \in Epochs : Framed(e)'
         /\ Unopened' /\ DirsAskedFor' /\ Queue'
<1> USE DEF Sure, Aligning, Listening
<1>1. \A e \in Epochs : ThreadStays(e) /\ Shortened(e)
  BY PairTypes DEF ThreadStays, Shortened, thrVars
<1>2. \A e \in Epochs : Framed(e)'
  BY <1>1, FramedStays
<1>3. \A e \in Epochs : link[e] # "rst" => link'[e] # "rst"
  BY DEF HangUp, Typed, TypeOK, TypeNet
<1>4. Unopened'
  <2>1. \A e \in Epochs : e > epoch => e # epoch
    BY DaemonTypes DEF Epochs
  <2> QED
    BY <1>3, <2>1 DEF Unopened, thrVars
<1>5. DirsAskedFor'
  BY DirsStay DEF diskVars
<1>6. Queue'
  BY DEF Queue, clientVars
<1> QED
  BY <1>2, <1>4, <1>5, <1>6

\* The pair is given up.
LEMMA ToConnect ==
  ASSUME Sure, Typed', Onwards, Listening, HangUp, pc \in InHand,
         pc' = "connect", discard' = 0, Told',
         NothingBreaks => /\ ~resend' /\ st[epoch] \in {"exit", "dead"}
                          /\ \A c \in Clients : inbox'[c] # "none" => c \in closed'
  PROVE  Aligning'
<1> USE DEF Sure, Aligning
<1>1. /\ \A e \in Epochs : Framed(e)'
      /\ Unopened' /\ DirsAskedFor' /\ Queue'
  BY ListeningKeeps
<1>2. link'[epoch] # "up" /\ epoch' = epoch
  BY DaemonTypes DEF HangUp, Listening, Typed, TypeOK, TypeNet
<1>3. InStep'
  BY <1>2 DEF InStep
<1>4. Answers'
  BY DEF Answers, Waiting, Sending
<1>5. Counts'
  BY ProperStays DEF Counts, Listening, attrVars
<1>6. Discards'
  BY DEF Discards, Listening, attrVars, NothingBreaks
<1>7. NothingBreaks => Unbroken'
  BY <1>2 DEF Unbroken, Listening, clientVars, thrVars, Sending
<1>8. NothingBreaks' <=> NothingBreaks
  BY DEF NothingBreaks
<1> QED
  BY <1>1, <1>3, <1>4, <1>5, <1>6, <1>7, <1>8

\* The request is finished with, and the pair is at rest.
LEMMA ToTop ==
  ASSUME Sure, Typed', Onwards, Listening, pc \in InHand,
         pc' = "top", UNCHANGED <<link, resend>>, down'[epoch] = <<>>, Told',
         link[epoch] = "up" => Idle /\ Useless(discard', closed'),
         ~NothingBreaks => discard' = 0,
         NothingBreaks => /\ link[epoch] = "up"
                          /\ \A c \in Clients : inbox'[c] # "none" => c \in closed'
  PROVE  Aligning'
<1> USE DEF Sure, Aligning
<1>1. /\ \A e \in Epochs : Framed(e)'
      /\ Unopened' /\ DirsAskedFor' /\ Queue'
  BY ListeningKeeps
<1>2. epoch' = epoch
  BY DEF Listening
<1>3. InStep'
  BY <1>2 DEF InStep, Waiting, Sending, Listening, Idle, Useless, thrVars
<1>4. Answers'
  BY <1>2 DEF Answers, Waiting, Sending
<1>5. Counts'
  BY ProperStays DEF Counts, Listening, attrVars, InHand
<1>6. Discards'
  BY DEF Discards, Listening, attrVars, NothingBreaks
<1>7. NothingBreaks => Unbroken'
  BY <1>2 DEF Unbroken, Listening, clientVars, thrVars, Sending
<1>8. NothingBreaks' <=> NothingBreaks
  BY DEF NothingBreaks
<1> QED
  BY <1>1, <1>3, <1>4, <1>5, <1>6, <1>7, <1>8

\* An answer changes what one client is told, and ends its request.
LEMMA Replying ==
  ASSUME Sure, Typed', Onwards, NEW flag \in {"OK", "ERR"}, UNCHANGED result,
         ReplyAndClose(flag) \/ (ReplyAndForce /\ flag = "ERR"),
         flag = "OK" => cur \in delivered
  PROVE  /\ Told' /\ closed' = closed \cup {cur}
         /\ NothingBreaks => \A c \in Clients : inbox'[c] # "none" => c \in closed'
<1> USE DEF Sure, Aligning
<1>1. \A c \in Clients : inbox'[c] = inbox[c] \/ (c = cur /\ inbox[c] = "none" /\ inbox'[c] = flag)
  BY DEF ReplyAndClose, ReplyAndForce, Typed, TypeOK, TypeClients
<1>2. closed' = closed \cup {cur}
  BY DEF ReplyAndClose, ReplyAndForce, CatchForced, CloseClient
<1>3. Told'
  BY <1>1 DEF Told, Onwards
<1> QED
  BY <1>1, <1>2, <1>3 DEF Unbroken

\* Where nothing breaks the client being served is there to be answered.
LEMMA Reachable ==
  ASSUME Sure, NothingBreaks, pc \in Sending
  PROVE  CanReply
BY DEF Sure, Aligning, Unbroken, CanReply, Whole, OneRequest, Holding, Loaded,
       Sending

\* The daemon takes the answer it was sent.
LEMMA TakenAligns ==
  ASSUME Regular, Sure, Typed', Onwards, pc \in Sending, down[epoch] # <<>>,
         Listening, UNCHANGED result,
         down' = [down EXCEPT ![epoch] = Tail(@)],
         \/ /\ Head(down[epoch]) = "ERR"
            /\ discard' = IF pc = "data" THEN tot + cnt ELSE hdr.len
            /\ ReplyAndClose("ERR")
         \/ /\ Head(down[epoch]) = "FORCED"
            /\ ReplyAndForce
            /\ UNCHANGED discard
         \/ /\ Head(down[epoch]) = "OK" /\ pc = "await"
            /\ ReplyAndClose("OK")
            /\ UNCHANGED discard
  PROVE  Aligning'
<1> USE DEF Sure, Aligning
<1>1. /\ hdr.req = cur /\ cur \in Clients /\ epoch \in Epochs /\ pc \in InHand
      /\ discard = 0 /\ pc # "connect" /\ pc # "auth" /\ pc \notin Waiting /\ pc # "path"
  BY DaemonTypes
     DEF Whole, OneRequest, Holding, Loaded, Sending, InHand, Waiting, Discards
<1>2. PICK flag : down[epoch] = <<flag>>
  BY DEF Answers
<1>3. Head(down[epoch]) = flag /\ down'[epoch] = <<>>
  BY <1>1, <1>2 DEF Typed, TypeOK, TypeNet
<1>4. NothingBreaks /\ flag # "FORCED" => link[epoch] = "up"
  BY <1>2 DEF Unbroken
<1>5. CASE flag = "FORCED"
  <2>1. ReplyAndForce /\ discard' = 0
    BY <1>1, <1>3, <1>5
  <2>2. st[epoch] \in {"exit", "dead"} \/ ~NothingBreaks
    BY <1>2, <1>5 DEF Unbroken, InStep, Behind, Refusing, Finished, GivenUp
  <2>3. /\ Told'
        /\ NothingBreaks => \A c \in Clients : inbox'[c] # "none" => c \in closed'
    BY <2>1, Replying
  <2>4. HangUp /\ pc' = "connect" /\ ~resend'
    BY <2>1 DEF ReplyAndForce, CatchForced
  <2> QED
    BY <1>1, <2>1, <2>2, <2>3, <2>4, ToConnect
<1>6. CASE flag = "ERR"
  <2>1. /\ ReplyAndClose("ERR")
        /\ discard' = IF pc = "data" THEN tot + cnt ELSE hdr.len
    BY <1>3, <1>6
  <2>2. /\ Told' /\ closed' = closed \cup {cur}
        /\ NothingBreaks => \A c \in Clients : inbox'[c] # "none" => c \in closed'
    BY <2>1, Replying
  <2>3. ~NothingBreaks => pc = "await" /\ discard' = 0
    <3> SUFFICES ASSUME ~NothingBreaks PROVE pc = "await" /\ discard' = 0
      OBVIOUS
    <3>1. hdr.len = 0
      BY <1>2, <1>6 DEF Answers
    <3>2. pc # "data"
      <4> SUFFICES ASSUME pc = "data" PROVE FALSE
        OBVIOUS
      <4>1. cnt < ChunkLen /\ off < hdr.len
        BY DaemonChunk
      <4> QED
        BY <3>1, <4>1, DaemonTypes
    <3> QED
      BY <2>1, <3>1, <3>2 DEF Sending
  <2>4. CASE CanReply
    <3>1. pc' = "top" /\ UNCHANGED <<link, resend>>
      BY <2>1, <2>4 DEF ReplyAndClose, CloseClient
    <3>2. link[epoch] = "up" => Idle /\ Useless(discard', closed')
      <4> SUFFICES ASSUME link[epoch] = "up"
                   PROVE  Idle /\ Useless(discard', closed')
        OBVIOUS
      <4>1. Refusing
        BY <1>2, <1>6 DEF InStep, Behind, Finished, GivenUp
      <4>2. off + cnt = discard'
        BY <2>1, DaemonTypes DEF Counts, Sending
      <4> QED
        BY <1>1, <2>2, <4>1, <4>2 DEF Refusing, Useless
    <3> QED
      BY <1>1, <1>3, <1>4, <1>6, <2>2, <2>3, <3>1, <3>2, ToTop
  <2>5. CASE ~CanReply
    <3>1. ~NothingBreaks
      BY <2>5, Reachable
    <3>2. HangUp /\ pc' = "connect"
      BY <2>1, <2>5 DEF ReplyAndClose, CatchForced
    <3> QED
      BY <1>1, <2>2, <2>3, <3>1, <3>2, ToConnect
  <2> QED
    BY <2>4, <2>5
<1>7. CASE flag = "OK"
  <2>1. ReplyAndClose("OK") /\ discard' = 0 /\ cur \in delivered
    BY <1>1, <1>2, <1>3, <1>7 DEF Answers
  <2>2. /\ Told' /\ closed' = closed \cup {cur}
        /\ NothingBreaks => \A c \in Clients : inbox'[c] # "none" => c \in closed'
    BY <2>1, Replying
  <2>4. CASE CanReply
    <3>1. pc' = "top" /\ UNCHANGED <<link, resend>>
      BY <2>1, <2>4 DEF ReplyAndClose, CloseClient
    <3>2. link[epoch] = "up" => Idle /\ Useless(discard', closed')
      <4> SUFFICES ASSUME link[epoch] = "up"
                   PROVE  Idle /\ Useless(discard', closed')
        OBVIOUS
      <4>1. Finished
        BY <1>2, <1>7 DEF InStep, Behind, Refusing, GivenUp
      <4> QED
        BY <2>1, <4>1 DEF Finished, Useless
    <3> QED
      BY <1>1, <1>3, <1>4, <1>7, <2>1, <2>2, <3>1, <3>2, ToTop
  <2>5. CASE ~CanReply
    <3>1. ~NothingBreaks
      BY <2>5, Reachable
    <3>2. HangUp /\ pc' = "connect"
      BY <2>1, <2>5 DEF ReplyAndClose, CatchForced
    <3> QED
      BY <1>1, <2>1, <2>2, <3>1, <3>2, ToConnect
  <2> QED
    BY <2>4, <2>5
<1> QED
  BY <1>3, <1>5, <1>6, <1>7


-----------------------------------------------------------------------------
(***************************************************************************)
(* The daemon: steps that put something into the pair.                     *)
(***************************************************************************)
Speaking ==
  /\ pc \in {"open", "path", "data"} /\ pc' \in {"path", "data", "await"}
  /\ pc' = "path" => pc # "data"
  /\ UNCHANGED <<rd, thrVars, diskVars, epoch, clientVars, inbox, cur, closed,
                 attrVars, link, down, resend>>
  /\ \A e \in Epochs : e # epoch => UNCHANGED <<data[e], up[e]>>

LEMMA SpeakingAligns ==
  ASSUME Sure, Onwards, Speaking,
         UNCHANGED <<data[epoch], up[epoch]>> \/ Framed(epoch)',
         link[epoch] = "up" => InStep', Counts', Discards'
  PROVE  Aligning'
<1> USE DEF Sure, Aligning, Speaking
<1>0. epoch \in Epochs /\ epoch' = epoch
  BY DaemonTypes
<1>1. \A e \in Epochs : UNCHANGED <<data[e], up[e]>> => PairStays(e)
  BY DEF PairStays, ThreadStays, thrVars
<1>2. \A e \in Epochs : Framed(e)'
  BY <1>0, <1>1, PairElsewhere
<1>3. InStep'
  BY <1>0 DEF InStep
<1>4. Unopened'
  <2>1. \A e \in Epochs : e > epoch => e # epoch
    BY <1>0 DEF Epochs
  <2> QED
    BY <1>0, <2>1 DEF Unopened, thrVars
<1>5. DirsAskedFor'
  BY DirsStay DEF diskVars
<1>6. Queue' /\ Told'
  BY DEF Queue, Told, clientVars, diskVars
<1>7. Answers'
  BY DEF Answers, Waiting, Sending, attrVars, diskVars, NothingBreaks
<1>8. NothingBreaks => Unbroken'
  BY DEF Unbroken, Sending, clientVars, thrVars
<1>9. NothingBreaks' <=> NothingBreaks
  BY DEF NothingBreaks
<1> QED
  BY <1>2, <1>3, <1>4, <1>5, <1>6, <1>7, <1>8, <1>9

\* What is known when the thread serves the request the daemon is sending.
LEMMA LaidOut ==
  ASSUME Sure, NEW at \in Int, Serving(epoch, hdr, at)
  PROVE  Proper(hdr) /\ at \in Nat \ {0} /\ Layout(epoch, hdr, at)
<1> USE DEF Sure, Aligning
<1>1. epoch \in Epochs /\ hdr \in Headers
  BY DaemonTypes
<1>2. AtWork(epoch)
  BY ServingWorks
<1>3. PICK req \in Headers, to \in Nat \ {0} :
         Proper(req) /\ Serving(epoch, req, to) /\ Layout(epoch, req, to)
  BY <1>1, <1>2 DEF Framed
<1>4. req = hdr /\ to = at
  BY <1>1, <1>3, ServingOne
<1> QED
  BY <1>3, <1>4

LEMMA SendHeaderAligns ==
  ASSUME Regular, Sure, Typed', Onwards, DSendHeader
  PROVE  Aligning'
<1> USE DEF Sure, Aligning
<1>1. /\ pc = "open" /\ Proper(hdr) /\ hdr.cmd # "none" /\ hdr.discard = discard
      /\ hdr.req = cur /\ cur \in Clients /\ down[epoch] = <<>>
  <2>1. pc = "open"
    BY DEF DSendHeader
  <2>2. Proper(hdr) /\ hdr.discard = discard /\ down[epoch] = <<>>
    BY <2>1 DEF Counts, Discards, Answers, InHand, Waiting
  <2> QED
    BY <2>1, <2>2 DEF Proper, Whole, OneRequest, Holding, Loaded
<1>2. epoch \in Epochs
  BY DaemonTypes
<1>3. Proper(hdr)'
  BY <1>1, ProperStays DEF DSendHeader, attrVars
<1>4. NothingBreaks => link[epoch] = "up" /\ cur \notin closed
  BY <1>1 DEF Unbroken, Sending
<1>5. CASE link[epoch] # "up" /\ CatchClosed /\ UNCHANGED up
  <2>1. Listening /\ HangUp /\ pc \in InHand /\ pc' = "connect" /\ discard' = 0
    BY <1>1, <1>5 DEF DSendHeader, CatchClosed, Listening, InHand
  <2>2. Told'
    BY DEF DSendHeader, Told, clientVars, diskVars
  <2> QED
    BY <1>4, <1>5, <2>1, <2>2, ToConnect
<1>6. CASE pc' = "path" /\ UNCHANGED <<discard, resend, link>>
  <2>1. Speaking
    <3>1. \A e \in Epochs : e # epoch => up'[e] = up[e]
      BY <1>1 DEF DSendHeader, Typed, TypeOK, TypeNet
    <3> QED
      BY <1>1, <1>6, <3>1 DEF DSendHeader, Speaking
  <2>2. Counts' /\ Discards'
    BY <1>1, <1>3, <1>6
       DEF DSendHeader, Counts, Discards, attrVars, NothingBreaks
  <2>3. CASE link[epoch] # "up"
    <3>1. UNCHANGED <<data[epoch], up[epoch]>>
      BY <1>1, <2>3 DEF DSendHeader
    <3> QED
      BY <2>1, <2>2, <2>3, <3>1, SpeakingAligns
  <2>4. CASE link[epoch] = "up"
    <3>1. Idle /\ Useless(discard, closed)
      BY <1>1, <2>4 DEF InStep, Waiting
    <3>2. up' = [up EXCEPT ![epoch] = Append(@, hdr)]
      BY <1>1, <1>6, <2>4 DEF DSendHeader, CatchClosed
    <3>3. up'[epoch] = <<hdr>>
      BY <1>2, <3>1, <3>2 DEF Idle, Typed, TypeOK, TypeNet
    <3>4. /\ rd[epoch] \in Nat /\ Len(data[epoch]) \in Nat /\ discard \in Nat
          /\ Len(data[epoch]) = rd[epoch] + discard
      BY <1>2, <3>1, PairTypes, DaemonTypes DEF Useless
    <3>5. Serving(epoch, hdr, Len(data[epoch]) + 1)'
      <4>1. UNCHANGED <<epoch, hdr, st[epoch], rd[epoch], data[epoch]>>
        BY DEF DSendHeader, attrVars, thrVars
      <4>2. Len(data[epoch]) + 1 = rd[epoch] + hdr.discard + 1
        BY <1>1, <3>4
      <4> QED
        BY <3>1, <3>3, <4>1, <4>2 DEF Serving, Idle
    <3>6. Layout(epoch, hdr, Len(data[epoch]) + 1)'
      <4>1. UNCHANGED <<epoch, hdr, rd[epoch], data[epoch]>>
        BY DEF DSendHeader, attrVars
      <4>2. \A i \in 1..Len(data[epoch]) : ~(i = Len(data[epoch]) + 1)
                                           /\ ~(i > Len(data[epoch]) + 1)
        BY <3>4
      <4>3. \A i \in 1..Len(data[epoch]) : rd[epoch] < i =>
              data[epoch][i].k > 0 /\ data[epoch][i].r # hdr.req
        <5> SUFFICES ASSUME NEW i \in 1..Len(data[epoch]), rd[epoch] < i
                     PROVE  data[epoch][i].k > 0 /\ data[epoch][i].r # hdr.req
          OBVIOUS
        <5>1. discard # 0
          BY <3>4
        <5>2. NothingBreaks
          BY <5>1 DEF Discards
        <5> QED
          BY <1>1, <1>4, <3>1, <5>2 DEF Useless
      <4> QED
        BY <4>1, <4>2, <4>3 DEF Layout
    <3>7. Framed(epoch)'
      <4>1. Len(data[epoch]) + 1 \in Nat \ {0}
        BY <3>4
      <4>2. hdr' \in Headers /\ UNCHANGED <<epoch, hdr, data>>
        BY DaemonTypes DEF DSendHeader, attrVars
      <4>3. /\ hdr \in Headers /\ Proper(hdr)' /\ Serving(epoch, hdr, Len(data[epoch]) + 1)'
            /\ Layout(epoch, hdr, Len(data[epoch]) + 1)'
        BY <1>3, <3>5, <3>6, DaemonTypes
      <4> QED
        BY <4>1, <4>2, <4>3 DEF Framed
    <3>8. InStep'
      BY <1>1, <1>6, <3>5 DEF InStep, Waiting, Sending, DSendHeader
    <3> QED
      BY <2>1, <2>2, <3>7, <3>8, SpeakingAligns
  <2> QED
    BY <2>3, <2>4
<1> QED
  BY <1>1, <1>5, <1>6 DEF DSendHeader

\* The daemon sends the next unit of the request that the thread serves.
LEMMA UnitSent ==
  ASSUME Sure, Onwards, NEW at \in Int, Serving(epoch, hdr, at),
         UNCHANGED <<rd, thrVars, epoch, hdr, up[epoch]>>,
         NEW unit \in Units, data'[epoch] = Append(data[epoch], unit),
         \/ at = Len(data[epoch]) + 1 /\ unit = PathUnit(hdr.req)
         \/ /\ at <= Len(data[epoch])
            /\ unit = ByteUnit(hdr.req, Len(data[epoch]) + 1 - at)
  PROVE  Framed(epoch)' /\ Serving(epoch, hdr, at)'
<1> USE DEF Sure, Aligning
<1>1. Proper(hdr) /\ at \in Nat \ {0} /\ Layout(epoch, hdr, at)
  BY LaidOut
<1>2. ThreadStays(epoch) /\ epoch \in Epochs /\ hdr \in Headers
  BY DaemonTypes DEF ThreadStays, thrVars
<1>3. Serving(epoch, hdr, at)' /\ Proper(hdr)'
  BY <1>1, <1>2, ServingStays, ProperStays
<1>4. /\ Len(data[epoch]) \in Nat /\ Len(data'[epoch]) = Len(data[epoch]) + 1
      /\ data'[epoch][Len(data[epoch]) + 1] = unit
      /\ \A i \in 1..Len(data'[epoch]) :
           \/ i = Len(data[epoch]) + 1
           \/ i \in 1..Len(data[epoch]) /\ data'[epoch][i] = data[epoch][i]
  BY <1>2 DEF Typed, TypeOK, TypeNet
<1>5. ASSUME NEW i \in 1..Len(data'[epoch])
      PROVE  /\ i = at => data'[epoch][i] = PathUnit(hdr.req)
             /\ i > at => data'[epoch][i] = ByteUnit(hdr.req, i - at)
             /\ rd[epoch] < i /\ i < at =>
                  data'[epoch][i].k > 0 /\ data'[epoch][i].r # hdr.req
  <2>1. CASE i = Len(data[epoch]) + 1
    BY <1>4, <2>1
  <2>2. CASE i # Len(data[epoch]) + 1
    BY <1>1, <1>4, <2>2 DEF Layout
  <2> QED
    BY <2>1, <2>2
<1>6. Layout(epoch, hdr, at)'
  BY <1>5 DEF Layout
<1>7. Framed(epoch)'
  <2>1. hdr' \in Headers /\ hdr' = hdr /\ at \in Nat \ {0}
    BY <1>1, <1>2
  <2> QED
    BY <1>3, <1>6, <2>1 DEF Framed
<1> QED
  BY <1>3, <1>7

LEMMA SendPathAligns ==
  ASSUME Regular, Sure, Typed', Onwards, DSendPath
  PROVE  Aligning'
<1> USE DEF Sure, Aligning
<1>1. /\ pc = "path" /\ Proper(hdr) /\ hdr.discard = discard /\ hdr.len \in Nat
      /\ hdr.req = cur /\ dst = cur /\ down[epoch] = <<>> /\ epoch \in Epochs
  <2>1. pc = "path"
    BY DEF DSendPath
  <2>2. Proper(hdr) /\ hdr.discard = discard /\ down[epoch] = <<>>
    BY <2>1 DEF Counts, Discards, Answers, InHand, Waiting
  <2> QED
    BY <2>1, <2>2, DaemonTypes DEF Whole, OneRequest, Holding, Loaded
<1>2. Proper(hdr)'
  BY <1>1, ProperStays DEF DSendPath, attrVars
<1>3. NothingBreaks => link[epoch] = "up"
  BY <1>1 DEF Unbroken, Sending
<1>4. CASE link[epoch] # "up" /\ CatchClosed /\ UNCHANGED <<data, fileVars>>
  <2>1. Listening /\ HangUp /\ pc \in InHand /\ pc' = "connect" /\ discard' = 0
    BY <1>1, <1>4 DEF DSendPath, CatchClosed, Listening, InHand
  <2>2. Told'
    BY DEF DSendPath, Told, clientVars, diskVars
  <2> QED
    BY <1>3, <1>4, <2>1, <2>2, ToConnect
<1>5. CASE AfterPath
  <2>1. /\ pc' \in Sending
        /\ UNCHANGED <<resend, link, hdr, epoch, down>>
        /\ off' = 0 /\ cnt' = 0 /\ tot' = 0
    BY <1>5 DEF AfterPath, DSendPath, Sending, attrVars
  <2>2. Counts'
    <3>0. hdr.len \in Nat /\ (MoreChunks(hdr.len, 0) <=> hdr.len > 0)
      BY DaemonTypes, NoChunks
    <3>1. pc' = "data" => hdr.cmd = "file" /\ hdr.len > 0
      BY <1>5, <3>0 DEF AfterPath
    <3>3. pc' = "await" => 0 = hdr.len
      BY <1>1, <1>5, <3>0 DEF AfterPath, Proper
    <3> QED
      BY <1>2, <2>1, <3>1, <3>3 DEF Counts, Sending
  <2>3. Discards'
    <3>1. hdr.cmd # "file" => ~NothingBreaks
      <4>1. job[hdr.req] \in Jobs
        BY <1>1 DEF Proper, Typed, TypeOK, TypeClients
      <4> QED
        BY <1>1, <4>1 DEF Proper, NothingBreaks
    <3>2. discard' = 0
      BY <1>5, <3>1 DEF AfterPath, Discards
    <3>3. ~NothingBreaks => hdr.discard = 0
      BY DEF Discards
    <3> QED
      BY <2>1, <3>2, <3>3 DEF Discards, Sending, NothingBreaks
  <2>4. Speaking
    <3>1. \A e \in Epochs : e # epoch => data'[e] = data[e]
      BY DEF DSendPath, Typed, TypeOK, TypeNet
    <3> QED
      BY <1>1, <2>1, <3>1 DEF DSendPath, Speaking, Sending
  <2>5. CASE link[epoch] # "up"
    <3>1. UNCHANGED <<data[epoch], up[epoch]>>
      BY <2>5 DEF DSendPath
    <3> QED
      BY <2>2, <2>3, <2>4, <2>5, <3>1, SpeakingAligns
  <2>6. CASE link[epoch] = "up"
    <3>1. /\ Serving(epoch, hdr, Len(data[epoch]) + 1)
          /\ Len(data[epoch]) + 1 \in Int
      BY <1>1, <2>6, ProperPositions DEF InStep
    <3>2. PathUnit(hdr.req) \in Units
      BY <1>1 DEF Proper, PathUnit, Units
    <3>3. data'[epoch] = Append(data[epoch], PathUnit(hdr.req))
      <4>1. data' = [data EXCEPT ![epoch] = Append(@, PathUnit(dst))]
        BY <2>6 DEF DSendPath
      <4> QED
        BY <1>1, <4>1 DEF Typed, TypeOK, TypeNet
    <3>4. /\ UNCHANGED <<rd, thrVars, epoch, hdr, up[epoch]>>
      BY DEF DSendPath, attrVars
    <3>5. PICK at \in Int : at = Len(data[epoch]) + 1
      BY <3>1
    <3>6. Framed(epoch)' /\ Serving(epoch, hdr, at)'
      BY <3>1, <3>2, <3>3, <3>4, <3>5, UnitSent
    <3>7. at = Len(data'[epoch]) - off' - cnt'
      <4>1. Len(data'[epoch]) = Len(data[epoch]) + 1
        BY <1>1, <3>2, <3>3 DEF Typed, TypeOK, TypeNet
      <4> QED
        BY <2>1, <3>1, <3>5, <4>1
    <3>8. Behind'
      BY <1>1, <2>1, <3>6, <3>7 DEF Behind
    <3>9. InStep'
      BY <2>1, <3>8 DEF InStep, Waiting, Sending
    <3> QED
      BY <2>2, <2>3, <2>4, <3>6, <3>9, SpeakingAligns
  <2> QED
    BY <2>5, <2>6
<1> QED
  BY <1>4, <1>5 DEF DSendPath

\* Whatever became of a chunk, the next one begins where it ended.
LEMMA NextChunkCounts ==
  ASSUME Sure, Onwards, pc = "data", NextChunk,
         UNCHANGED <<hdr, resend, epoch>>,
         link'[epoch] = "up" => tot' = tot + ChunkLen /\ link[epoch] = "up"
  PROVE  /\ Counts' /\ pc' \in Sending
         /\ off' = off + ChunkLen /\ cnt' = 0
<1> USE DEF Sure, Aligning
<1>1. /\ Proper(hdr) /\ hdr.cmd = "file" /\ off < hdr.len
      /\ link[epoch] = "up" => tot = off
  BY DaemonChunk DEF Counts, InHand
<1>2. Proper(hdr)'
  BY <1>1, ProperStays
<1>3. hdr.len \in Nat /\ off \in Nat /\ tot \in Nat /\ BUFFERSIZE \in Nat \ {0}
  BY DaemonTypes, TransferAssumption DEF TransferAssumption
<1>4. /\ ChunkLen \in Nat
      /\ MoreChunks(hdr.len, off + ChunkLen) <=> off + ChunkLen # hdr.len
  BY DaemonChunk
<1>5. /\ off' = off + ChunkLen /\ cnt' = 0
      /\ pc' = IF off' = hdr.len THEN "await" ELSE "data"
  BY <1>4 DEF NextChunk
<1>7. link'[epoch'] = "up" => tot' = off'
  BY <1>1, <1>3, <1>4, <1>5
<1> QED
  BY <1>1, <1>2, <1>5, <1>7 DEF Counts, Sending

LEMMA NatSum == \A m, n \in Nat : m + n \in Nat
OBVIOUS

LEMMA SendDataAligns ==
  ASSUME Regular, Sure, Typed', Onwards, DSendData \/ DSendDead
  PROVE  Aligning'
<1> USE DEF Sure, Aligning
<1>1. /\ pc = "data" /\ pc \in Sending /\ Proper(hdr) /\ hdr.cmd = "file"
      /\ cnt < ChunkLen
      /\ src = hdr.req /\ discard = 0 /\ epoch \in Epochs
  <2>1. pc = "data"
    BY DEF DSendData, DSendDead
  <2> QED
    BY <2>1, DaemonTypes, DaemonChunk
       DEF Counts, Discards, Whole, OneRequest, Holding, Loaded, InHand, Sending
<1>2. /\ UNCHANGED <<hdr, resend, epoch, link, discard, down, rd, thrVars>>
      /\ UNCHANGED up[epoch]
  BY DEF DSendData, DSendDead, attrVars, serverSide
<1>3. Discards'
  BY <1>1, <1>2 DEF Discards, DSendData, DSendDead, NextChunk, NothingBreaks
<1>4. Speaking
  <2>1. \A e \in Epochs : e # epoch => UNCHANGED <<data[e], up[e]>>
    BY DEF DSendData, DSendDead, serverSide, Typed, TypeOK, TypeNet
  <2>2. pc' \in Sending
    BY <1>1 DEF DSendData, DSendDead, NextChunk, Sending
  <2> QED
    BY <1>1, <1>2, <2>1, <2>2
       DEF DSendData, DSendDead, Speaking, Sending, serverSide
<1>5. CASE DSendDead
  <2>1. link[epoch] # "up" /\ UNCHANGED <<data[epoch], up[epoch]>> /\ NextChunk
    BY <1>5 DEF DSendDead, serverSide
  <2>2. Counts'
    BY <1>1, <1>2, <2>1, NextChunkCounts
  <2> QED
    BY <1>3, <1>4, <2>1, <2>2, SpeakingAligns
<1>6. CASE DSendData
  <2> DEFINE unit == ByteUnit(src, off + cnt + 1)
  <2>1. /\ link[epoch] = "up" /\ off \in Nat /\ cnt \in Nat /\ tot \in Nat
        /\ data' = [data EXCEPT ![epoch] = Append(@, unit)]
    BY <1>6, DaemonTypes DEF DSendData
  <2>2. unit \in Units /\ unit.k = off + cnt + 1 /\ unit.r = hdr.req /\ unit.k > 0
    BY <1>1, <2>1 DEF Proper, ByteUnit, Units
  <2>3. data'[epoch] = Append(data[epoch], unit)
    BY <1>1, <2>1 DEF Typed, TypeOK, TypeNet
  <2>4. /\ Len(data[epoch]) \in Nat /\ Len(data'[epoch]) = Len(data[epoch]) + 1
        /\ data'[epoch][Len(data[epoch]) + 1] = unit
        /\ \A i \in 1..Len(data'[epoch]) :
             \/ i = Len(data[epoch]) + 1
             \/ i \in 1..Len(data[epoch]) /\ data'[epoch][i] = data[epoch][i]
    BY <1>1, <2>2, <2>3, SMTT(30) DEF Typed, TypeOK, TypeNet
  <2>5. /\ Counts' /\ pc' \in Sending /\ off' \in Nat /\ cnt' \in Nat
        /\ off' + cnt' = off + cnt + 1
    <3>1. CASE cnt + 1 = ChunkLen
      <4>1. NextChunk /\ tot' = tot + ChunkLen
        BY <1>6, <3>1 DEF DSendData
      <4>2. Counts' /\ pc' \in Sending /\ off' = off + ChunkLen /\ cnt' = 0
        BY <1>1, <1>2, <2>1, <4>1, NextChunkCounts
      <4> QED
        BY <2>1, <3>1, <4>2
    <3>2. CASE cnt + 1 # ChunkLen
      <4>1. cnt' = cnt + 1 /\ UNCHANGED <<pc, off, tot>>
        BY <1>6, <3>2 DEF DSendData
      <4>2. hdr.len \in Nat /\ BUFFERSIZE \in Nat \ {0}
        BY DaemonTypes, TransferAssumption DEF TransferAssumption
      <4>3. ChunkLen \in Int /\ ChunkLen' = ChunkLen
        BY <1>1, <1>2, <2>1, <4>1, DaemonChunk DEF ChunkLen
      <4>4. cnt' < ChunkLen'
        <5>1. cnt < ChunkLen /\ cnt \in Nat
          BY <1>1, <2>1
        <5>2. cnt + 1 < ChunkLen
          BY <3>2, <4>3, <5>1
        <5> QED
          BY <4>1, <4>3, <5>2
      <4>5. Proper(hdr)'
        BY <1>1, <1>2, ProperStays
      <4>6. Counts'
        BY <1>1, <1>2, <4>1, <4>4, <4>5 DEF Counts
      <4> QED
        BY <1>1, <2>1, <4>1, <4>6
    <3> QED
      BY <3>1, <3>2
  <2>6. CASE Behind
    <3>1. PICK at \in Int : at = Len(data[epoch]) - off - cnt
      BY <1>1, ProperPositions
    <3>2. Serving(epoch, hdr, at) /\ down[epoch] = <<>>
      BY <2>6, <3>1 DEF Behind
    <3>3. at <= Len(data[epoch]) /\ Len(data[epoch]) + 1 - at = off + cnt + 1
      BY <2>1, <2>4, <3>1
    <3>4. Framed(epoch)' /\ Serving(epoch, hdr, at)'
      BY <1>1, <1>2, <2>2, <2>3, <3>2, <3>3, UnitSent
    <3>5. at = Len(data'[epoch]) - off' - cnt'
      <4>0. off \in Nat /\ cnt \in Nat /\ off' \in Nat /\ cnt' \in Nat
        BY <2>1, <2>5
      <4>6. off + cnt \in Nat /\ off' + cnt' \in Nat
        BY <4>0, NatSum
      <4>1. PICK n \in Nat, m \in Nat : n = off + cnt /\ m = off' + cnt'
        BY <4>6, Zenon
      <4>2. m = n + 1
        BY <2>5, <4>1
      <4>3. Len(data[epoch]) \in Nat /\ Len(data'[epoch]) = Len(data[epoch]) + 1
        BY <2>4
      <4>4. at = Len(data[epoch]) - n
        BY <2>1, <3>1, <4>1, <4>3
      <4>5. at = Len(data'[epoch]) - m
        BY <4>1, <4>2, <4>3, <4>4
      <4> QED
        BY <2>5, <4>1, <4>3, <4>5, SMTT(30)
    <3>6. Behind'
      BY <1>2, <3>2, <3>4, <3>5 DEF Behind
    <3>7. InStep'
      BY <2>5, <3>6 DEF InStep, Waiting, Sending
    <3> QED
      BY <1>3, <1>4, <2>5, <3>4, <3>7, SpeakingAligns
  <2>7. CASE Refusing
    <3>1. Idle' /\ down'[epoch'] = <<"ERR">>
      BY <1>2, <2>7 DEF Refusing, Idle, thrVars
    <3>2. Framed(epoch)'
      BY <3>1 DEF Framed, AtWork, Idle
    <3>3. /\ Len(data[epoch]) = rd[epoch] + (off + cnt) /\ rd[epoch] \in Nat
          /\ \A i \in 1..Len(data[epoch]) :
               i > rd[epoch] => data[epoch][i].k > 0 /\ data[epoch][i].r = hdr.req
      BY <1>1, <2>7, PairTypes DEF Refusing, Useless
    <3>4. Len(data'[epoch]) = rd[epoch] + (off' + cnt')
      <4>1. Len(data'[epoch]) = rd[epoch] + (off + cnt) + 1
        BY <2>4, <3>3
      <4>2. off \in Nat /\ cnt \in Nat /\ off' + cnt' = off + cnt + 1
        BY <2>1, <2>5
      <4> QED
        BY <3>3, <4>1, <4>2
    <3>5. \A i \in 1..Len(data'[epoch]) :
               i > rd[epoch] => data'[epoch][i].k > 0 /\ data'[epoch][i].r = hdr.req
      BY <2>2, <2>4, <3>3
    <3>6. Refusing'
      BY <1>2, <3>1, <3>4, <3>5 DEF Refusing, Useless
    <3>7. InStep'
      BY <2>5, <3>6 DEF InStep, Waiting, Sending
    <3> QED
      BY <1>3, <1>4, <2>5, <3>2, <3>7, SpeakingAligns
  <2>8. CASE GivenUp
    <3>1. GivenUp' /\ st'[epoch'] = "exit"
      BY <1>2, <2>8 DEF GivenUp, thrVars
    <3>2. Framed(epoch)'
      BY <3>1 DEF Framed, AtWork
    <3>3. InStep'
      BY <2>5, <3>1 DEF InStep, Waiting, Sending
    <3> QED
      BY <1>3, <1>4, <2>5, <3>2, <3>3, SpeakingAligns
  <2> QED
    BY <1>1, <2>1, <2>6, <2>7, <2>8 DEF InStep, Finished
<1> QED
  BY <1>5, <1>6

-----------------------------------------------------------------------------
(***************************************************************************)
(* The daemon: the other steps.                                            *)
(***************************************************************************)
LEMMA AnsweredAligns ==
  ASSUME Regular, Sure, Typed', Onwards, DSendAnswered \/ DAwait
  PROVE  Aligning'
<1> USE DEF Sure, Aligning
<1>1. pc \in Sending /\ pc \in InHand /\ epoch \in Epochs
  BY DaemonTypes DEF DSendAnswered, DAwait, Sending, InHand
<1>2. CASE down[epoch] # <<>>
  <2>1. down' = [down EXCEPT ![epoch] = Tail(@)] /\ UNCHANGED result
    BY <1>2 DEF DSendAnswered, DAwait, serverSide, clientVars
  <2>2. pc = "data" => Head(down[epoch]) # "OK"
    <3> SUFFICES ASSUME pc = "data" PROVE Head(down[epoch]) # "OK"
      OBVIOUS
    <3>1. down[epoch] = <<"FORCED">> \/ down[epoch] = <<"ERR">>
      BY <1>1, <1>2 DEF Answers
    <3> QED
      BY <3>1
  <2>3. Listening
    <3>1. \A e \in Epochs : e # epoch => UNCHANGED down[e]
      BY <2>1 DEF Typed, TypeOK, TypeNet
    <3>2. /\ UNCHANGED <<up, data, rd, thrVars, diskVars, epoch, clientVars, cur>>
          /\ UNCHANGED attrVars
      BY DEF DSendAnswered, DAwait, serverSide
    <3>3. /\ HangUp \/ UNCHANGED link
          /\ closed' = closed \/ closed' = closed \cup {cur}
      BY DEF DSendAnswered, DAwait, ReplyAndClose, ReplyAndForce, CatchForced,
             CatchClosed, CloseClient
    <3> QED
      BY <3>1, <3>2, <3>3 DEF Listening
  <2>4. \/ /\ Head(down[epoch]) = "ERR"
           /\ discard' = IF pc = "data" THEN tot + cnt ELSE hdr.len
           /\ ReplyAndClose("ERR")
        \/ /\ Head(down[epoch]) = "FORCED"
           /\ ReplyAndForce
           /\ UNCHANGED discard
        \/ /\ Head(down[epoch]) = "OK" /\ pc = "await"
           /\ ReplyAndClose("OK")
           /\ UNCHANGED discard
    <3>1. CASE DSendAnswered
      BY <2>2, <3>1 DEF DSendAnswered
    <3>2. CASE DAwait
      BY <1>2, <3>2 DEF DAwait
    <3> QED
      BY <3>1, <3>2
  <2> QED
    BY <1>1, <1>2, <2>1, <2>3, <2>4, TakenAligns
<1>3. CASE down[epoch] = <<>>
  <2>1. /\ link[epoch] # "up" /\ CatchClosed /\ UNCHANGED <<down, inbox, closed>>
        /\ UNCHANGED <<serverSide, cur, attrVars, fileVars, epoch>>
    BY <1>3 DEF DSendAnswered, DAwait
  <2>2. ~NothingBreaks
    BY <1>1, <1>3, <2>1 DEF Unbroken
  <2>3. Listening /\ HangUp /\ pc' = "connect" /\ discard' = 0
    BY <2>1 DEF Listening, CatchClosed, serverSide
  <2>4. Told'
    BY <2>1 DEF Told, serverSide, clientVars, diskVars
  <2> QED
    BY <1>1, <2>2, <2>3, <2>4, ToConnect
<1> QED
  BY <1>2, <1>3

LEMMA ConnectAligns ==
  ASSUME Regular, Sure, Typed', Onwards, DConnect
  PROVE  Aligning'
<1> USE DEF Sure, Aligning
<1>1. /\ pc = "connect" /\ pc' = "auth" /\ epoch' = epoch + 1
      /\ epoch \in Epochs /\ epoch + 1 \in Epochs /\ epoch + 1 > epoch
      /\ Proper(hdr) /\ discard = 0
      /\ UNCHANGED <<clientVars, inbox, cur, closed, attrVars, discard, resend,
                     fileVars, up, down, data, rd, h, path, left, pos, got, seen,
                     diskVars>>
  <2>1. pc = "connect" /\ epoch < MaxEpoch
    BY DEF DConnect
  <2>2. epoch \in Epochs /\ epoch + 1 \in Epochs /\ epoch + 1 > epoch
    BY <2>1, TransferAssumption, DaemonTypes DEF TransferAssumption, Epochs
  <2>3. Proper(hdr) /\ discard = 0
    BY <2>1 DEF Counts, Discards, InHand
  <2> QED
    BY <2>1, <2>2, <2>3 DEF DConnect
<1>2. /\ link'[epoch + 1] = "up" /\ st'[epoch + 1] = "auth"
      /\ \A e \in Epochs : e # epoch + 1 => link'[e] = link[e] /\ st'[e] = st[e]
  BY <1>1 DEF DConnect, Typed, TypeOK, TypeNet, TypeThreads
<1>3. /\ st[epoch + 1] = "none" /\ up[epoch + 1] = <<>> /\ down[epoch + 1] = <<>>
      /\ data[epoch + 1] = <<>> /\ rd[epoch + 1] = 0
  BY <1>1 DEF Unopened
<1>4. \A e \in Epochs : Framed(e)'
  <2>1. ASSUME NEW e \in Epochs, e # epoch + 1 PROVE Framed(e)'
    <3>1. PairStays(e)
      BY <1>1, <1>2, <2>1 DEF PairStays, ThreadStays
    <3> QED
      BY <3>1, PairElsewhere
  <2>2. \A e \in Epochs : e = epoch + 1 => Framed(e)'
    BY <1>1, <1>2 DEF AtWork, Framed
  <2> QED
    BY <2>1, <2>2
<1>5. InStep'
  BY <1>1, <1>2, <1>3 DEF InStep, Waiting, Sending
<1>6. Counts'
  BY <1>1, ProperStays DEF Counts, attrVars
<1>7. Discards'
  BY <1>1 DEF Discards, attrVars, NothingBreaks
<1>8. Answers'
  BY <1>1, <1>3 DEF Answers, Waiting, Sending
<1>9. Unopened'
  <2>1. \A e \in Epochs : e > epoch + 1 => e > epoch /\ e # epoch + 1
    BY <1>1 DEF Epochs
  <2>2. \A e \in Epochs : link'[e] # "rst"
    BY <1>2 DEF Unopened
  <2> QED
    BY <1>1, <1>2, <2>1, <2>2 DEF Unopened
<1>10. DirsAskedFor'
  BY <1>1, DirsStay DEF diskVars
<1>11. Queue' /\ Told'
  BY <1>1 DEF Queue, Told, clientVars, diskVars
<1>12. NothingBreaks => Unbroken'
  <2> SUFFICES ASSUME NothingBreaks PROVE Unbroken'
    OBVIOUS
  <2>1. st[epoch] \in {"exit", "dead"} /\ ~resend
    BY <1>1 DEF Unbroken
  <2>2. \A e \in Epochs : e < epoch + 1 => e # epoch + 1 /\ (e = epoch \/ e < epoch)
    BY <1>1 DEF Epochs
  <2>3. \A e \in Epochs : e < epoch' => st'[e] \in {"exit", "dead"}
    BY <1>1, <1>2, <2>1, <2>2 DEF Unbroken
  <2>4. \A c \in Clients : /\ inbox'[c] # "none" => c \in closed'
                           /\ result'[c] # "none" => c \in closed'
    BY <1>1 DEF Unbroken, clientVars
  <2> QED
    BY <1>1, <1>2, <2>1, <2>3, <2>4 DEF Unbroken, Sending
<1>13. NothingBreaks' <=> NothingBreaks
  BY DEF NothingBreaks
<1> QED
  BY <1>4, <1>5, <1>6, <1>7, <1>8, <1>9, <1>10, <1>11, <1>12, <1>13

LEMMA ReconnectAligns ==
  ASSUME Regular, Sure, Typed', Onwards,
         DConnectFails \/ DSendInterrupted \/ DAuthenticate
  PROVE  Aligning'
<1> USE DEF Sure, Aligning
<1>1. /\ pc \in InHand /\ epoch \in Epochs /\ discard = 0
      /\ UNCHANGED <<up, data, rd, thrVars, diskVars, epoch, clientVars, inbox,
                     cur, attrVars>>
  BY DaemonTypes
     DEF DConnectFails, DSendInterrupted, DAuthenticate, InHand, Discards,
         serverSide
<1>2. Told'
  BY <1>1 DEF Told, clientVars, diskVars
<1>3. CASE DConnectFails \/ DSendInterrupted
  <2>1. Listening /\ HangUp /\ pc' = "connect" /\ discard' = 0
    BY <1>1, <1>3 DEF DConnectFails, DSendInterrupted, Listening, CatchForced
  <2>2. ~NothingBreaks
    <3>1. CASE DConnectFails
      BY <3>1 DEF DConnectFails, NothingBreaks, Typed, TypeOK, TypeDisk
    <3>2. CASE DSendInterrupted
      BY <3>2 DEF DSendInterrupted, Selectable, Unbroken, Whole, OneRequest,
                  Holding, Loaded
    <3> QED
      BY <1>3, <3>1, <3>2
  <2> QED
    BY <1>1, <1>2, <2>1, <2>2, ToConnect
<1>4. CASE DAuthenticate
  <2>0. /\ pc = "auth" /\ closed' = closed
        /\ \A e \in Epochs : e # epoch => UNCHANGED down[e]
        /\ NothingBreaks => link[epoch] = "up"
    BY <1>1, <1>4
       DEF DAuthenticate, Unbroken, Sending, Typed, TypeOK, TypeNet
  <2>1. CASE /\ down[epoch] # <<>>
             /\ down' = [down EXCEPT ![epoch] = Tail(@)]
             /\ pc' = "top"
             /\ UNCHANGED <<discard, resend, link>>
    <3>1. down[epoch] = <<"OK">>
      BY <2>0, <2>1 DEF Answers
    <3>2. down'[epoch] = <<>>
      BY <1>1, <2>1, <3>1 DEF Typed, TypeOK, TypeNet
    <3>3. link[epoch] = "up" => Idle /\ Useless(discard', closed')
      <4> SUFFICES ASSUME link[epoch] = "up" PROVE Idle /\ Useless(discard', closed')
        OBVIOUS
      <4>1. /\ up[epoch] = <<>> /\ data[epoch] = <<>> /\ rd[epoch] = 0
            /\ st[epoch] = "hdr"
        BY <2>0, <3>1 DEF InStep
      <4> QED
        BY <1>1, <2>1, <4>1 DEF Idle, Useless
    <3>4. Listening
      BY <1>1, <2>0, <2>1 DEF Listening
    <3> QED
      BY <1>1, <1>2, <2>0, <2>1, <3>2, <3>3, <3>4, ToTop DEF Unbroken
  <2>2. CASE down[epoch] = <<>> /\ link[epoch] # "up" /\ CatchClosed /\ UNCHANGED down
    <3>1. Listening /\ HangUp /\ pc' = "connect" /\ discard' = 0
      BY <1>1, <2>0, <2>2 DEF Listening, CatchClosed
    <3> QED
      BY <1>1, <1>2, <2>0, <2>2, <3>1, ToConnect
  <2> QED
    BY <1>4, <2>1, <2>2 DEF DAuthenticate
<1> QED
  BY <1>3, <1>4

\* What does not happen: the source is there and can be read.
LEMMA SourceIsThere ==
  ASSUME Regular, Sure
  PROVE  ~DOpenFails /\ ~DReadError
<1> USE DEF Sure, Aligning
<1>1. ~DOpenFails
  <2> SUFFICES ASSUME DOpenFails PROVE FALSE
    OBVIOUS
  <2>1. src \in Clients /\ ~Readable(src)
    BY DEF DOpenFails, Whole, OneRequest, Holding, Loaded
  <2>2. job[src] \in Jobs /\ src # None
    BY <2>1, TransferAssumption DEF TransferAssumption, Typed, TypeOK, TypeClients
  <2> QED
    BY <2>1, <2>2 DEF Readable, Regular, Undisturbed
<1>2. ~DReadError
  BY DEF DReadError, Whole, OneRequest, Holding, Loaded, Regular, Counts, InHand,
         Proper
<1> QED
  BY <1>1, <1>2

-----------------------------------------------------------------------------
(***************************************************************************)
(* Every step, and what it is for                                          *)
(***************************************************************************)
LEMMA InitAligning == Init => Aligning
<1> SUFFICES ASSUME Init PROVE Aligning
  OBVIOUS
<1>1. /\ epoch = 1 /\ 1 \in Epochs /\ pc = "top" /\ cur = None /\ closed = {}
      /\ discard = 0 /\ ~resend /\ hdr = NoHeader /\ backlog = <<>>
  BY TransferAssumption DEF Init, TransferAssumption, Epochs
<1>2. \A e \in Epochs :
        /\ link[e] = (IF e = 1 THEN "up" ELSE "none") /\ up[e] = <<>>
        /\ down[e] = <<>> /\ data[e] = <<>> /\ rd[e] = 0 /\ seen[e] = {}
        /\ st[e] = IF e = 1 THEN "hdr" ELSE "none"
  BY DEF Init
<1>3. \A e \in Epochs : Framed(e)
  BY <1>2 DEF Framed, AtWork
<1>4. InStep
  BY <1>1, <1>2 DEF InStep, Waiting, Sending, Idle, Useless
<1>5. Counts /\ Discards
  BY <1>1 DEF Counts, Discards, InHand, NoHeader
<1>6. Answers
  BY <1>1, <1>2 DEF Answers, Waiting, Sending
<1>7. Unopened
  <2>1. \A e \in Epochs : e > 1 => e # 1
    BY DEF Epochs
  <2> QED
    BY <1>1, <1>2, <2>1 DEF Unopened
<1>8. DirsAskedFor
  BY DEF Init, DirsAskedFor, Absent
<1>9. Queue /\ Told
  BY TransferAssumption DEF Init, Queue, Told, TransferAssumption
<1>10. Unbroken
  BY <1>1, <1>2 DEF Init, Unbroken, Sending, Epochs
<1> QED
  BY <1>3, <1>4, <1>5, <1>6, <1>7, <1>8, <1>9, <1>10 DEF Aligning

LEMMA DaemonAligns ==
  ASSUME Regular, Sure, Typed', Whole', Onwards, Daemon \/ DConnectFails
  PROVE  Aligning'
BY LoadingAligns, SendHeaderAligns, SendPathAligns, SendDataAligns,
   AnsweredAligns, ConnectAligns, ReconnectAligns, SourceIsThere DEF Daemon

LEMMA NextAligning ==
  ASSUME Regular
  PROVE  Sure /\ Typed' /\ Whole' /\ [Next]_vars => Aligning'
<1> SUFFICES ASSUME Sure, Typed', Whole', [Next]_vars PROVE Aligning'
  OBVIOUS
<1>1. Onwards
  BY StepOnwards DEF Sure
<1>2. CASE UNCHANGED vars
  <2>1. UNCHANGED daemonSide /\ UNCHANGED <<netVars, thrVars, diskVars>>
    BY <1>2 DEF vars, daemonSide
  <2>2. OnlyCloses
    BY <2>1 DEF OnlyCloses, daemonSide, netVars
  <2>3. Counts' /\ Discards' /\ Queue' /\ Told'
    BY <1>1, <2>1, <2>2, DaemonSideStays DEF Sure
  <2>4. \A e \in Epochs : PairStays(e)
    BY <2>1 DEF PairStays, ThreadStays, netVars, thrVars
  <2>5. \A e \in Epochs : Framed(e)'
    BY <1>1, <2>4, PairElsewhere DEF Sure, Aligning
  <2>6. InStep' /\ Answers'
    BY <1>1, <2>1, InStepStays, AnswersStay
       DEF Sure, Aligning, ThreadStays, daemonSide, attrVars, fileVars, netVars,
           thrVars
  <2>7. Unopened' /\ DirsAskedFor'
    BY <1>1, <2>1, DirsStay
       DEF Sure, Aligning, Unopened, daemonSide, netVars, thrVars, diskVars
  <2>8. NothingBreaks => Unbroken'
    BY <2>1 DEF Sure, Aligning, Unbroken, daemonSide, clientVars, netVars, thrVars
  <2>9. NothingBreaks' <=> NothingBreaks
    BY DEF NothingBreaks
  <2> QED
    BY <2>3, <2>5, <2>6, <2>7, <2>8, <2>9 DEF Aligning
<1>3. 1 \in Epochs
  BY TransferAssumption DEF TransferAssumption, Epochs
<1> QED
  BY <1>1, <1>2, <1>3, ClientAligns, DaemonAligns, ServerAligns DEF Next, Quiet

LEMMA AlwaysSure ==
  ASSUME Regular
  PROVE  Spec => []Sure
<1>1. Regular => Undisturbed
  BY DEF Regular
<1>2. Init => OnePairOpen
  BY DEF Init, OnePairOpen, Epochs
<1>3. Undisturbed
  BY <1>1
<1>4. Typed /\ Whole /\ OnePairOpen /\ Aligning <=> Sure
  BY DEF Sure
<1>5. Whole /\ Typed /\ [Next]_vars => Whole'
  BY <1>3, NextWhole
<1>6. Sure /\ Typed' /\ Whole' /\ [Next]_vars => Aligning'
  BY NextAligning
<1>7. Sure /\ [Next]_vars => Sure'
  <2> SUFFICES ASSUME Sure, [Next]_vars PROVE Sure'
    OBVIOUS
  <2>1. Typed' /\ Whole' /\ OnePairOpen'
    BY <1>5, NextTyped, NextOnePairOpen DEF Sure
  <2>2. Aligning'
    BY <1>6, <2>1
  <2> QED
    BY <2>1, <2>2 DEF Sure
<1>8. Init => Sure
  BY <1>2, <1>4, InitTyped, InitWhole, InitAligning
<1> QED
  BY <1>7, <1>8, PTL DEF Spec

\* What is read while a thread discards, it reads by discarding.
LEMMA ReadsAlone ==
  ASSUME Typed, [Next]_vars, NEW e \in Epochs, st[e] = "discard", rd'[e] > rd[e]
  PROVE  SrvDiscard(e)
<1>1. rd'[e] # rd[e]
  BY PairTypes
<1>2. ~(UNCHANGED vars \/ Quiet \/ CrashServer \/ Daemon \/ DConnectFails)
  BY <1>1
     DEF vars, netVars, Quiet, CrashServer, ServerEnds, Daemon, DAccept, DResend,
         DLoadAttrs, DLoadSource, DLoadDest, DStat, DOpenFails, DSendHeader,
         DSendPath, DSendData, DSendDead, DSendAnswered, DSendInterrupted,
         DReadError, DAwait, DConnect, DAuthenticate, DConnectFails, serverSide
<1>3. \A c \in Clients :
        ~(ClientConnect(c) \/ ClientSend(c) \/ ClientReceive(c) \/ ClientEof(c)
            \/ ClientInterrupt(c))
  BY <1>1 DEF ClientConnect, ClientSend, ClientReceive, ClientEof,
              ClientInterrupt, othersThanClient, netVars
<1>4. PICK d \in Epochs : SrvThread(d) \/ SrvEnding(d) \/ Break(d)
  BY <1>2, <1>3 DEF Next
<1>5. ~SrvSigpipe(d) /\ ~Break(d)
  BY <1>1 DEF SrvSigpipe, ServerEnds, Break
<1>6. d = e
  <2>1. d # e => UNCHANGED rd[e]
    BY <1>4, <1>5, PairApart DEF PairStays, ThreadStays
  <2> QED
    BY <1>1, <2>1
<1>7. ~SrvEnding(e)
  BY <1>1, <1>5, <1>6
     DEF SrvEnding, SrvWriteFails, SrvEof, SrvHeaderReset, SrvDiscardReset,
         SrvPathReset, SrvDataReset, DataReset, netVars
<1> QED
  BY <1>4, <1>5, <1>6, <1>7
     DEF SrvThread, SrvAuth, SrvHeader, SrvPath, SrvOpen, SrvMkdir, SrvRefuse,
         Refused, SrvData, SrvAck, SrvExit

\* The two connections of a pair stay in step: the name a thread opens is
\* the path that belongs to the header it holds (server.c, 388-392).
THEOREM ConnectionsAligned ==
  ASSUME Regular
  PROVE  Spec => []Aligned
<1>1. Sure => Aligned
  <2> SUFFICES ASSUME Sure, NEW e \in Epochs, st[e] = "open"
               PROVE  path[e] = Dest(e)
    BY DEF Aligned
  <2>1. AtWork(e)
    BY DEF AtWork
  <2>2. PICK req \in Headers, at \in Nat \ {0} : Serving(e, req, at)
    BY <2>1 DEF Sure, Aligning, Framed
  <2> QED
    BY <2>2 DEF Serving
<1> QED
  BY <1>1, AlwaysSure, PTL

\* Who is told ACK_OK has had its file received or its directory made: the
\* answer that main of the daemon passes on is that to the request of the
\* client behind client_socket (server.c, 418; client_daemon.c, 567-573).
THEOREM AcksTrue ==
  ASSUME Regular
  PROVE  Spec => []AckTruthful
<1>1. Sure => AckTruthful
  BY DEF Sure, Aligning, Told, AckTruthful
<1> QED
  BY <1>1, AlwaysSure, PTL

\* No answer to an earlier request waits on the command connection when the
\* daemon turns to the next one.
THEOREM NoAnswerLeft ==
  ASSUME Regular
  PROVE  Spec => []NoStrayAnswer
<1>1. Sure => NoStrayAnswer
  BY DEF Sure, Aligning, Answers, Waiting, NoStrayAnswer
<1> QED
  BY <1>1, AlwaysSure, PTL

\* discard_data throws away file bytes of others only: never a path, never
\* a byte of the request whose header announced them (server.c, 383-387).
THEOREM DiscardsTheUseless ==
  ASSUME Regular
  PROVE  Spec => OnlyUselessDiscarded
<1> DEFINE Harmless(e) ==
             st[e] = "discard" /\ rd'[e] > rd[e] =>
               LET unit == data[e][rd[e] + 1]
               IN  unit.k > 0 /\ unit.r # h[e].req
<1>1. Sure /\ [Next]_vars => [\A e \in Epochs : Harmless(e)]_vars
  <2> SUFFICES ASSUME Sure, [Next]_vars, NEW e \in Epochs,
                      st[e] = "discard", rd'[e] > rd[e]
               PROVE  /\ data[e][rd[e] + 1].k > 0
                      /\ data[e][rd[e] + 1].r # h[e].req
    OBVIOUS
  <2>1. AtWork(e)
    BY DEF AtWork
  <2>2. PICK req \in Headers, at \in Nat \ {0} :
           Serving(e, req, at) /\ Layout(e, req, at)
    BY <2>1 DEF Sure, Aligning, Framed
  <2>3. h[e] = req /\ at = rd[e] + left[e] + 1
    BY <2>2 DEF Serving
  <2>4. SrvDiscard(e)
    BY ReadsAlone DEF Sure
  <2>5. rd[e] + 1 \in 1..Len(data[e]) /\ rd[e] < rd[e] + 1
    BY <2>4, PairTypes DEF SrvDiscard, Unread, Sure
  <2>6. rd[e] + 1 < at
    <3>1. left[e] > 0 /\ left[e] \in Nat /\ rd[e] \in Nat
      BY PairTypes DEF Sure, Typed, NoOverrun, ThreadWithin
    <3> QED
      BY <2>3, <3>1
  <2> QED
    BY <2>2, <2>3, <2>5, <2>6 DEF Layout
<1> QED
  BY <1>1, AlwaysSure, PTL DEF Spec, OnlyUselessDiscarded

-----------------------------------------------------------------------------
(***************************************************************************)
(* Where nothing breaks: what was refused is not carried out               *)
(***************************************************************************)
Refusals ==
  /\ \A c \in Clients : inbox[c] = "ERR" => c \notin delivered
  /\ delivered \subseteq Clients \cap (closed \cup {cur})
  /\ pc \in {"top", "connect", "auth"} => cur \in closed \cup {None}
  /\ pc \notin {"top", "connect", "auth"} /\ cur \in delivered =>
       down[epoch] = <<"OK">>

\* A thread that works on a file, in the open pair, does so for the daemon's
\* current request.
LEMMA WorksForCurrent ==
  ASSUME Sure, link[epoch] = "up", st[epoch] \in {"open", "write", "ack"}
  PROVE  /\ pc \in Sending /\ Behind /\ h[epoch] = hdr /\ hdr.req = cur
         /\ cur \in Clients
<1> USE DEF Sure, Aligning
<1>1. epoch \in Epochs /\ ~Idle /\ pc # "connect"
  BY DaemonTypes DEF Idle, OnePairOpen
<1>2. pc # "path"
  <2> SUFFICES ASSUME pc = "path" PROVE FALSE
    OBVIOUS
  <2>1. Serving(epoch, hdr, Len(data[epoch]) + 1)
    BY DEF InStep
  <2>2. PICK at \in Int : at = Len(data[epoch]) + 1
    BY <1>1, ProperPositions
  <2>3. \/ at = rd[epoch]
        \/ at + pos[epoch] + got[epoch] = rd[epoch]
        \/ at + hdr.len = rd[epoch]
    BY <2>1, <2>2 DEF Serving
  <2>4. /\ rd[epoch] \in Nat /\ pos[epoch] \in Nat /\ got[epoch] \in Nat
        /\ Len(data[epoch]) \in Nat /\ rd[epoch] <= Len(data[epoch])
        /\ hdr.len \in Nat
    BY <1>1, PairTypes, DaemonTypes
  <2> QED
    BY <2>2, <2>3, <2>4
<1>3. pc \in Sending
  BY <1>1, <1>2 DEF InStep, Waiting, Sending, Typed, TypeOK, TypeDaemon
<1>4. Behind
  BY <1>1, <1>3 DEF InStep, Refusing, Finished, GivenUp
<1>5. h[epoch] = hdr
  BY <1>4 DEF Behind, Serving
<1> QED
  BY <1>3, <1>4, <1>5 DEF Sending, Whole, OneRequest, Holding, Loaded

LEMMA CarriesOut ==
  ASSUME NothingBreaks, Sure, NEW e \in Epochs, SrvThread(e) \/ SrvEnding(e)
  PROVE  \/ delivered' = delivered
         \/ /\ SrvAck(e) /\ e = epoch /\ delivered' = delivered \cup {cur}
            /\ h[e].req = cur /\ cur \in Clients /\ link[e] = "up"
            /\ pc \in Sending /\ Behind
<1> USE DEF Sure, Aligning
<1>1. CASE ~SrvMkdir(e) /\ ~SrvAck(e)
  BY <1>1 DEF SrvThread, SrvAuth, SrvHeader, SrvDiscard, SrvPath, SrvOpen,
              SrvRefuse, SrvData, SrvExit, SrvEnding, SrvWriteFails, SrvEof,
              SrvSigpipe, SrvHeaderReset, SrvDiscardReset, SrvPathReset,
              SrvDataReset, DataReset, ServerEnds, diskVars
<1>2. CASE SrvMkdir(e) \/ SrvAck(e)
  <2>1. st[e] \in {"open", "ack"}
    BY <1>2 DEF SrvMkdir, SrvAck
  <2>2. e = epoch /\ link[epoch] = "up"
    BY <2>1, Living
  <2>3. /\ pc \in Sending /\ Behind /\ h[e] = hdr /\ hdr.req = cur
        /\ cur \in Clients
    BY <2>1, <2>2, WorksForCurrent
  <2>4. ~SrvMkdir(e)
    <3>1. Proper(hdr)
      BY <2>3 DEF Counts, Sending, InHand
    <3>2. job[hdr.req] \in Jobs
      BY <2>3 DEF Typed, TypeOK, TypeClients
    <3> QED
      BY <2>3, <3>1, <3>2 DEF SrvMkdir, Proper, NothingBreaks
  <2> QED
    BY <1>2, <2>2, <2>3, <2>4 DEF SrvAck
<1> QED
  BY <1>1, <1>2

LEMMA NothingFails ==
  ASSUME NothingBreaks, Typed
  PROVE  ~CrashServer /\ ~DConnectFails /\ \A e \in Epochs : ~Break(e)
BY DEF NothingBreaks, Typed, TypeOK, TypeDisk, CrashServer, DConnectFails, Break

LEMMA ServerRefusals ==
  ASSUME Regular, NothingBreaks, Sure, Typed', Refusals, NEW e \in Epochs,
         SrvThread(e) \/ SrvEnding(e)
  PROVE  Refusals'
<1> USE DEF Sure, Aligning
<1>1. UNCHANGED daemonSide
  BY ServerApart
<1>2. epoch \in Epochs
  BY DaemonTypes
<1>3. CASE delivered' # delivered
  <2>1. /\ SrvAck(e) /\ e = epoch /\ delivered' = delivered \cup {cur}
        /\ cur \in Clients /\ link[e] = "up" /\ pc \in Sending /\ Behind
    BY <1>3, CarriesOut
  <2>2. down'[epoch] = <<"OK">>
    <3>1. down' = [down EXCEPT ![epoch] = Append(@, "OK")] /\ down[epoch] = <<>>
      BY <2>1 DEF SrvAck, Send, Behind
    <3> QED
      BY <1>2, <3>1 DEF Typed, TypeOK, TypeNet
  <2>3. cur \notin closed /\ inbox[cur] # "ERR" /\ pc \notin {"top", "connect", "auth"}
    BY <2>1 DEF Unbroken, Sending
  <2> QED
    BY <1>1, <2>1, <2>2, <2>3 DEF Refusals, daemonSide
<1>4. CASE delivered' = delivered
  <2>1. SUFFICES ASSUME pc \notin {"top", "connect", "auth"}, cur \in delivered
                 PROVE  UNCHANGED down[epoch]
    BY <1>1, <1>4 DEF Refusals, daemonSide
  <2>2. down[epoch] = <<"OK">> /\ pc = "await" /\ link[epoch] = "up"
    BY <2>1 DEF Refusals, Answers, Unbroken, Waiting, Sending, Typed, TypeOK,
                TypeDaemon
  <2>3. Idle /\ link[epoch] # "rst"
    BY <1>2, <2>2 DEF InStep, Sending, Behind, Refusing, Finished, GivenUp, Unopened
  <2>4. e # epoch
    BY <2>2, <2>3
       DEF Idle, SrvThread, SrvAuth, SrvHeader, SrvDiscard, SrvPath, SrvOpen,
           SrvMkdir, SrvRefuse, Refused, SrvData, SrvAck, SrvExit, SrvEnding,
           SrvWriteFails, SrvEof, SrvSigpipe, SrvHeaderReset, SrvDiscardReset,
           SrvPathReset, SrvDataReset, WantsMore
  <2>5. ~SrvSigpipe(e)
    BY DEF SrvSigpipe, Unopened
  <2>6. PairStays(epoch)
    BY <1>2, <2>4, <2>5, PairApart
  <2> QED
    BY <1>1, <2>6 DEF PairStays, daemonSide
<1> QED
  BY <1>3, <1>4

LEMMA DaemonRefusals ==
  ASSUME Regular, NothingBreaks, Sure, Typed', Whole', Refusals, Daemon
  PROVE  Refusals'
<1> USE DEF Sure, Aligning
<1>1. CASE DAccept \/ DResend \/ DLoadAttrs \/ DLoadSource \/ DLoadDest \/ DStat
  <2>1. /\ pc \in Waiting \ {"open"} /\ pc' \in Waiting \ {"top"}
        /\ UNCHANGED <<closed, epoch, down, delivered, inbox>>
        /\ (backlog' = backlog /\ cur' = cur) \/ DAccept
    BY <1>1, Loading DEF netVars, diskVars
  <2>2. CASE DAccept
    <3>1. /\ backlog \in Seq(Clients) /\ backlog # <<>> /\ cur' = backlog[1]
          /\ pc = "top" /\ pc' = "attrs"
      BY <2>2 DEF DAccept, Typed, TypeOK, TypeClients
    <3>2. 1 \in 1..Len(backlog)
      BY <3>1
    <3>3. cur' \notin closed
      BY <3>1, <3>2 DEF Queue
    <3>4. delivered \subseteq Clients \cap closed
      BY <3>1, TransferAssumption DEF Refusals, TransferAssumption
    <3> QED
      BY <2>1, <3>1, <3>3, <3>4 DEF Refusals
  <2>3. CASE ~DAccept
    <3>1. pc # "top"
      BY <1>1, <2>3
         DEF DResend, DLoadAttrs, DLoadSource, DLoadDest, DStat, Unbroken
    <3> QED
      BY <2>1, <2>3, <3>1 DEF Refusals, Waiting
  <2> QED
    BY <2>2, <2>3
<1>2. CASE DSendHeader \/ DSendPath \/ DSendData \/ DSendDead
  <2>1. pc \in {"open", "path"} => link[epoch] = "up"
    BY DEF Unbroken, Sending
  <2>2. /\ pc \in {"open", "path", "data"} /\ pc' \in {"path", "data", "await"}
        /\ UNCHANGED <<closed, epoch, down, delivered, inbox, cur>>
    BY <1>2, <2>1
       DEF DSendHeader, DSendPath, DSendData, DSendDead, AfterPath, NextChunk,
           CatchClosed, serverSide, diskVars
  <2> QED
    BY <2>2 DEF Refusals
<1>3. CASE DSendAnswered \/ DAwait
  <2>0. pc \in Sending /\ cur \in Clients /\ CanReply
    <3>1. pc \in Sending
      BY <1>3 DEF DSendAnswered, DAwait, Sending
    <3> QED
      BY <3>1, Reachable DEF Whole, OneRequest, Holding, Loaded, Sending
  <2>1. PICK flag : down[epoch] = <<flag>> /\ (flag = "OK" => pc = "await")
    BY <1>3, <2>0 DEF DSendAnswered, DAwait, Answers, Unbroken
  <2>2. /\ \/ flag = "ERR" /\ ReplyAndClose("ERR")
           \/ flag = "FORCED" /\ ReplyAndForce
           \/ flag = "OK" /\ ReplyAndClose("OK")
        /\ UNCHANGED <<cur, delivered>>
    <3>1. Head(down[epoch]) = flag /\ down[epoch] # <<>>
      BY <2>1
    <3>2. CASE DSendAnswered
      BY <2>1, <3>1, <3>2 DEF DSendAnswered, serverSide, diskVars
    <3>3. CASE DAwait
      BY <3>1, <3>3 DEF DAwait, serverSide, diskVars
    <3> QED
      BY <1>3, <3>2, <3>3
  <2>3. pc' \in {"top", "connect"} /\ closed' = closed \cup {cur}
    BY <2>0, <2>2 DEF ReplyAndClose, ReplyAndForce, CatchForced, CloseClient
  <2>4. \A c \in Clients : inbox'[c] = "ERR" =>
          inbox[c] = "ERR" \/ (c = cur /\ flag # "OK")
    BY <2>0, <2>2 DEF ReplyAndClose, ReplyAndForce, Typed, TypeOK, TypeClients
  <2>5. flag # "OK" => cur \notin delivered
    <3>1. flag # "OK" => down[epoch] # <<"OK">>
      BY <2>1
    <3> QED
      BY <2>0, <3>1 DEF Refusals, Sending
  <2> QED
    BY <2>2, <2>3, <2>4, <2>5 DEF Refusals
<1>4. CASE DConnect \/ DAuthenticate
  <2>1. pc = "auth" => link[epoch] = "up"
    BY DEF Unbroken, Sending
  <2>2. /\ pc \in {"connect", "auth"} /\ pc' \in {"auth", "top"}
        /\ UNCHANGED <<closed, delivered, inbox, cur>>
    BY <1>4, <2>1 DEF DConnect, DAuthenticate, serverSide, diskVars
  <2> QED
    BY <2>2 DEF Refusals
<1>5. ~DSendInterrupted
  BY DEF DSendInterrupted, Selectable, Unbroken, Whole, OneRequest, Holding, Loaded
<1> QED
  BY <1>1, <1>2, <1>3, <1>4, <1>5, SourceIsThere DEF Daemon

LEMMA NextRefusals ==
  ASSUME Regular, NothingBreaks
  PROVE  Sure /\ Refusals /\ Typed' /\ Whole' /\ [Next]_vars => Refusals'
<1> SUFFICES ASSUME Sure, Refusals, Typed', Whole', [Next]_vars PROVE Refusals'
  OBVIOUS
<1>1. CASE UNCHANGED vars
  BY <1>1 DEF vars, netVars, diskVars, Refusals
<1>2. ASSUME NEW c \in Clients,
             ClientConnect(c) \/ ClientSend(c) \/ ClientReceive(c)
               \/ ClientEof(c) \/ ClientInterrupt(c)
      PROVE  Refusals'
  BY <1>2 DEF ClientConnect, ClientSend, ClientReceive, ClientEof,
              ClientInterrupt, othersThanClient, netVars, diskVars, Refusals
<1> QED
  BY <1>1, <1>2, NothingFails, ServerRefusals, DaemonRefusals
     DEF Next, Quiet, Sure

LEMMA AlwaysRefusals ==
  ASSUME Regular, NothingBreaks
  PROVE  Spec => []Refusals
<1>1. Init => Refusals
  BY DEF Init, Refusals
<1>2. Sure /\ Sure' /\ Refusals /\ [Next]_vars => Refusals'
  BY NextRefusals DEF Sure
<1> QED
  BY <1>1, <1>2, AlwaysSure, PTL DEF Spec

\* Who is told ACK_ERROR has not had its request carried out: where no
\* connection fails, a refusal is the end of a request.
THEOREM RefusalsTrue ==
  ASSUME Regular, NothingBreaks
  PROVE  Spec => []RefusedNotDelivered
<1>1. Sure /\ Refusals => RefusedNotDelivered
  BY DEF Sure, Aligning, Told, Refusals, RefusedNotDelivered
<1> QED
  BY <1>1, AlwaysSure, AlwaysRefusals, PTL

-----------------------------------------------------------------------------
(***************************************************************************)
(* Where connections break: what was refused can never be carried out      *)
(***************************************************************************)
\* c's request fails whenever it is tried.
Deniable(c) ==
  \/ job[c].dest \in BadPaths
  \/ job[c].kind = "dir" /\ files[job[c].dest].kind # "absent"

Denials ==
  /\ \A c \in Clients : inbox[c] = "ERR" => Deniable(c)
  /\ pc \in Sending /\ down[epoch] \in {<<"ERR">>, <<"FORCED">>} =>
       Deniable(hdr.req)

Steady == NothingRefused /\ ~DiskErrors

\* Nothing disappears from the disk.
LEMMA FilesRemain ==
  ASSUME Typed, [Next]_vars, NEW at \in Paths \cup {Junk},
         files[at].kind # "absent"
  PROVE  files'[at].kind # "absent"
<1>1. ASSUME NEW c \in Clients,
             ClientConnect(c) \/ ClientSend(c) \/ ClientReceive(c)
               \/ ClientEof(c) \/ ClientInterrupt(c)
      PROVE  UNCHANGED files
  BY <1>1 DEF ClientConnect, ClientSend, ClientReceive, ClientEof,
              ClientInterrupt, othersThanClient, diskVars
<1>2. CASE UNCHANGED vars \/ Quiet \/ CrashServer \/ Daemon \/ DConnectFails
  BY <1>2
     DEF vars, diskVars, Quiet, CrashServer, ServerEnds, Daemon, DAccept, DResend,
         DLoadAttrs, DLoadSource, DLoadDest, DStat, DOpenFails, DSendHeader,
         DSendPath, DSendData, DSendDead, DSendAnswered, DSendInterrupted,
         DReadError, DAwait, DConnect, DAuthenticate, DConnectFails, serverSide
<1>3. ASSUME NEW e \in Epochs, SrvThread(e) \/ SrvEnding(e) \/ Break(e)
      PROVE  files'[at].kind # "absent"
  <2>1. CASE SrvOpen(e) \/ SrvMkdir(e)
    BY <2>1 DEF SrvOpen, SrvMkdir, File, Directory, Typed, TypeOK, TypeDisk
  <2>2. CASE SrvData(e) \/ SrvAck(e) \/ SrvDataReset(e)
    <3>1. UNCHANGED files \/ \E to, units : Store(e, to, units)
      BY <2>2 DEF SrvData, SrvAck, SrvDataReset, WriteChunk, Flush
    <3>2. CASE \E to, units : Store(e, to, units)
      <4>1. PICK to, units : Store(e, to, units)
        BY <3>2
      <4>2. \A d \in Paths \cup {Junk} : files'[d].kind = files[d].kind
        BY <4>1, StoreKinds
      <4> QED
        BY <4>2
    <3> QED
      BY <3>1, <3>2
  <2>3. CASE ~(SrvOpen(e) \/ SrvMkdir(e) \/ SrvData(e) \/ SrvAck(e) \/ SrvDataReset(e))
    <3>1. UNCHANGED files
      BY <1>3, <2>3
         DEF SrvThread, SrvAuth, SrvHeader, SrvDiscard, SrvPath, SrvRefuse,
             SrvExit, SrvEnding, SrvWriteFails, SrvEof, SrvSigpipe, SrvHeaderReset,
             SrvDiscardReset, SrvPathReset, ServerEnds, Break, diskVars
    <3> QED
      BY <3>1
  <2> QED
    BY <2>1, <2>2, <2>3
<1> QED
  BY <1>1, <1>2, <1>3 DEF Next

LEMMA DeniableStays ==
  ASSUME Typed, [Next]_vars, NEW c \in Clients, Deniable(c)
  PROVE  Deniable(c)'
<1>1. job[c].dest \in Paths /\ job' = job
  BY StepOnwards, TransferAssumption
     DEF Onwards, TransferAssumption, Typed, TypeOK, TypeClients
<1> QED
  BY <1>1, FilesRemain DEF Deniable

\* What the thread of the open pair answers is the fate of the request that
\* the daemon is sending.
LEMMA DenialTrue ==
  ASSUME Regular, Steady, Sure, NEW e \in Epochs,
         SrvThread(e) \/ SrvEnding(e) \/ Break(e), pc \in Sending,
         down'[epoch] \in {<<"ERR">>, <<"FORCED">>}, down'[epoch] # down[epoch]
  PROVE  Deniable(hdr.req)
<1> USE DEF Sure, Aligning
<1>1. epoch \in Epochs /\ ~SrvSigpipe(e) /\ epoch' = epoch
  BY DaemonTypes, ServerApart DEF SrvSigpipe, Unopened, daemonSide
<1>2. e = epoch
  <2>1. e # epoch => PairStays(epoch)
    BY <1>1, PairApart
  <2> QED
    BY <1>1, <2>1 DEF PairStays
<1>3. ~Break(e)
  <2> SUFFICES ASSUME Break(e) PROVE FALSE
    OBVIOUS
  <2>1. PICK x : down[epoch] \in {<<>>, <<x>>}
    BY DEF Answers
  <2>2. down'[epoch] \in Prefixes(down[epoch])
    BY <1>2 DEF Break, Typed, TypeOK, TypeNet
  <2>3. PICK t, s : t = down[epoch] /\ s = down'[epoch]
    OBVIOUS
  <2>5. t \in {<<>>, <<x>>} /\ s \in Prefixes(t)
    BY <2>1, <2>2, <2>3
  <2>6. s \in {<<>>, t}
    BY <2>5, PrefixOfOne, SMTT(30)
  <2>4. <<"ERR">> # <<>> /\ <<"FORCED">> # <<>>
    OBVIOUS
  <2> QED
    BY <2>3, <2>4, <2>6
<1>4. ASSUME NEW flag, NEW next, Send(e, flag, next)
      PROVE  link[epoch] = "up" /\ down'[epoch] = Append(down[epoch], flag)
  BY <1>1, <1>2, <1>4 DEF Send, Typed, TypeOK, TypeNet
<1>5. CASE SrvAuth(e) \/ SrvAck(e)
  <2>1. /\ link[epoch] = "up" /\ st[epoch] \in {"auth", "ack"}
        /\ down'[epoch] = Append(down[epoch], "OK")
    BY <1>1, <1>2, <1>4, <1>5 DEF SrvAuth, SrvAck, Typed, TypeOK, TypeNet
  <2>2. down[epoch] = <<>>
    BY <2>1 DEF InStep, Behind, Refusing, Finished, GivenUp, Idle
  <2>3. down'[epoch] = <<"OK">> /\ <<"OK">> # <<"ERR">> /\ <<"OK">> # <<"FORCED">>
    BY <2>1, <2>2
  <2> QED
    BY <2>3
<1>6. CASE SrvPath(e)
  <2>1. path'[e] \in BadPaths /\ link[epoch] = "up"
    BY <1>4, <1>6, <1>2 DEF SrvPath
  <2>2. st[epoch] = "path" /\ Behind
    BY <1>2, <1>6, <2>1 DEF SrvPath, InStep, Refusing, Finished, GivenUp, Idle
  <2>3. PICK at \in Int : at = Len(data[epoch]) - off - cnt
    BY <1>1, ProperPositions
  <2>4. Serving(epoch, hdr, at)
    BY <2>2, <2>3 DEF Behind
  <2>5. Layout(epoch, hdr, at) /\ Proper(hdr) /\ at = rd[epoch] + 1
    BY <2>2, <2>4, LaidOut DEF Serving
  <2>6. rd[epoch] + 1 \in 1..Len(data[epoch])
    BY <1>1, <1>2, <1>6, PairTypes DEF SrvPath, Unread
  <2>7. data[epoch][rd[epoch] + 1] = PathUnit(hdr.req)
    BY <2>5, <2>6 DEF Layout
  <2>8. path'[epoch] = PathIn(PathUnit(hdr.req))
    BY <1>1, <1>2, <1>6, <2>7 DEF SrvPath, Typed, TypeOK, TypeThreads
  <2>9. path'[epoch] = job[hdr.req].dest
    BY <2>5, <2>8, TransferAssumption DEF PathIn, PathUnit, Proper, TransferAssumption
  <2> QED
    BY <1>2, <2>1, <2>9 DEF Deniable
<1>7. CASE SrvRefuse(e)
  <2>1. link[epoch] = "up" /\ st[epoch] = "open"
    BY <1>2, <1>4, <1>7 DEF SrvRefuse, Refused
  <2>2. Behind /\ h[epoch] = hdr /\ Proper(hdr)
    BY <2>1, WorksForCurrent DEF Counts, InHand, Sending
  <2>3. path[epoch] = Dest(epoch)
    BY <2>1, <2>2 DEF Behind, Serving
  <2>4. /\ job[hdr.req] \in Jobs /\ path[epoch] = job[hdr.req].dest
        /\ path[epoch] \in Paths /\ path[epoch] # Junk
    BY <2>2, <2>3, TransferAssumption
       DEF Dest, Proper, TransferAssumption, Typed, TypeOK, TypeClients
  <2>5. \/ hdr.cmd = "file" /\ files[path[epoch]].kind = "dir"
        \/ hdr.cmd = "dir" /\ files[path[epoch]].kind # "absent"
    BY <1>2, <1>7, <2>2, <2>4 DEF SrvRefuse, Refused, Steady, NothingRefused
  <2>6. ASSUME hdr.cmd = "file", files[path[epoch]].kind = "dir" PROVE FALSE
    <3>1. PICK c \in Clients : job[c].dest = path[epoch] /\ job[c].kind = "dir"
      BY <2>4, <2>6 DEF DirsAskedFor
    <3>2. job[c] \in Jobs /\ job[hdr.req].kind = "file"
      BY <2>2, <2>6 DEF Proper, Typed, TypeOK, TypeClients
    <3> QED
      BY <2>4, <3>1, <3>2 DEF Steady, NothingRefused
  <2> QED
    BY <2>2, <2>4, <2>5, <2>6 DEF Deniable, Proper
<1> QED
  BY <1>1, <1>2, <1>3, <1>5, <1>6, <1>7
     DEF Steady, SrvThread, SrvHeader, SrvDiscard, SrvOpen, SrvMkdir, SrvData,
         SrvExit, SrvEnding, SrvWriteFails, SrvEof, SrvHeaderReset,
         SrvDiscardReset, SrvPathReset, SrvDataReset, DataReset, netVars

LEMMA DaemonDenials ==
  ASSUME Regular, Steady, Sure, Typed', Denials, [Next]_vars,
         Daemon \/ DConnectFails
  PROVE  Denials'
<1> USE DEF Sure, Aligning
<1>1. \A c \in Clients : Deniable(c) => Deniable(c)'
  BY DeniableStays
<1>2. pc \in InHand => hdr.req \in Clients /\ hdr.req = cur
  BY DEF Whole, OneRequest, Holding, Loaded, InHand
<1>3. CASE DAccept \/ DResend \/ DLoadAttrs \/ DLoadSource \/ DLoadDest \/ DStat
  BY <1>1, <1>3, Loading DEF Denials, Waiting, Sending
<1>4. CASE DSendHeader \/ DSendPath \/ DSendData \/ DSendDead
  <2>1. /\ UNCHANGED <<inbox, hdr, epoch, down>>
        /\ pc' \in Sending => pc \in {"path", "data"}
        /\ pc \in InHand
    <3>1. pc = "open" => hdr.cmd # "none"
      BY DEF Counts, InHand, Proper
    <3> QED
      BY <1>4, <3>1
         DEF DSendHeader, DSendPath, DSendData, DSendDead, CatchClosed, Sending,
             InHand, serverSide, attrVars
  <2>2. pc = "path" => down[epoch] = <<>>
    BY DEF Answers
  <2> QED
    BY <1>1, <1>2, <2>1, <2>2 DEF Denials, Sending
<1>5. CASE DSendAnswered \/ DAwait
  <2>0. pc \in Sending /\ pc \in InHand
    BY <1>5 DEF DSendAnswered, DAwait, Sending, InHand
  <2>1. CASE down[epoch] # <<>>
    <3>1. PICK flag : down[epoch] = <<flag>> /\ (flag = "OK" => pc = "await")
      BY <2>0, <2>1 DEF Answers
    <3>2. \/ flag = "ERR" /\ ReplyAndClose("ERR")
          \/ flag = "FORCED" /\ ReplyAndForce
          \/ flag = "OK" /\ ReplyAndClose("OK")
      <4>1. Head(down[epoch]) = flag
        BY <3>1
      <4>2. CASE DSendAnswered
        BY <3>1, <4>1, <4>2 DEF DSendAnswered
      <4>3. CASE DAwait
        BY <2>1, <4>1, <4>3 DEF DAwait
      <4> QED
        BY <1>5, <4>2, <4>3
    <3>3. pc' \notin Sending
      BY <3>2 DEF ReplyAndClose, ReplyAndForce, CatchForced, CloseClient, Sending
    <3>4. \A c \in Clients : inbox'[c] = "ERR" =>
            inbox[c] = "ERR" \/ (c = cur /\ flag # "OK")
      BY <3>2 DEF ReplyAndClose, ReplyAndForce, Typed, TypeOK, TypeClients
    <3>5. flag # "OK" => Deniable(cur)
      BY <1>2, <2>0, <3>1, <3>2 DEF Denials
    <3> QED
      BY <1>1, <3>3, <3>4, <3>5 DEF Denials
  <2>2. CASE down[epoch] = <<>>
    <3>1. UNCHANGED inbox /\ pc' = "connect"
      BY <1>5, <2>2 DEF DSendAnswered, DAwait, CatchClosed
    <3> QED
      BY <1>1, <3>1 DEF Denials, Sending
  <2> QED
    BY <2>1, <2>2
<1>6. CASE DConnect \/ DAuthenticate \/ DSendInterrupted \/ DConnectFails
  <2>1. UNCHANGED inbox /\ pc' \notin Sending
    BY <1>6
       DEF DConnect, DAuthenticate, DSendInterrupted, DConnectFails, CatchClosed,
           CatchForced, Sending
  <2> QED
    BY <1>1, <2>1 DEF Denials
<1> QED
  BY <1>3, <1>4, <1>5, <1>6, SourceIsThere DEF Daemon

LEMMA NextDenials ==
  ASSUME Regular, Steady
  PROVE  Sure /\ Denials /\ Typed' /\ [Next]_vars => Denials'
<1> SUFFICES ASSUME Sure, Denials, Typed', [Next]_vars PROVE Denials'
  OBVIOUS
<1> USE DEF Sure, Aligning
<1>1. \A c \in Clients : Deniable(c) => Deniable(c)'
  BY DeniableStays
<1>2. pc \in Sending => hdr.req \in Clients
  BY DEF Whole, OneRequest, Holding, Loaded, Sending
<1>3. CASE UNCHANGED vars \/ Quiet
  BY <1>1, <1>2, <1>3 DEF Quiet, vars, netVars, attrVars, Denials
<1>4. ASSUME NEW c \in Clients,
             ClientConnect(c) \/ ClientSend(c) \/ ClientReceive(c)
               \/ ClientEof(c) \/ ClientInterrupt(c)
      PROVE  Denials'
  BY <1>1, <1>2, <1>4
     DEF ClientConnect, ClientSend, ClientReceive, ClientEof, ClientInterrupt,
         othersThanClient, netVars, attrVars, Denials
<1>5. CASE CrashServer
  BY <1>1, <1>2, <1>5
     DEF CrashServer, ServerEnds, daemonSide, attrVars, Denials
<1>6. ASSUME NEW e \in Epochs, SrvThread(e) \/ SrvEnding(e) \/ Break(e)
      PROVE  Denials'
  <2>1. UNCHANGED daemonSide
    BY <1>6, ServerApart
  <2>2. UNCHANGED <<inbox, pc, hdr, epoch>>
    BY <2>1 DEF daemonSide, attrVars
  <2>3. pc \in Sending /\ down'[epoch] \in {<<"ERR">>, <<"FORCED">>} =>
          Deniable(hdr.req)
    BY <1>6, DenialTrue DEF Denials
  <2> QED
    BY <1>1, <1>2, <2>2, <2>3 DEF Denials
<1> QED
  BY <1>3, <1>4, <1>5, <1>6, DaemonDenials DEF Next

LEMMA AlwaysDenials ==
  ASSUME Regular, Steady
  PROVE  Spec => []Denials
<1>1. Init => Denials
  BY DEF Init, Denials, Sending
<1>2. Sure /\ Sure' /\ Denials /\ [Next]_vars => Denials'
  BY NextDenials DEF Sure
<1> QED
  BY <1>1, <1>2, AlwaysSure, PTL DEF Spec

-----------------------------------------------------------------------------
(***************************************************************************)
(* The service as its users see it                                         *)
(***************************************************************************)
\* A thread carries out one request at a time, and one that was made.
LEMMA Delivers ==
  ASSUME Sure, NEW e \in Epochs, SrvThread(e) \/ SrvEnding(e),
         delivered' # delivered
  PROVE  \E c \in Clients : /\ delivered' = delivered \cup {c}
                            /\ sent[c] = RequestSent /\ ~Deniable(c)
<1> USE DEF Sure, Aligning
<1>1. (SrvMkdir(e) /\ st[e] = "open") \/ (SrvAck(e) /\ st[e] = "ack")
  <2>1. SrvMkdir(e) \/ SrvAck(e)
    BY DEF SrvThread, SrvAuth, SrvHeader, SrvDiscard, SrvPath, SrvOpen,
           SrvRefuse, SrvData, SrvExit, SrvEnding, SrvWriteFails, SrvEof,
           SrvSigpipe, SrvHeaderReset, SrvDiscardReset, SrvPathReset,
           SrvDataReset, DataReset, ServerEnds, diskVars
  <2> QED
    BY <2>1 DEF SrvMkdir, SrvAck
<1>2. AtWork(e)
  BY <1>1 DEF AtWork
<1>3. PICK req \in Headers, at \in Nat \ {0} : Proper(req) /\ Serving(e, req, at)
  BY <1>2, WhatIsServed
<1>4. /\ h[e] = req /\ path[e] = Dest(e) /\ path[e] \notin BadPaths
      /\ req.req \in Clients /\ sent[req.req] = RequestSent
      /\ req.cmd = job[req.req].kind
  BY <1>1, <1>3 DEF Serving, Proper
<1>5. path[e] = job[req.req].dest
  BY <1>4, TransferAssumption DEF Dest, TransferAssumption
<1>6. delivered' = delivered \cup {req.req}
  BY <1>1, <1>4 DEF SrvMkdir, SrvAck
<1>7. ~Deniable(req.req)
  <2>1. CASE SrvMkdir(e)
    BY <1>4, <1>5, <2>1 DEF SrvMkdir, Deniable
  <2>2. CASE SrvAck(e)
    BY <1>4, <1>5, <2>2 DEF SrvAck, Deniable
  <2> QED
    BY <1>1, <2>1, <2>2
<1> QED
  BY <1>4, <1>6, <1>7

\* The hypotheses of the two runs that check the refinement.
Served == NothingBreaks \/ (Steady /\ MaxBreaks > 0)

asked == {c \in Clients : sent[c] = RequestSent}
done  == delivered \ {None}

LEMMA CommandServed ==
  ASSUME Served, Sure, NothingBreaks => Refusals, NEW c \in Clients,
         ClientConnect(c) \/ ClientSend(c) \/ ClientReceive(c) \/ ClientEof(c)
           \/ ClientInterrupt(c)
  PROVE  Service!Next \/ UNCHANGED Service!vars
<1> USE DEF Sure, Aligning, Typed, TypeOK, TypeClients
<1>1. UNCHANGED delivered
  BY DEF ClientConnect, ClientSend, ClientReceive, ClientEof, ClientInterrupt,
         othersThanClient, diskVars
<1>2. CASE ClientConnect(c) \/ (ClientSend(c) /\ sent'[c] # RequestSent)
  <2>1. UNCHANGED result /\ \A d \in Clients : sent[d] = RequestSent <=> sent'[d] = RequestSent
    BY <1>2 DEF ClientConnect, ClientSend, Connected, SourceSent, RequestSent
  <2>2. UNCHANGED asked
    BY <2>1 DEF asked
  <2> QED
    BY <1>1, <2>1, <2>2 DEF Service!vars, asked
<1>3. CASE ClientSend(c) /\ sent'[c] = RequestSent
  <2>1. /\ UNCHANGED result /\ sent[c] # RequestSent
        /\ \A d \in Clients : d # c => sent'[d] = sent[d]
    BY <1>3 DEF ClientSend, Connected, SourceSent, RequestSent
  <2>2. c \notin asked /\ asked' = asked \cup {c}
    BY <1>3, <2>1 DEF asked
  <2>3. Service!Ask(c)
    BY <1>1, <2>1, <2>2 DEF Service!Ask, asked
  <2> QED
    BY <2>3 DEF Service!Next
<1>4. CASE ClientReceive(c) \/ ClientEof(c) \/ ClientInterrupt(c)
  <2>1. UNCHANGED sent
    BY <1>4 DEF ClientReceive, ClientEof, ClientInterrupt
  <2>2. \A reply : result[c] = "none" /\ result' = [result EXCEPT ![c] = reply]
                     => Service!Tell(c, reply)
    BY <1>1, <2>1 DEF Service!Tell
  <2>3. CASE ClientReceive(c)
    <3>1. CASE inbox[c] = "OK"
      <4>1. c \in delivered \ {None}
        BY <3>1, TransferAssumption DEF Told, TransferAssumption
      <4> QED
        BY <2>2, <2>3, <3>1, <4>1 DEF ClientReceive, Service!Confirm, Service!Next
    <3>2. CASE inbox[c] = "ERR"
      <4>1. c \notin delivered \ {None} \/ MaxBreaks > 0
        BY <3>2 DEF Refusals, Served
      <4> QED
        BY <2>2, <2>3, <3>2, <4>1 DEF ClientReceive, Service!Deny, Service!Next
    <3> QED
      BY <2>3, <3>1, <3>2 DEF ClientReceive
  <2>4. CASE ClientEof(c) \/ ClientInterrupt(c)
    BY <2>2, <2>4 DEF ClientEof, ClientInterrupt, Service!GiveUp, Service!Next
  <2> QED
    BY <1>4, <2>3, <2>4
<1> QED
  BY <1>2, <1>3, <1>4

LEMMA ServerServed ==
  ASSUME Served, Sure, Served /\ ~NothingBreaks => Denials,
         NEW e \in Epochs, SrvThread(e) \/ SrvEnding(e), delivered' # delivered
  PROVE  Service!Next
<1> USE DEF Sure, Aligning
<1>1. PICK c \in Clients : /\ delivered' = delivered \cup {c}
                           /\ sent[c] = RequestSent /\ ~Deniable(c)
  BY Delivers
<1>2. UNCHANGED <<sent, result>>
  BY ServerApart DEF daemonSide, clientVars
<1>3. result[c] # "ERR"
  <2>1. CASE NothingBreaks
    <3>1. cur \in Clients /\ delivered' = delivered \cup {cur} /\ pc \in Sending
      BY <2>1, CarriesOut
    <3>2. c = cur
      BY <1>1, <3>1
    <3>3. cur \notin closed
      BY <2>1, <3>1 DEF Unbroken, Sending
    <3> QED
      BY <2>1, <3>1, <3>2, <3>3 DEF Unbroken
  <2>2. CASE ~NothingBreaks
    BY <1>1, <2>2 DEF Denials, Told
  <2> QED
    BY <2>1, <2>2
<1>4. c # None /\ c \in asked \ done /\ done' = done \cup {c}
  BY <1>1, TransferAssumption DEF TransferAssumption, asked, done
<1>5. Service!CarryOut(c)
  BY <1>2, <1>3, <1>4 DEF Service!CarryOut, asked, done
<1> QED
  BY <1>5 DEF Service!Next

\* What a command is told, and when, is as CopyService has it: a request is
\* carried out only after it was made completely and never after it was
\* denied, OK is said only of what was carried out, and nobody is told twice.
THEOREM CopyServiceImplemented ==
  ASSUME Regular, Served
  PROVE  Spec => ImplementsCopyService
<1>1. Init => Service!Init
  BY DEF Init, Service!Init, RequestSent
<1>2. /\ Sure /\ (NothingBreaks => Refusals) /\ (Served /\ ~NothingBreaks => Denials)
      /\ [Next]_vars
      => [Service!Next]_(Service!vars)
  <2> SUFFICES ASSUME Sure, NothingBreaks => Refusals,
                      Served /\ ~NothingBreaks => Denials, [Next]_vars
               PROVE  Service!Next \/ UNCHANGED Service!vars
    OBVIOUS
  <2>1. CASE UNCHANGED <<sent, delivered, result>>
    BY <2>1 DEF Service!vars
  <2>2. ASSUME NEW c \in Clients,
               ClientConnect(c) \/ ClientSend(c) \/ ClientReceive(c)
                 \/ ClientEof(c) \/ ClientInterrupt(c)
        PROVE  Service!Next \/ UNCHANGED Service!vars
    BY <2>2, CommandServed
  <2>3. CASE UNCHANGED vars \/ Quiet \/ CrashServer \/ Daemon \/ DConnectFails
    <3>1. UNCHANGED <<sent, delivered, result>>
      BY <2>3
         DEF vars, clientVars, diskVars, Quiet, CrashServer, ServerEnds,
             daemonSide, Daemon, DAccept, DResend, DLoadAttrs, DLoadSource,
             DLoadDest, DStat, DOpenFails, DSendHeader, DSendPath, DSendData,
             DSendDead, DSendAnswered, DSendInterrupted, DReadError, DAwait,
             DConnect, DAuthenticate, DConnectFails, serverSide
    <3> QED
      BY <2>1, <3>1
  <2>4. ASSUME NEW e \in Epochs, SrvThread(e) \/ SrvEnding(e) \/ Break(e)
        PROVE  Service!Next \/ UNCHANGED Service!vars
    <3>1. UNCHANGED <<sent, result>>
      BY <2>4, ServerApart DEF daemonSide, clientVars
    <3>2. CASE delivered' = delivered
      BY <2>1, <3>1, <3>2
    <3>3. CASE delivered' # delivered
      <4>1. ~Break(e)
        BY <3>3 DEF Break, diskVars
      <4> QED
        BY <2>4, <3>3, <4>1, ServerServed
    <3> QED
      BY <3>2, <3>3
  <2> QED
    BY <2>2, <2>3, <2>4 DEF Next
<1>3. CASE NothingBreaks
  <2>1. Sure /\ Refusals /\ [Next]_vars => [Service!Next]_(Service!vars)
    BY <1>2, <1>3
  <2>2. Spec => []Refusals
    BY <1>3, AlwaysRefusals
  <2> QED
    BY <1>1, <2>1, <2>2, AlwaysSure, PTL DEF Spec, ImplementsCopyService, Service!Spec
<1>4. CASE ~NothingBreaks
  <2>1. Sure /\ Denials /\ [Next]_vars => [Service!Next]_(Service!vars)
    BY <1>2, <1>4
  <2>2. Spec => []Denials
    BY <1>4, AlwaysDenials DEF Served
  <2> QED
    BY <1>1, <2>1, <2>2, AlwaysSure, PTL DEF Spec, ImplementsCopyService, Service!Spec
<1> QED
  BY <1>3, <1>4

-----------------------------------------------------------------------------
(***************************************************************************)
(* Where nothing breaks and the disk works: what is in the files           *)
(***************************************************************************)
Bytes(c, n) == [k \in 1..n |-> ByteUnit(c, k)]

\* The file a thread writes holds what is written so far, but for what stdio
\* keeps: the last chunk, if it is a short one.
Copying(e) ==
  st[e] \in {"write", "ack"} =>
    \E n, m \in Nat :
      /\ pos[e] = n + m /\ Len(buf[e]) = m
      /\ files[path[e]] = File(Bytes(h[e].req, n))
      /\ buf[e] = [k \in 1..m |-> ByteUnit(h[e].req, n + k)]
      /\ st[e] = "write" => m = 0
      /\ st[e] = "ack" => pos[e] = h[e].len

Kept == \A c \in delivered : OnlyWriter(c) => files[job[c].dest] = Complete(c)

Copies == (\A e \in Epochs : Copying(e)) /\ Kept

\* Writing at the end of what is there.
LEMMA WriteAtEnd ==
  ASSUME NEW c, NEW n \in Nat, NEW m \in Nat
  PROVE  WriteAt(Bytes(c, n), n, [k \in 1..m |-> ByteUnit(c, n + k)])
           = Bytes(c, n + m)
<1> DEFINE old == Bytes(c, n)
           units == [k \in 1..m |-> ByteUnit(c, n + k)]
<1>1. Len(old) = n /\ Len(units) = m
  BY DEF Bytes
<1>2. \A k \in 1..n : old[k] = ByteUnit(c, k)
  BY DEF Bytes
<1>3. \A k \in (n + 1)..(n + m) : k - n \in 1..m /\ n + (k - n) = k
  OBVIOUS
<1>4. \A k \in (n + 1)..(n + m) : units[k - n] = ByteUnit(c, k)
  BY <1>3
<1> HIDE DEF old, units
<1>5. (IF Len(old) > n + Len(units) THEN Len(old) ELSE n + Len(units)) = n + m
  BY <1>1
<1>6. WriteAt(old, n, units)
        = [k \in 1..(n + m) |-> IF k \in (n + 1)..(n + m) THEN units[k - n]
                                ELSE IF k <= n THEN old[k] ELSE Hole]
  BY <1>1, <1>5 DEF WriteAt
<1>7. \A k \in 1..(n + m) :
        (IF k \in (n + 1)..(n + m) THEN units[k - n]
         ELSE IF k <= n THEN old[k] ELSE Hole) = ByteUnit(c, k)
  <2> SUFFICES ASSUME NEW k \in 1..(n + m)
               PROVE  (IF k \in (n + 1)..(n + m) THEN units[k - n]
                       ELSE IF k <= n THEN old[k] ELSE Hole) = ByteUnit(c, k)
    OBVIOUS
  <2>1. CASE k \in (n + 1)..(n + m)
    BY <1>4, <2>1
  <2>2. CASE k \notin (n + 1)..(n + m)
    <3>1. k \in 1..n /\ k <= n
      BY <2>2
    <3> QED
      BY <1>2, <2>2, <3>1
  <2> QED
    BY <2>1, <2>2
<1>8. WriteAt(old, n, units) = [k \in 1..(n + m) |-> ByteUnit(c, k)]
  BY <1>6, <1>7
<1> QED
  BY <1>8 DEF Bytes, old, units

LEMMA StoredAtEnd ==
  ASSUME Typed, NEW e \in Epochs, NEW c, NEW n \in Nat, NEW m \in Nat,
         files[path[e]] = File(Bytes(c, n)),
         Store(e, n, [k \in 1..m |-> ByteUnit(c, n + k)])
  PROVE  /\ files'[path[e]] = File(Bytes(c, n + m))
         /\ \A d \in Paths \cup {Junk} : d # path[e] => files'[d] = files[d]
<1> DEFINE units == [k \in 1..m |-> ByteUnit(c, n + k)]
<1>1. files \in [Paths \cup {Junk} -> FileStates] /\ path[e] \in Paths \cup {Junk}
  BY DEF Typed, TypeOK, TypeDisk, TypeThreads
<1>2. files[path[e]].kind = "file" /\ files[path[e]].bytes = Bytes(c, n)
  BY DEF File
<1>3. files' = [files EXCEPT ![path[e]].bytes = WriteAt(@, n, units)]
  BY <1>2 DEF Store
<1>4. \A d \in Paths \cup {Junk} : d # path[e] => files'[d] = files[d]
  BY <1>1, <1>3
<1>5. files'[path[e]] = [files[path[e]] EXCEPT !.bytes = WriteAt(@, n, units)]
  BY <1>1, <1>3
<1>6. WriteAt(Bytes(c, n), n, units) = Bytes(c, n + m)
  BY WriteAtEnd
<1>7. files'[path[e]] = [File(Bytes(c, n)) EXCEPT !.bytes = Bytes(c, n + m)]
  BY <1>2, <1>5, <1>6
<1> QED
  BY <1>4, <1>7 DEF File

\* Only the file of the current client changes: nobody else's copy is lost.
LEMMA OthersKept ==
  ASSUME Sure, Refusals, Onwards, Kept, cur \in Clients, cur \notin delivered,
         \A d \in Paths \cup {Junk} : d # job[cur].dest => files'[d] = files[d],
         \/ delivered' = delivered
         \/ /\ delivered' = delivered \cup {cur}
            /\ files'[job[cur].dest] = Complete(cur)
  PROVE  Kept'
<1> SUFFICES ASSUME NEW c \in delivered', OnlyWriter(c)
             PROVE  files'[job[c].dest] = Complete(c)
  BY DEF Kept, Onwards, OnlyWriter, Complete
<1>1. CASE c = cur
  BY <1>1
<1>2. CASE c # cur
  <2>1. c \in delivered /\ c \in Clients
    BY <1>2 DEF Refusals
  <2>2. job[cur].dest # job[c].dest
    BY <1>2 DEF OnlyWriter
  <2>3. job[c].dest \in Paths
    BY <2>1, TransferAssumption
       DEF TransferAssumption, Sure, Typed, TypeOK, TypeClients
  <2> QED
    BY <2>1, <2>2, <2>3 DEF Kept
<1> QED
  BY <1>1, <1>2

\* Where the chunk in the buffer begins and ends.
LEMMA ChunkBounds ==
  ASSUME NEW at \in Nat, NEW p \in Nat, NEW g \in Nat, NEW r \in Nat,
         at + p + g = r
  PROVE  /\ at + p \in Nat /\ g + 1 \in Nat
         /\ r - g = at + p /\ r + 1 = (at + p) + (g + 1)
OBVIOUS

LEMMA InChunk ==
  ASSUME NEW at \in Nat, at > 0, NEW p \in Nat, NEW n \in Nat, NEW len \in Nat,
         (at + p) + n <= len
  PROVE  \A k \in 1..n : /\ (at + p) + k \in 1..len /\ (at + p) + k > at
                         /\ ((at + p) + k) - at = p + k
OBVIOUS

\* What a thread of the open pair writes are the bytes of the current client.
LEMMA Incoming ==
  ASSUME Sure, NEW e \in Epochs, st[e] = "write", Unread(e)
  PROVE  SubSeq(data[e], rd[e] - got[e] + 1, rd[e] + 1)
           = [k \in 1..(got[e] + 1) |-> ByteUnit(h[e].req, pos[e] + k)]
<1>1. AtWork(e)
  BY DEF AtWork
<1>2. PICK req \in Headers, at \in Nat \ {0} :
         Serving(e, req, at) /\ Layout(e, req, at)
  BY <1>1, WhatIsServed
<1>3. h[e] = req /\ at + pos[e] + got[e] = rd[e]
  BY <1>2 DEF Serving
<1>4. rd[e] \in Nat /\ pos[e] \in Nat /\ got[e] \in Nat /\ at \in Nat
  BY PairTypes DEF Sure
<1>5. PICK m \in Nat, n \in Nat :
         /\ m = at + pos[e] /\ n = got[e] + 1
         /\ rd[e] - got[e] = m /\ rd[e] + 1 = m + n
  BY <1>3, <1>4, ChunkBounds
<1>6. data[e] \in Seq(Units) /\ m + n <= Len(data[e]) /\ Len(data[e]) \in Nat
  <2>1. data[e] \in Seq(Units) /\ rd[e] + 1 <= Len(data[e])
    BY PairTypes DEF Sure, Unread
  <2>2. Len(data[e]) \in Nat
    BY <2>1
  <2> QED
    BY <1>5, <2>1, <2>2
<1>7. SubSeq(data[e], m + 1, m + n) = [k \in 1..n |-> data[e][m + k]]
  BY <1>6, Slice
<1>8. \A k \in 1..n : data[e][m + k] = ByteUnit(req.req, pos[e] + k)
  <2>1. PICK len \in Nat : len = Len(data[e]) /\ m + n <= len
    BY <1>6
  <2>2. PICK p \in Nat : p = pos[e] /\ m = at + p
    BY <1>4, <1>5
  <2>3. \A k \in 1..n : m + k \in 1..len /\ m + k > at /\ (m + k) - at = p + k
    <3>1. at \in Nat /\ at > 0
      OBVIOUS
    <3>2. (at + p) + n <= len
      BY <2>1, <2>2
    <3>3. \A k \in 1..n : /\ (at + p) + k \in 1..len /\ (at + p) + k > at
                           /\ ((at + p) + k) - at = p + k
      BY ONLY <3>1, <3>2, p \in Nat, n \in Nat, len \in Nat, InChunk
    <3> QED
      BY <2>2, <3>3, Zenon
  <2>4. \A k \in 1..n : data[e][m + k] = ByteUnit(req.req, (m + k) - at)
    BY <1>2, <2>1, <2>3, Zenon DEF Layout
  <2> QED
    BY <2>2, <2>3, <2>4, Zenon
<1> QED
  BY <1>3, <1>5, <1>7, <1>8

LEMMA WritingStays ==
  ASSUME Sure, Refusals, NothingBreaks, NEW e \in Epochs,
         st[e] \in {"open", "write", "ack"}
  PROVE  /\ e = epoch /\ link[e] = "up" /\ down[e] = <<>> /\ pc \in Sending
         /\ h[e] = hdr /\ hdr.req = cur /\ cur \in Clients /\ cur \notin delivered
         /\ path[e] = job[cur].dest /\ job[cur].dest \in Paths
         /\ job[cur].kind = "file" /\ hdr.cmd = "file"
         /\ hdr.len = job[cur].size
<1> USE DEF Sure, Aligning
<1>1. e = epoch /\ link[epoch] = "up"
  BY Living
<1>2. pc \in Sending /\ Behind /\ h[e] = hdr /\ hdr.req = cur /\ cur \in Clients
  BY <1>1, WorksForCurrent
<1>3. Proper(hdr) /\ path[e] = Dest(e)
  BY <1>1, <1>2 DEF Counts, InHand, Sending, Behind, Serving
<1>4. job[cur] \in Jobs
  BY <1>2 DEF Typed, TypeOK, TypeClients
<1>5. down[epoch] = <<>> /\ cur \notin delivered
  <2>1. <<>> # <<"OK">>
    OBVIOUS
  <2> QED
    BY <1>2, <2>1 DEF Behind, Refusals, Sending
<1> QED
  BY <1>1, <1>2, <1>3, <1>4, <1>5, TransferAssumption
     DEF Dest, Proper, NothingBreaks, TransferAssumption

LEMMA OpenCopies ==
  ASSUME Sure, Refusals, Copies, Onwards, NothingBreaks, NEW e \in Epochs, SrvOpen(e)
  PROVE  Copying(e)' /\ Kept'
<1>1. /\ h[e] = hdr /\ hdr.req = cur /\ cur \in Clients /\ cur \notin delivered
      /\ path[e] = job[cur].dest /\ job[cur].dest \in Paths
  BY WritingStays DEF SrvOpen
<1>2. /\ files'[path[e]] = File(<<>>)
      /\ \A d \in Paths \cup {Junk} : d # path[e] => files'[d] = files[d]
  BY <1>1 DEF SrvOpen, Sure, Typed, TypeOK, TypeDisk
<1>3. Kept'
  BY <1>1, <1>2, OthersKept DEF SrvOpen, Copies
<1>4. Copying(e)'
  <2>1. /\ pos'[e] = 0 /\ buf'[e] = <<>> /\ h'[e] = h[e] /\ path'[e] = path[e]
        /\ st'[e] = IF h[e].len = 0 THEN "ack" ELSE "write"
    <3>1. h[e].len \in Nat /\ (MoreChunks(h[e].len, 0) <=> h[e].len > 0)
      BY PairTypes, NoChunks DEF Sure
    <3> QED
      BY <3>1 DEF SrvOpen, FirstState, Sure, Typed, TypeOK, TypeThreads
  <2>2. Bytes(h[e].req, 0) = <<>> /\ [k \in 1..0 |-> ByteUnit(h[e].req, 0 + k)] = <<>>
    BY DEF Bytes
  <2>3. Len(<<>>) = 0 /\ 0 = 0 + 0
    OBVIOUS
  <2>4. st'[e] = "ack" => pos'[e] = h'[e].len
    BY <2>1
  <2>5. /\ pos'[e] = 0 + 0 /\ Len(buf'[e]) = 0
        /\ files'[path'[e]] = File(Bytes(h'[e].req, 0))
        /\ buf'[e] = [k \in 1..0 |-> ByteUnit(h'[e].req, 0 + k)]
    BY <1>2, <2>1, <2>2, <2>3
  <2>6. \E n, m \in Nat :
          /\ pos'[e] = n + m /\ Len(buf'[e]) = m
          /\ files'[path'[e]] = File(Bytes(h'[e].req, n))
          /\ buf'[e] = [k \in 1..m |-> ByteUnit(h'[e].req, n + k)]
          /\ st'[e] = "write" => m = 0
          /\ st'[e] = "ack" => pos'[e] = h'[e].len
    <3>1. 0 \in Nat
      OBVIOUS
    <3> QED
      BY <2>4, <2>5, <3>1, Zenon
  <2> QED
    BY <2>6 DEF Copying
<1> QED
  BY <1>3, <1>4

LEMMA DataCopies ==
  ASSUME Sure, Refusals, Copies, Onwards, NothingBreaks, NEW e \in Epochs, SrvData(e)
  PROVE  Copying(e)' /\ Kept'
<1>1. /\ h[e] = hdr /\ hdr.req = cur /\ cur \in Clients /\ cur \notin delivered
      /\ path[e] = job[cur].dest /\ job[cur].dest \in Paths
  BY WritingStays DEF SrvData
<1>2. st[e] = "write" /\ UNCHANGED <<h, path, delivered>>
  BY DEF SrvData
<1>3. /\ buf[e] = <<>> /\ files[path[e]] = File(Bytes(h[e].req, pos[e]))
      /\ pos[e] \in Nat /\ got[e] \in Nat
  <2>1. PICK n, m \in Nat :
          /\ pos[e] = n + m /\ Len(buf[e]) = m
          /\ files[path[e]] = File(Bytes(h[e].req, n))
          /\ m = 0
    BY <1>2 DEF Copies, Copying
  <2>2. pos[e] = n /\ Len(buf[e]) = 0
    BY <2>1
  <2>3. buf[e] = <<>>
    BY <2>2 DEF Sure, Typed, TypeOK, TypeThreads
  <2> QED
    BY <2>1, <2>2, <2>3, PairTypes DEF Sure
<1>4. CASE got[e] + 1 < WriteLen(e)
  <2>1. UNCHANGED <<files, pos, buf, st>>
    BY <1>4 DEF SrvData
  <2>2. UNCHANGED <<files[path[e]], st[e], pos[e], buf[e], h[e], path[e]>>
    BY <1>2, <2>1
  <2>3. Copying(e)
    BY DEF Copies
  <2>4. Copying(e)'
    BY <1>2, <2>1, <2>3 DEF Copying
  <2>5. Kept'
    BY <1>2, <2>1 DEF Copies, Kept, Onwards, OnlyWriter, Complete
  <2> QED
    BY <2>4, <2>5
<1>5. CASE ~(got[e] + 1 < WriteLen(e))
  <2> DEFINE m == got[e] + 1
             units == [k \in 1..m |-> ByteUnit(h[e].req, pos[e] + k)]
  <2>1. m \in Nat /\ Len(units) = m
    BY <1>3
  <2>2. WriteChunk(e, units)
    <3>1. Unread(e)
      BY DEF SrvData
    <3>2. units = SubSeq(data[e], rd[e] - got[e] + 1, rd[e] + 1)
      BY <1>2, <3>1, Incoming
    <3> QED
      BY <1>5, <3>2 DEF SrvData
  <2>3. m = WriteLen(e)
    <3>1. got[e] < WriteLen(e) /\ WriteLen(e) \in Int
      BY <1>2, ThreadChunk DEF Sure
    <3> QED
      BY <1>3, <1>5, <3>1
  <2> HIDE DEF units
  <2>4. /\ pos'[e] = pos[e] + m
        /\ st'[e] = IF pos[e] + m = h[e].len THEN "ack" ELSE "write"
    <3>1. MoreChunks(h[e].len, pos[e] + m) <=> pos[e] + m # h[e].len
      BY <1>2, <2>3, ThreadChunk DEF Sure
    <3> QED
      BY <2>1, <2>2, <3>1 DEF WriteChunk, Sure, Typed, TypeOK, TypeThreads
  <2>5. CASE m = BUFFERSIZE
    <3>1. Store(e, pos[e], units) /\ UNCHANGED buf
      BY <2>1, <2>2, <2>5 DEF WriteChunk
    <3>2. /\ files'[path[e]] = File(Bytes(h[e].req, pos[e] + m))
          /\ \A d \in Paths \cup {Junk} : d # path[e] => files'[d] = files[d]
      BY <1>3, <2>1, <3>1, StoredAtEnd DEF Sure, units
    <3>3. Kept'
      BY <1>1, <1>2, <3>2, OthersKept DEF Copies
    <3>4. Copying(e)'
      <4>1. PICK p \in Nat : p = pos[e] + m
        BY <1>3, <2>1
      <4>2. /\ pos'[e] = p + 0 /\ Len(buf'[e]) = 0
            /\ files'[path'[e]] = File(Bytes(h'[e].req, p))
            /\ st'[e] = "ack" => pos'[e] = h'[e].len
        BY <1>2, <1>3, <2>4, <3>1, <3>2, <4>1
      <4>3. buf'[e] = [k \in 1..0 |-> ByteUnit(h'[e].req, p + k)]
        BY <1>3, <3>1
      <4> QED
        BY <4>1, <4>2, <4>3 DEF Copying
    <3> QED
      BY <3>3, <3>4
  <2>6. CASE m # BUFFERSIZE
    <3>1. UNCHANGED files /\ buf' = [buf EXCEPT ![e] = units]
      BY <2>1, <2>2, <2>6 DEF WriteChunk
    <3>2. buf'[e] = units
      BY <3>1 DEF Sure, Typed, TypeOK, TypeThreads
    <3>3. st'[e] = "ack" /\ pos'[e] = h'[e].len
      <4>2. pos[e] + m = h[e].len
        BY <1>2, <2>3, <2>6, ThreadChunk DEF Sure
      <4> QED
        BY <1>2, <2>4, <4>2
    <3>4. Copying(e)'
      <4>1. /\ pos'[e] = pos[e] + m /\ Len(buf'[e]) = m
            /\ files'[path'[e]] = File(Bytes(h'[e].req, pos[e]))
            /\ buf'[e] = [k \in 1..m |-> ByteUnit(h'[e].req, pos[e] + k)]
        BY <1>2, <1>3, <2>1, <2>4, <3>1, <3>2 DEF units
      <4>2. PICK p \in Nat, q \in Nat : p = pos[e] /\ q = m
        BY <1>3, <2>1
      <4> QED
        BY <3>3, <4>1, <4>2 DEF Copying
    <3> QED
      BY <1>2, <3>1, <3>4 DEF Copies, Kept, Onwards, OnlyWriter, Complete
  <2> QED
    BY <2>5, <2>6
<1> QED
  BY <1>4, <1>5

LEMMA AckCopies ==
  ASSUME Sure, Refusals, Copies, Onwards, NothingBreaks, ~DiskErrors,
         NEW e \in Epochs, SrvAck(e)
  PROVE  Copying(e)' /\ Kept'
<1>1. /\ h[e] = hdr /\ hdr.req = cur /\ cur \in Clients /\ cur \notin delivered
      /\ path[e] = job[cur].dest /\ job[cur].dest \in Paths /\ link[e] = "up"
      /\ hdr.len = job[cur].size
  BY WritingStays DEF SrvAck
<1>2. PICK n, m \in Nat :
        /\ pos[e] = n + m /\ Len(buf[e]) = m
        /\ files[path[e]] = File(Bytes(cur, n))
        /\ buf[e] = [k \in 1..m |-> ByteUnit(cur, n + k)]
        /\ pos[e] = h[e].len
  BY <1>1 DEF SrvAck, Copies, Copying
<1>3. /\ files'[path[e]] = File(Bytes(cur, n + m))
      /\ \A d \in Paths \cup {Junk} : d # path[e] => files'[d] = files[d]
  <2>1. Flush(e)
    BY DEF SrvAck
  <2>2. CASE buf[e] = <<>>
    <3>1. UNCHANGED files /\ m = 0
      BY <1>2, <2>1, <2>2 DEF Flush
    <3>2. n + m = n
      BY <3>1
    <3> QED
      BY <1>2, <3>1, <3>2
  <2>3. CASE buf[e] # <<>>
    <3>1. Store(e, pos[e] - Len(buf[e]), buf[e])
      BY <2>1, <2>3 DEF Flush
    <3>2. pos[e] - Len(buf[e]) = n
      BY <1>2
    <3>3. Store(e, n, [k \in 1..m |-> ByteUnit(cur, n + k)])
      <4>1. Store(e, n, buf[e])
        BY <3>1, <3>2
      <4> QED
        BY <1>2, <4>1
    <3> QED
      BY <1>2, <3>3, StoredAtEnd DEF Sure
  <2> QED
    BY <2>2, <2>3
<1>4. files'[job[cur].dest] = Complete(cur)
  <2>1. n + m = job[cur].size
    BY <1>1, <1>2
  <2> QED
    BY <1>1, <1>3, <2>1 DEF Complete, Bytes
<1>5. delivered' = delivered \/ delivered' = delivered \cup {cur}
  BY <1>1 DEF SrvAck
<1>6. Kept'
  BY <1>1, <1>3, <1>4, <1>5, OthersKept DEF Copies
<1>7. st'[e] = "hdr"
  BY <1>1 DEF SrvAck, Send, Sure, Typed, TypeOK, TypeThreads
<1> QED
  BY <1>6, <1>7 DEF Copying

LEMMA ServerCopies ==
  ASSUME Sure, Refusals, Copies, Onwards, NothingBreaks, ~DiskErrors,
         NEW e \in Epochs, SrvThread(e) \/ SrvEnding(e)
  PROVE  Copies'
<1> USE DEF Sure, Aligning
<1>1. ~SrvSigpipe(e) /\ ~SrvDataReset(e) /\ ~SrvHeaderReset(e)
      /\ ~SrvDiscardReset(e) /\ ~SrvPathReset(e) /\ ~SrvWriteFails(e)
  BY DEF SrvSigpipe, SrvDataReset, SrvHeaderReset, SrvDiscardReset, SrvPathReset,
         SrvWriteFails, DataReset, Unopened
<1>2. ~SrvMkdir(e)
  BY WritingStays DEF SrvMkdir
<1>3. st[e] \notin {"none", "dead"}
  BY <1>1 DEF SrvThread, SrvAuth, SrvHeader, SrvDiscard, SrvPath, SrvOpen, SrvMkdir,
              SrvRefuse, Refused, SrvData, SrvAck, SrvExit, SrvEnding, SrvEof, WantsMore
<1>4. ASSUME NEW d \in Epochs, d # e PROVE PairStays(d)
  BY <1>1, <1>4, PairApart
<1>5. CASE SrvOpen(e) \/ SrvData(e) \/ SrvAck(e)
  <2>1. Copying(e)' /\ Kept'
    BY <1>5, OpenCopies, DataCopies, AckCopies
  <2>2. e = epoch
    BY <1>5, WritingStays DEF SrvOpen, SrvData, SrvAck
  <2>3. ASSUME NEW d \in Epochs, d # e PROVE Copying(d)'
    <3>1. st[d] \notin {"write", "ack"}
      BY <2>2, <2>3, Living
    <3> QED
      BY <1>4, <2>3, <3>1 DEF Copying, PairStays, ThreadStays
  <2> QED
    BY <2>1, <2>3 DEF Copies
<1>6. CASE \/ SrvAuth(e) \/ SrvHeader(e) \/ SrvDiscard(e) \/ SrvPath(e)
           \/ SrvRefuse(e) \/ SrvExit(e) \/ SrvEof(e)
  <2>1. /\ UNCHANGED <<files, delivered, buf>>
        /\ st'[e] \notin {"write", "ack"}
    BY <1>6 DEF SrvAuth, SrvHeader, SrvDiscard, SrvPath, SrvRefuse, SrvExit, SrvEof,
                Send, BeginRequest, diskVars, Typed, TypeOK, TypeThreads
  <2>2. ASSUME NEW d \in Epochs PROVE Copying(d)'
    <3>1. CASE d = e
      BY <2>1, <3>1 DEF Copying
    <3>2. CASE d # e
      <4>1. UNCHANGED <<st[d], h[d], path[d], pos[d], files, buf>>
        BY <1>4, <2>1, <3>2 DEF PairStays, ThreadStays
      <4>2. Copying(d)
        BY DEF Copies
      <4> QED
        BY <4>1, <4>2 DEF Copying
    <3> QED
      BY <3>1, <3>2
  <2>3. Kept'
    BY <2>1 DEF Copies, Kept, Onwards, OnlyWriter, Complete
  <2> QED
    BY <2>2, <2>3 DEF Copies
<1> QED
  BY <1>1, <1>2, <1>5, <1>6 DEF SrvThread, SrvEnding

LEMMA NextCopies ==
  ASSUME Regular, NothingBreaks, ~DiskErrors
  PROVE  Sure /\ Refusals /\ Copies /\ [Next]_vars => Copies'
<1> SUFFICES ASSUME Sure, Refusals, Copies, [Next]_vars PROVE Copies'
  OBVIOUS
<1>1. Onwards
  BY StepOnwards DEF Sure
<1>2. ASSUME /\ UNCHANGED <<files, delivered, h, path, pos, buf>>
             /\ \A e \in Epochs : st'[e] \in {"write", "ack"} => st'[e] = st[e]
      PROVE  Copies'
  BY <1>1, <1>2, ZenonT(30) DEF Copies, Copying, Kept, Onwards, OnlyWriter, Complete
<1>3. ASSUME NEW c \in Clients,
             ClientConnect(c) \/ ClientSend(c) \/ ClientReceive(c)
               \/ ClientEof(c) \/ ClientInterrupt(c)
      PROVE  Copies'
  BY <1>2, <1>3 DEF ClientConnect, ClientSend, ClientReceive, ClientEof,
                    ClientInterrupt, othersThanClient, thrVars, diskVars
<1>4. CASE UNCHANGED vars \/ Quiet \/ Daemon
  <2>1. /\ UNCHANGED <<files, delivered, h, path, pos, buf>>
        /\ UNCHANGED st \/ DConnect
    BY <1>4
       DEF vars, thrVars, diskVars, Quiet, Daemon, DAccept, DResend, DLoadAttrs,
           DLoadSource, DLoadDest, DStat, DOpenFails, DSendHeader, DSendPath,
           DSendData, DSendDead, DSendAnswered, DSendInterrupted, DReadError,
           DAwait, DConnect, DAuthenticate, serverSide
  <2>2. \A e \in Epochs : st'[e] \in {"write", "ack"} => st'[e] = st[e]
    BY <2>1 DEF DConnect, Sure, Typed, TypeOK, TypeThreads
  <2> QED
    BY <1>2, <2>1, <2>2
<1> QED
  BY <1>1, <1>3, <1>4, NothingFails, ServerCopies DEF Next, Sure

LEMMA AlwaysCopies ==
  ASSUME Regular, NothingBreaks, ~DiskErrors
  PROVE  Spec => []Copies
<1>1. Init => Copies
  BY DEF Init, Copies, Copying, Kept
<1>2. Sure /\ Refusals /\ Copies /\ [Next]_vars => Copies'
  BY NextCopies
<1> QED
  BY <1>1, <1>2, AlwaysSure, AlwaysRefusals, PTL DEF Spec

\* An acknowledged file is on the disk, byte for byte, whatever the threads
\* and stdio's buffers still do: where nothing breaks and the disk works.
THEOREM CopiesIntact ==
  ASSUME Regular, NothingBreaks, ~DiskErrors
  PROVE  Spec => []IntactWhileAcked
<1>1. Sure /\ Copies => IntactWhileAcked
  <2> SUFFICES ASSUME Sure, Copies, NEW c \in Clients, result[c] = "OK",
                      OnlyWriter(c)
               PROVE  files[job[c].dest] = Copy(c)
    BY DEF IntactWhileAcked
  <2>1. c \in delivered
    BY DEF Sure, Aligning, Told
  <2>2. job[c].kind = "file"
    BY DEF NothingBreaks, Sure, Typed, TypeOK, TypeClients
  <2> QED
    BY <2>1, <2>2 DEF Copies, Kept, Copy
<1> QED
  BY <1>1, AlwaysSure, AlwaysCopies, PTL
=============================================================================
