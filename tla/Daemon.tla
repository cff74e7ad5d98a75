------------------------------- MODULE Daemon -------------------------------
(***************************************************************************)
(* The client daemon (client_daemon.c): main with what it calls.  Everything *)
(* happens in one process that serves one client after another.            *)
(***************************************************************************)
EXTENDS TransferState

GoneBefore(c, stage) == result[c] # "none" /\ sent[c] < stage

CanReply == cur \notin closed /\ result[cur] = "none"

\* close of both connections; the peer still reads what was delivered.  (A
\* close with a message unread sends a reset: a Break with "rst" just before.)
HangUp ==
  link' = [link EXCEPT ![epoch] = IF @ = "up" THEN "fin" ELSE @]

\* CATCH(FORCED_SOCKET_CLOSED): give the request up, start a new pair.
CatchForced ==
  /\ resend' = FALSE
  /\ closed' = closed \cup {cur}
  /\ pc' = "connect"
  /\ HangUp

\* Mutant: file_resend_needed stays FALSE.
CatchClosedForgets ==
  /\ discard' = 0
  /\ pc' = "connect"
  /\ UNCHANGED resend
  /\ HangUp

\* CATCH(SOCKET_CLOSED): start a new pair, then send the request again.
CatchClosed ==
  /\ discard' = 0
  /\ resend' = TRUE
  /\ pc' = "connect"
  /\ HangUp

\* The request is finished with; main returns to accept.
CloseClient ==
  /\ closed' = closed \cup {cur}
  /\ pc' = "top"
  /\ UNCHANGED <<resend, link>>

\* Mutant: RECEIVED_BAD_ACK and the end of TRY neither answer nor close.
ReplyForgotten(flag) ==
  /\ pc' = "top"
  /\ UNCHANGED <<inbox, closed, resend, link>>

\* send_message_wrapper on client_socket, then close: a client that is gone
\* makes send fail, which throws FORCED_SOCKET_CLOSED.
ReplyAndClose(flag) ==
  IF CanReply
  THEN /\ inbox' = [inbox EXCEPT ![cur] = IF @ = "none" THEN flag ELSE @]
       /\ CloseClient
  ELSE /\ CatchForced
       /\ UNCHANGED inbox

\* The server gave up: tell the client, then throw FORCED_SOCKET_CLOSED.
ReplyAndForce ==
  /\ inbox' = IF CanReply
              THEN [inbox EXCEPT ![cur] = IF @ = "none" THEN "ERR" ELSE @]
              ELSE inbox
  /\ CatchForced

Readable(c) == c # None /\ job[c].kind # "missing"

Room == Len(data[epoch]) - rd[epoch] < Capacity
ChunkLen == ChunkAt(hdr.len, off)

\* Only init makes the data socket non-blocking, restart_connection does
\* not; inside a blocking send no message can be noticed.  Once client_socket
\* is closed, select fails and leaves its sets as they were: send is tried
\* over and over.
Selectable == cur \notin closed /\ (epoch = 1 \/ cnt = 0)

serverSide == <<up, data, rd, thrVars, diskVars, breaks, clientVars>>

-----------------------------------------------------------------------------
(***************************************************************************)
(* The daemon: accepting a client and loading its request.                 *)
(***************************************************************************)
DAccept ==
  /\ pc = "top" /\ ~resend
  /\ backlog # <<>>
  /\ cur' = Head(backlog)
  /\ backlog' = Tail(backlog)
  /\ pc' = "attrs"
  /\ UNCHANGED <<job, sent, result, inbox, closed, attrVars, discard, resend,
                 fileVars, epoch, netVars, thrVars, diskVars, breaks>>

\* Mutant: accept is called although a request has to be sent again.
DResendAccepts ==
  /\ pc = "top" /\ resend /\ backlog # <<>>
  /\ cur' = Head(backlog)
  /\ backlog' = Tail(backlog)
  /\ resend' = FALSE
  /\ pc' = "open"
  /\ UNCHANGED <<job, sent, result, inbox, closed, attrVars, discard, fileVars,
                 epoch, netVars, thrVars, diskVars, breaks>>

DResend ==
  /\ pc = "top" /\ resend
  /\ resend' = FALSE
  /\ pc' = "open"
  /\ UNCHANGED <<serverSide, inbox, cur, closed, attrVars, discard, fileVars,
                 epoch, link, down>>

\* load_file_attrs; a client that is gone looks like a closed server.
DLoadAttrs ==
  /\ pc = "attrs"
  /\ \/ /\ sent[cur] >= AttrsSent
        /\ pc' = "source"
        /\ UNCHANGED <<discard, resend, link>>
     \/ /\ GoneBefore(cur, AttrsSent)
        /\ CatchClosed
  /\ UNCHANGED <<serverSide, inbox, cur, closed, attrVars, fileVars, epoch,
                 down>>

\* load_path_wrapper, twice.  When the client is gone the FORCED message may
\* have overwritten the beginning of the path.  Paths are no longer than
\* PATH_MAX; the FILE_ERROR load_path answers a longer one with is left out.
DLoadSource ==
  /\ pc = "source"
  /\ \/ /\ sent[cur] >= SourceSent
        /\ src' = cur
        /\ pc' = "dest"
        /\ UNCHANGED <<closed, resend, link>>
     \/ /\ GoneBefore(cur, SourceSent)
        /\ src' \in {src, None}
        /\ CatchForced
  /\ UNCHANGED <<serverSide, inbox, cur, dst, hdr, discard, fileVars, epoch,
                 down>>

\* Mutant: the destination is loaded over the source.
DLoadDestOverSource ==
  /\ pc = "dest"
  /\ sent[cur] >= RequestSent
  /\ src' = cur
  /\ pc' = "stat"
  /\ UNCHANGED <<closed, resend, link, dst, serverSide, inbox, cur, hdr, discard,
                 fileVars, epoch, down>>

DLoadDest ==
  /\ pc = "dest"
  /\ \/ /\ sent[cur] >= RequestSent
        /\ dst' = cur
        /\ pc' = "stat"
        /\ UNCHANGED <<closed, resend, link>>
     \/ /\ GoneBefore(cur, RequestSent)
        /\ dst' \in {dst, None}
        /\ CatchForced
  /\ UNCHANGED <<serverSide, inbox, cur, src, hdr, discard, fileVars, epoch,
                 down>>

\* Mutant: data_len counts one byte too few.
NewHeaderShort(cmd, len) ==
  [req |-> cur, cmd |-> cmd, len |-> len - 1, discard |-> discard]

\* create_dest_file_attrs.  When stat fails the client is told so, and the
\* header is still built, from an uninitialised struct stat64.
NewHeader(cmd, len) ==
  [req |-> cur, cmd |-> cmd, len |-> len, discard |-> discard]

DStat ==
  /\ pc = "stat"
  /\ IF job[cur].kind = "missing"
     THEN IF CanReply
          THEN /\ inbox' = [inbox EXCEPT ![cur] = "ERR"]
               /\ \E cmd \in {"file", "dir"} : hdr' = NewHeader(cmd, 0)
               /\ pc' = "open"
               /\ UNCHANGED <<closed, resend, link>>
          ELSE /\ CatchForced
               /\ UNCHANGED <<inbox, hdr>>
     ELSE /\ hdr' = NewHeader(job[cur].kind,
                       IF job[cur].kind = "dir" THEN 0 ELSE job[cur].size)
          /\ pc' = "open"
          /\ UNCHANGED <<inbox, closed, resend, link>>
  /\ UNCHANGED <<serverSide, cur, src, dst, discard, fileVars, epoch, down>>

-----------------------------------------------------------------------------
(***************************************************************************)
(* The daemon: sending a request.                                          *)
(***************************************************************************)

\* fopen of the source fails: FILE_ERROR after an ACK_ERROR to the client.
\* "none" is the uninitialised command, which may read as MK_FILE.
DOpenFails ==
  /\ pc = "open"
  /\ hdr.cmd \in {"file", "none"}
  /\ ~Readable(src)
  /\ ReplyAndClose("ERR")
  /\ UNCHANGED <<serverSide, cur, attrVars, discard, fileVars, epoch, down>>

\* send_wrapper: on a dead connection the send fails or is lost unnoticed.
DSendHeader ==
  /\ pc = "open"
  /\ hdr.cmd = "file" => Readable(src)
  /\ IF hdr.cmd = "none"                   \* a header of no bytes, no path
     THEN pc' = "await" /\ UNCHANGED <<up, discard, resend, link>>
     ELSE \/ /\ link[epoch] = "up"
             /\ up' = [up EXCEPT ![epoch] = Append(@, hdr)]
             /\ pc' = "path"
             /\ UNCHANGED <<discard, resend, link>>
          \/ /\ link[epoch] # "up"
             /\ pc' = "path"
             /\ UNCHANGED <<up, discard, resend, link>>
          \/ /\ link[epoch] # "up"
             /\ CatchClosed
             /\ UNCHANGED up
  /\ UNCHANGED <<data, rd, thrVars, diskVars, breaks, clientVars, inbox, cur,
                 closed, attrVars, fileVars, epoch, down>>

\* Mutant: send_data does not reset dest_file_attrs.discard.
AfterPathKeepsDiscard ==
  /\ pc' = IF hdr.cmd = "file" /\ MoreChunks(hdr.len, 0) THEN "data" ELSE "await"
  /\ off' = 0 /\ cnt' = 0 /\ tot' = 0
  /\ UNCHANGED <<resend, link, discard>>

\* send_path_wrapper, then for a file the beginning of send_data, which is
\* where dest_file_attrs.discard goes back to 0.
AfterPath ==
  /\ pc' = IF hdr.cmd = "file" /\ MoreChunks(hdr.len, 0) THEN "data" ELSE "await"
  /\ discard' = IF hdr.cmd = "file" THEN 0 ELSE discard
  /\ off' = 0 /\ cnt' = 0 /\ tot' = 0
  /\ UNCHANGED <<resend, link>>

DSendPath ==
  /\ pc = "path"
  /\ \/ /\ link[epoch] = "up" /\ Room
        /\ data' = [data EXCEPT ![epoch] = Append(@, PathUnit(dst))]
        /\ AfterPath
     \/ /\ link[epoch] # "up"
        /\ AfterPath
        /\ UNCHANGED data
     \/ /\ link[epoch] # "up"
        /\ CatchClosed
        /\ UNCHANGED <<data, fileVars>>
  /\ UNCHANGED <<up, rd, thrVars, diskVars, breaks, clientVars, inbox, cur,
                 closed, attrVars, epoch, down>>

\* On to the next chunk of the file, or to the acknowledgement.
NextChunk ==
  /\ off' = off + ChunkLen
  /\ cnt' = 0
  /\ pc' = IF MoreChunks(hdr.len, off + ChunkLen) THEN "data" ELSE "await"

\* One more byte of the chunk goes to the kernel.
DSendData ==
  /\ pc = "data"
  /\ link[epoch] = "up" /\ Room
  /\ job[src].kind = "file"
  /\ data' = [data EXCEPT ![epoch] = Append(@, ByteUnit(src, off + cnt + 1))]
  /\ IF cnt + 1 = ChunkLen
     THEN NextChunk /\ tot' = tot + ChunkLen
     ELSE cnt' = cnt + 1 /\ UNCHANGED <<pc, off, tot>>
  /\ UNCHANGED <<up, rd, thrVars, diskVars, breaks, clientVars, inbox, cur,
                 closed, attrVars, discard, resend, epoch, link, down>>

\* A dead data connection is always writable and send's -1 is not seen as
\* an error (unsigned n): the loop ends as if the chunk had been sent.  What
\* -1 adds to totall_sent_bytes is of no account: a dead connection stays
\* writable, so no message is read before main's, and main does not use it.
DSendDead ==
  /\ pc = "data"
  /\ link[epoch] # "up"
  /\ NextChunk
  /\ UNCHANGED <<serverSide, inbox, cur, closed, attrVars, discard, resend,
                 tot, epoch, link, down>>

\* The connection is full and the server has sent a message.  It may have
\* closed the connection since: select need not know of that yet.  (Without
\* a message the end is noticed by DSendDead and DAwait: SOCKET_CLOSED too.)
DSendAnswered ==
  /\ pc = "data"
  /\ ~Room /\ Selectable
  /\ down[epoch] # <<>>
  /\ down' = [down EXCEPT ![epoch] = Tail(@)]
  /\ \/ /\ Head(down[epoch]) = "ERR"
        /\ discard' = tot + cnt
        /\ ReplyAndClose("ERR")
        /\ UNCHANGED fileVars
     \/ /\ Head(down[epoch]) = "FORCED"
        /\ ReplyAndForce
        /\ UNCHANGED <<discard, fileVars>>
     \/ /\ Head(down[epoch]) = "OK"        \* the chunk is left unfinished
        /\ NextChunk
        /\ tot' = tot + cnt
        /\ UNCHANGED <<discard, inbox, closed, resend, link>>
  /\ UNCHANGED <<serverSide, cur, attrVars, epoch>>

\* The connection is full and the client was interrupted or is gone.
DSendInterrupted ==
  /\ pc = "data"
  /\ ~Room /\ Selectable
  /\ down[epoch] = <<>>
  /\ result[cur] # "none"
  /\ CatchForced
  /\ UNCHANGED <<serverSide, inbox, cur, attrVars, discard, fileVars, epoch,
                 down>>

\* fread fails, always when the source is a directory: FILE_ERROR, with the
\* header sent and nothing said to the server or to the client.
DReadError ==
  /\ pc = "data" /\ cnt = 0
  /\ ReadErrors \/ job[src].kind = "dir"
  /\ CloseClient
  /\ UNCHANGED <<serverSide, inbox, cur, attrVars, discard, fileVars, epoch,
                 down>>

\* receive_message on the command connection once everything is sent.
DAwait ==
  /\ pc = "await"
  /\ \/ /\ down[epoch] # <<>>
        /\ down' = [down EXCEPT ![epoch] = Tail(@)]
        /\ \/ /\ Head(down[epoch]) = "ERR"
              /\ discard' = hdr.len
              /\ ReplyAndClose("ERR")
           \/ /\ Head(down[epoch]) = "FORCED"
              /\ ReplyAndForce
              /\ UNCHANGED discard
           \/ /\ Head(down[epoch]) = "OK"
              /\ ReplyAndClose("OK")
              /\ UNCHANGED discard
     \/ /\ down[epoch] = <<>> /\ link[epoch] # "up"
        /\ CatchClosed
        /\ UNCHANGED <<down, inbox, closed>>
  /\ UNCHANGED <<serverSide, cur, attrVars, fileVars, epoch>>

(***************************************************************************)
(* The daemon: restart_connection, seen from its success.  The connects     *)
(* that fail before, the descriptors and tokens they may leave behind, and *)
(* the pairing of the two connections are Pairing.tla's.                   *)
(***************************************************************************)
DConnect ==
  /\ pc = "connect"
  /\ epoch < MaxEpoch
  /\ epoch' = epoch + 1
  /\ link' = [link EXCEPT ![epoch + 1] = "up"]
  /\ st' = [st EXCEPT ![epoch + 1] = "auth"]
  /\ pc' = "auth"
  /\ UNCHANGED <<clientVars, inbox, cur, closed, attrVars, discard, resend,
                 fileVars, up, down, data, rd, h, path, left, pos, got, buf, seen,
                 diskVars, breaks>>

\* The token cannot be sent: client_connect throws FORCED_SOCKET_CLOSED, so
\* a request that was to be resent is given up.
DConnectFails ==
  /\ pc = "connect"
  /\ breaks < MaxBreaks
  /\ breaks' = breaks + 1
  /\ CatchForced
  /\ UNCHANGED <<clientVars, inbox, cur, attrVars, discard, fileVars, epoch,
                 up, down, data, rd, thrVars, diskVars>>

DAuthenticate ==
  /\ pc = "auth"
  /\ \/ /\ down[epoch] # <<>>
        /\ down' = [down EXCEPT ![epoch] = Tail(@)]
        /\ pc' = "top"
        /\ UNCHANGED <<discard, resend, link>>
     \/ /\ down[epoch] = <<>> /\ link[epoch] # "up"
        /\ CatchClosed
        /\ UNCHANGED down
  /\ UNCHANGED <<serverSide, inbox, cur, closed, attrVars, fileVars, epoch>>

Daemon ==
  \/ DAccept \/ DResend \/ DLoadAttrs \/ DLoadSource \/ DLoadDest \/ DStat
  \/ DOpenFails \/ DSendHeader \/ DSendPath
  \/ DSendData \/ DSendDead \/ DSendAnswered \/ DSendInterrupted \/ DReadError
  \/ DAwait \/ DConnect \/ DAuthenticate
=============================================================================
