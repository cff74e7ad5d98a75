---------------------------- MODULE ServerThread ----------------------------
(***************************************************************************)
(* The server (server.c): thr_func for the pair of connections e, with what *)
(* it calls.  There is one thread for each pair.                           *)
(***************************************************************************)
EXTENDS TransferState

daemonSide == <<clientVars, inbox, pc, cur, closed, attrVars, discard, resend,
                fileVars, epoch>>

Unread(e) == rd[e] < Len(data[e])
Dest(e) == IF h[e].req = None THEN Junk ELSE job[h[e].req].dest

\* A send on a live connection is delivered.  On a dead one it is lost, or
\* it fails and the thread ends (dealloc, pthread_exit).
Send(e, flag, next) ==
  \/ /\ link[e] = "up"
     /\ down' = [down EXCEPT ![e] = Append(@, flag)]
     /\ st' = [st EXCEPT ![e] = next]
     /\ UNCHANGED link
  \/ /\ link[e] # "up"
     /\ st' \in {[st EXCEPT ![e] = next], [st EXCEPT ![e] = "dead"]}
     /\ UNCHANGED <<down, link>>

\* After its last message the thread closes its connections (dealloc) and
\* ends.
SrvExit(e) ==
  /\ st[e] = "exit"
  /\ st' = [st EXCEPT ![e] = "dead"]
  /\ link' = [link EXCEPT ![e] = IF @ = "up" THEN "fin" ELSE @]
  /\ UNCHANGED <<daemonSide, up, down, data, rd, h, path, left, pos, got, buf,
                 seen, diskVars, breaks>>

\* authenticate; receive_message's result is not looked at, so on a dead
\* connection some message is compared with the password, in vain.
SrvAuth(e) ==
  /\ st[e] = "auth"
  /\ \/ /\ link[e] = "up"
        /\ down' = [down EXCEPT ![e] = Append(@, "OK")]
        /\ st' = [st EXCEPT ![e] = "hdr"]
     \/ /\ link[e] # "up"
        /\ st' = [st EXCEPT ![e] = "dead"]
        /\ UNCHANGED down
  /\ UNCHANGED <<daemonSide, link, up, data, rd, h, path, left, pos, got, buf, seen,
                 diskVars, breaks>>

\* Mutant: discard_data is never called.
NeverDiscard(header) == 0

\* load_dest_file_attrs, parse_dest_file_attrs, and the test of discard.
ToDiscard(header) == header.discard
BeginRequest(e, header) ==
  /\ h' = [h EXCEPT ![e] = header]
  /\ left' = [left EXCEPT ![e] = ToDiscard(header)]
  /\ st' = [st EXCEPT ![e] =
              IF ToDiscard(header) > 0 /\ MoreChunks(ToDiscard(header), 0)
              THEN "discard" ELSE "path"]

SrvHeader(e) ==
  /\ st[e] = "hdr"
  /\ up[e] # <<>>
  /\ BeginRequest(e, Head(up[e]))
  /\ up' = [up EXCEPT ![e] = Tail(@)]
  /\ UNCHANGED <<daemonSide, link, down, data, rd, path, pos, got, buf, seen,
                 diskVars, breaks>>

\* discard_data: one more byte of a chunk is received.
Discarded(e) == h[e].discard - left[e]

DiscardDone(e) ==
  /\ (Discarded(e) % BUFFERSIZE) + 1 = ChunkAt(h[e].discard, Discarded(e))
  /\ ~MoreChunks(h[e].discard, Discarded(e) + 1)

SrvDiscard(e) ==
  /\ st[e] = "discard"
  /\ Unread(e)
  /\ rd' = [rd EXCEPT ![e] = @ + 1]
  /\ left' = [left EXCEPT ![e] = @ - 1]
  /\ st' = [st EXCEPT ![e] = IF DiscardDone(e) THEN "path" ELSE "discard"]
  /\ UNCHANGED <<daemonSide, link, up, down, data, h, path, pos, got, buf, seen,
                 diskVars, breaks>>

\* load_path_wrapper: whatever comes next on the data connection is a path.
PathIn(unit) == IF unit.k = 0 /\ unit.r # None THEN job[unit.r].dest ELSE Junk

SrvPath(e) ==
  /\ st[e] = "path"
  /\ Unread(e)
  /\ rd' = [rd EXCEPT ![e] = @ + 1]
  /\ path' = [path EXCEPT ![e] = PathIn(data[e][rd[e] + 1])]
  /\ IF path'[e] \in BadPaths
     THEN Send(e, "FORCED", "exit")
     ELSE /\ st' = [st EXCEPT ![e] = "open"]
          /\ UNCHANGED <<down, link>>
  /\ UNCHANGED <<daemonSide, up, data, h, left, pos, got, buf, seen, diskVars,
                 breaks>>

\* Mutant: write_data is left out.
AckAtOnce(e) == "ack"

FirstState(e) == IF MoreChunks(h[e].len, 0) THEN "write" ELSE "ack"

\* case MK_FILE: fopen(client->file_path, "wb"), which empties the file.
SrvOpen(e) ==
  /\ st[e] = "open" /\ h[e].cmd = "file"
  /\ files[path[e]].kind # "dir"
  /\ files' = [files EXCEPT ![path[e]] = File(<<>>)]
  /\ pos' = [pos EXCEPT ![e] = 0]
  /\ got' = [got EXCEPT ![e] = 0]
  /\ buf' = [buf EXCEPT ![e] = <<>>]
  /\ st' = [st EXCEPT ![e] = FirstState(e)]
  /\ UNCHANGED <<daemonSide, netVars, h, path, left, seen, delivered, breaks>>

\* case MK_DIRECTORY
SrvMkdir(e) ==
  /\ st[e] = "open" /\ h[e].cmd = "dir"
  /\ files[path[e]].kind = "absent"
  /\ files' = [files EXCEPT ![path[e]] = Directory]
  /\ delivered' = IF path[e] = Dest(e) THEN delivered \cup {h[e].req}
                                      ELSE delivered
  /\ st' = [st EXCEPT ![e] = "ack"]
  /\ UNCHANGED <<daemonSide, netVars, h, path, left, pos, got, buf, seen, breaks>>

\* fopen or mkdir fails: ACK_ERROR, then on to the next header.
Refused(e) ==
  /\ st[e] = "open"
  /\ \/ path[e] \in MayRefuse \cup {Junk}
     \/ h[e].cmd = "file" /\ files[path[e]].kind = "dir"
     \/ h[e].cmd = "dir" /\ files[path[e]].kind # "absent"

\* Mutant: without the "continue" after a failed fopen or mkdir.
SrvRefuseAndAck(e) ==
  /\ Refused(e)
  /\ "cmd" \notin seen[e]
  /\ Send(e, "ERR", "ack")
  /\ UNCHANGED <<daemonSide, up, data, rd, h, path, left, pos, got, buf, seen,
                 diskVars, breaks>>

SrvRefuse(e) ==
  /\ Refused(e)
  /\ "cmd" \notin seen[e]
  /\ Send(e, "ERR", "hdr")
  /\ UNCHANGED <<daemonSide, up, data, rd, h, path, left, pos, got, buf, seen,
                 diskVars, breaks>>

\* fwrite at the stream's own offset: a file another thread has emptied in
\* the meantime gets a hole of zeros.
Hole == ByteUnit(None, 0)
WriteAt(bytes, at, units) ==
  [k \in 1..(IF Len(bytes) > at + Len(units) THEN Len(bytes)
                                            ELSE at + Len(units)) |->
     IF k \in (at + 1)..(at + Len(units)) THEN units[k - at]
     ELSE IF k <= Len(bytes) THEN bytes[k] ELSE Hole]

\* stdio writes whole BUFFERSIZE chunks at once and keeps a last shorter
\* one until fclose.
Store(e, at, units) ==
  files' = IF files[path[e]].kind = "file"
           THEN [files EXCEPT ![path[e]].bytes = WriteAt(@, at, units)]
           ELSE files

WriteChunk(e, units) ==
  /\ IF Len(units) = BUFFERSIZE
     THEN Store(e, pos[e], units) /\ UNCHANGED buf
     ELSE buf' = [buf EXCEPT ![e] = units] /\ UNCHANGED files
  /\ pos' = [pos EXCEPT ![e] = @ + Len(units)]
  /\ got' = [got EXCEPT ![e] = 0]
  /\ st' = [st EXCEPT ![e] =
              IF MoreChunks(h[e].len, pos[e] + Len(units)) THEN "write" ELSE "ack"]

WriteLen(e) == ChunkAt(h[e].len, pos[e])

\* write_data: one more byte of a chunk is received; the last one is
\* followed by fwrite.
SrvData(e) ==
  /\ st[e] = "write"
  /\ Unread(e)
  /\ rd' = [rd EXCEPT ![e] = @ + 1]
  /\ IF got[e] + 1 < WriteLen(e)
     THEN /\ got' = [got EXCEPT ![e] = @ + 1]
          /\ UNCHANGED <<files, pos, buf, st>>
     ELSE WriteChunk(e, SubSeq(data[e], rd[e] - got[e] + 1, rd[e] + 1))
  /\ UNCHANGED <<daemonSide, link, up, down, data, h, path, left, seen,
                 delivered, breaks>>

\* fwrite fails: FORCED_SOCKET_CLOSED, and the thread ends.
SrvWriteFails(e) ==
  /\ DiskErrors
  /\ st[e] = "write"
  /\ Unread(e) /\ got[e] + 1 = WriteLen(e)
  /\ rd' = [rd EXCEPT ![e] = @ + 1]
  /\ Send(e, "FORCED", "exit")
  /\ UNCHANGED <<daemonSide, up, data, h, path, left, pos, got, buf, seen, diskVars,
                 breaks>>

\* fclose, then ACK_OK.  Nobody looks at what fclose returns: the chunk it
\* could not write is lost.
FileReceived(e) ==
  /\ path[e] = Dest(e)
  /\ rd[e] >= h[e].len
  /\ SubSeq(data[e], rd[e] - h[e].len + 1, rd[e]) = Complete(h[e].req).bytes

\* Mutant: no fclose.
FlushForgotten(e) == UNCHANGED files

Flush(e) ==
  IF buf[e] # <<>> THEN Store(e, pos[e] - Len(buf[e]), buf[e])
                   ELSE UNCHANGED files

SrvAck(e) ==
  /\ st[e] = "ack"
  /\ "cmd" \notin seen[e]
  /\ Flush(e) \/ (DiskErrors /\ UNCHANGED files)
  /\ delivered' = IF h[e].cmd = "file" /\ h[e].req # None /\ FileReceived(e)
                  THEN delivered \cup {h[e].req} ELSE delivered
  /\ buf' = [buf EXCEPT ![e] = <<>>]
  /\ Send(e, "OK", "hdr")
  /\ UNCHANGED <<daemonSide, up, data, rd, h, path, left, pos, got, seen,
                 breaks>>

(***************************************************************************)
(* The server: connections that end.                                       *)
(***************************************************************************)
WantsMore(e) ==
  \/ st[e] = "hdr" /\ up[e] = <<>>
  \/ st[e] \in {"discard", "path", "write"} /\ ~Unread(e)

\* recv returns 0: dealloc and pthread_exit; an open file is never closed.
SrvEof(e) ==
  /\ link[e] # "up" /\ WantsMore(e)
  /\ st' = [st EXCEPT ![e] = "dead"]
  /\ UNCHANGED <<daemonSide, netVars, h, path, left, pos, got, buf, seen,
                 diskVars, breaks>>

\* recv's -1 is kept in an unsigned long long, so the first recv after a
\* reset counts as success: recv_bytes returns with nothing received.  The
\* next one on the same connection returns 0.
SrvHeaderReset(e) ==
  /\ link[e] = "rst" /\ "cmd" \notin seen[e]
  /\ st[e] = "hdr" /\ up[e] = <<>>
  /\ h[e] # NoHeader                \* the shortest header, one recv
  /\ BeginRequest(e, h[e])
  /\ seen' = [seen EXCEPT ![e] = @ \cup {"cmd"}]
  /\ UNCHANGED <<daemonSide, netVars, path, pos, got, buf, diskVars, breaks>>

DataReset(e) ==
  /\ link[e] = "rst" /\ "data" \notin seen[e] /\ ~Unread(e)
  /\ seen' = [seen EXCEPT ![e] = @ \cup {"data"}]
  /\ UNCHANGED <<daemonSide, netVars, h, delivered, breaks>>

SrvDiscardReset(e) ==
  /\ st[e] = "discard" /\ Discarded(e) % BUFFERSIZE = 0
  /\ LET chunk == ChunkAt(h[e].discard, Discarded(e))
         more == MoreChunks(h[e].discard, Discarded(e) + chunk)
     IN  /\ left' = [left EXCEPT ![e] = @ - chunk]
         /\ st' = [st EXCEPT ![e] = IF more THEN "discard" ELSE "path"]
  /\ DataReset(e)
  /\ UNCHANGED <<path, pos, got, buf, files>>

SrvPathReset(e) ==
  /\ st[e] = "path"
  /\ st' = [st EXCEPT ![e] = "open"]     \* with the path it had before
  /\ DataReset(e)
  /\ UNCHANGED <<path, left, pos, got, buf, files>>

SrvDataReset(e) ==
  /\ st[e] = "write" /\ got[e] = 0
  /\ WriteChunk(e, [k \in 1..WriteLen(e) |-> Stale])
  /\ DataReset(e)
  /\ UNCHANGED <<path, left>>

\* The server process ends: every thread and every connection with it.  What
\* it sent may still arrive; what the network loses on the way is Break's.
ServerEnds ==
  /\ st' = [e \in Epochs |-> IF st[e] = "none" THEN "none" ELSE "dead"]
  /\ link' = [e \in Epochs |-> IF link[e] = "up" THEN "fin" ELSE link[e]]
  /\ UNCHANGED <<daemonSide, up, down, data, rd, h, path, left, pos, got, buf,
                 seen, diskVars>>

\* The server does not ignore SIGPIPE: sending on a connection whose reset
\* recv has already reported kills it.
SrvSigpipe(e) ==
  /\ Refused(e) \/ st[e] = "ack"
  /\ "cmd" \in seen[e]
  /\ ServerEnds
  /\ UNCHANGED breaks

SrvThread(e) ==
  \/ SrvAuth(e) \/ SrvHeader(e) \/ SrvDiscard(e) \/ SrvPath(e)
  \/ SrvOpen(e) \/ SrvMkdir(e) \/ SrvRefuse(e) \/ SrvData(e) \/ SrvAck(e)
  \/ SrvExit(e)

SrvEnding(e) ==
  \/ SrvWriteFails(e) \/ SrvEof(e) \/ SrvSigpipe(e) \/ SrvHeaderReset(e)
  \/ SrvDiscardReset(e) \/ SrvPathReset(e) \/ SrvDataReset(e)
=============================================================================
