--------------------------- MODULE TransferState ----------------------------
(***************************************************************************)
(* A copy request from the llncp command (client.c) through the client     *)
(* daemon (client_daemon.c, main) to a server thread (server.c, thr_func). *)
(*                                                                         *)
(* Daemon and server share a PAIR of TCP connections.  On the command      *)
(* connection the daemon sends one header per request and the server       *)
(* answers one acknowledgement; on the data connection the daemon sends    *)
(* path and file bytes with nothing in between to tell one request from    *)
(* the next.  After a refusal the bytes already sent lie unread in the     *)
(* data connection, and the next header tells the server how many of them  *)
(* to discard.  The daemon replaces a broken pair by a new one, and then   *)
(* resends; every pair is served by a thread of its own, so the thread of  *)
(* the old pair may still be running.                                      *)
(*                                                                         *)
(* A path is one unit of the data connection, a file byte is one unit.     *)
(* Pairs of connections are numbered; "epoch" is the daemon's current one. *)
(***************************************************************************)
EXTENDS Integers, Sequences, FiniteSets

CONSTANTS
  Clients,      \* runs of the llncp command, one request each
  Paths,        \* destination paths
  Jobs,         \* the requests a client may make: [dest, kind, size]
  None,         \* not a client: an unusable path, an empty header
  Junk,         \* the file name read from bytes that are not a path
  BUFFERSIZE,   \* bytes per chunk of a file (constants.h)
  Capacity,     \* bytes the two kernels buffer for a data connection
  MaxEpoch,     \* bound: pairs of connections ever opened
  MaxBreaks,    \* bound: failures of the network or of the server
  MayRefuse,    \* paths the server may be unable to create
  BadPaths,     \* paths with "../" in them
  InterruptAt,  \* stages at which a client may be interrupted
  Resets,       \* may a connection end by a reset (recv returns -1)?
  ReadErrors,   \* may fread fail on the daemon's side?
  DiskErrors    \* may fwrite and fclose fail on the server's side?

\* How far a client got with sending its request (client.c, 132-142).
Connected == 1
AttrsSent == 2
SourceSent == 3
RequestSent == 4

Kinds == {"file", "dir", "missing"}   \* what stat finds at the source
Epochs == 1..MaxEpoch

ASSUME TransferAssumption ==
  /\ None \notin Clients /\ Junk \notin Paths
  /\ Jobs \subseteq [dest: Paths, kind: Kinds, size: Nat]
  /\ BUFFERSIZE \in Nat \ {0} /\ Capacity \in Nat \ {0}
  /\ MaxEpoch \in Nat \ {0} /\ MaxBreaks \in Nat
  /\ MayRefuse \subseteq Paths /\ BadPaths \subseteq Paths
  /\ InterruptAt \subseteq Connected..RequestSent
  /\ Resets \in BOOLEAN /\ ReadErrors \in BOOLEAN /\ DiskErrors \in BOOLEAN

VARIABLES
  \* the llncp commands
  job,      \* the request each client makes (an input, never changed)
  sent,     \* 0 before connecting, then the stage reached
  result,   \* how the command ended: "none" while it runs
  inbox,    \* first answer of the daemon, read or not
  backlog,  \* clients connected to the daemon's socket, not yet accepted
  \* client_daemon.c
  pc, cur,  \* where main is; the client behind client_socket
  closed,   \* clients whose connection the daemon has closed
  src, dst, \* whose paths file_attrs.source and .destination hold
  hdr,      \* the header in dest_file_attrs_buffer
  discard,  \* dest_file_attrs.discard
  resend,   \* file_resend_needed
  off, cnt, \* start of the current chunk, sent_bytes of it
  tot,      \* totall_sent_bytes
  epoch,    \* the current pair of connections
  \* the pairs of connections, one per epoch
  link,     \* "none" before it is opened, "up", then "fin" or "rst"
  up, down, \* the command connection, daemon to server and back
  data, rd, \* all bytes of the data connection; how many the server read
  \* server.c, the thread of each epoch
  st,       \* where thr_func is
  h,        \* the header it works on
  path,     \* client->file_path
  left,     \* bytes still to discard
  pos, got, \* bytes written; bytes received of the current chunk
  buf,      \* bytes written that stdio keeps until fclose
  seen,     \* connections on which recv has already reported the reset
  \* the server's disk, and bookkeeping
  files,    \* contents of each path
  breaks,   \* failures so far
  delivered \* history: clients whose request the server carried out

clientVars == <<job, sent, result, backlog>>
fileVars   == <<off, cnt, tot>>
attrVars   == <<src, dst, hdr>>
netVars    == <<link, up, down, data, rd>>
thrVars    == <<st, h, path, left, pos, got, buf, seen>>
diskVars   == <<files, delivered>>
vars == <<clientVars, inbox, pc, cur, closed, attrVars, discard, resend,
          fileVars, epoch, netVars, thrVars, diskVars, breaks>>

-----------------------------------------------------------------------------
Units  == [r: Clients \cup {None}, k: Nat]
PathUnit(c)    == [r |-> c, k |-> 0]   \* c's destination path
ByteUnit(c, k) == [r |-> c, k |-> k]   \* k-th byte of c's source
Stale == ByteUnit(None, 1)             \* whatever the buffer held before

Headers  == [req: Clients \cup {None}, cmd: {"none", "file", "dir"},
             len: Nat, discard: Nat]
NoHeader == [req |-> None, cmd |-> "none", len |-> 0, discard |-> 0]

Flags   == {"OK", "ERR", "FORCED"}     \* ACK_OK, ACK_ERROR, FORCED_SOCKET_CLOSED
Results == {"none", "OK", "ERR", "EOF", "INT"}

FileStates  == [kind: {"absent", "file", "dir"}, bytes: Seq(Units)]
Absent      == [kind |-> "absent", bytes |-> <<>>]
Directory   == [kind |-> "dir", bytes |-> <<>>]
File(bytes) == [kind |-> "file", bytes |-> bytes]

\* What a finished copy of c's source looks like.
Complete(c) == File([k \in 1..job[c].size |-> ByteUnit(c, k)])

(***************************************************************************)
(* write_data, discard_data and send_data each handle n bytes in           *)
(* n / BUFFERSIZE whole chunks, for (i = 0; i < n / BUFFERSIZE; i++), and   *)
(* if (n % BUFFERSIZE) in one more of that length.  After "at" bytes i is  *)
(* at \div BUFFERSIZE.                                                     *)
(***************************************************************************)

\* Length of the chunk that is under way after at bytes.
ChunkAt(n, at) ==
  IF at \div BUFFERSIZE < n \div BUFFERSIZE THEN BUFFERSIZE ELSE n % BUFFERSIZE

\* Mutant: without the chunk after the loop.
OnlyWholeChunks(n, at) == at \div BUFFERSIZE < n \div BUFFERSIZE

\* After the chunk that ends at at: is there another one?
MoreChunks(n, at) ==
  \/ at \div BUFFERSIZE < n \div BUFFERSIZE
  \/ n % BUFFERSIZE # 0 /\ at = BUFFERSIZE * (n \div BUFFERSIZE)

TypeClients ==
  /\ job \in [Clients -> Jobs]
  /\ sent \in [Clients -> 0..RequestSent]
  /\ result \in [Clients -> Results]
  /\ inbox \in [Clients -> {"none", "OK", "ERR"}]
  /\ backlog \in Seq(Clients)

TypeDaemon ==
  /\ pc \in {"top", "attrs", "source", "dest", "stat", "open", "path",
             "data", "await", "connect", "auth"}
  /\ cur \in Clients \cup {None} /\ closed \subseteq Clients \cup {None}
  /\ src \in Clients \cup {None} /\ dst \in Clients \cup {None}
  /\ hdr \in Headers
  /\ discard \in Nat /\ resend \in BOOLEAN
  /\ off \in Nat /\ cnt \in Nat /\ tot \in Nat
  /\ epoch \in Epochs

TypeNet ==
  /\ link \in [Epochs -> {"none", "up", "fin", "rst"}]
  /\ up \in [Epochs -> Seq(Headers)]
  /\ down \in [Epochs -> Seq(Flags)]
  /\ data \in [Epochs -> Seq(Units)]
  /\ rd \in [Epochs -> Nat]

TypeThreads ==
  /\ st \in [Epochs -> {"none", "auth", "hdr", "discard", "path", "open",
                        "write", "ack", "exit", "dead"}]
  /\ h \in [Epochs -> Headers]
  /\ path \in [Epochs -> Paths \cup {Junk}]
  /\ left \in [Epochs -> Nat]
  /\ pos \in [Epochs -> Nat] /\ got \in [Epochs -> Nat]
  /\ buf \in [Epochs -> Seq(Units)]
  /\ seen \in [Epochs -> SUBSET {"cmd", "data"}]

TypeDisk ==
  /\ files \in [Paths \cup {Junk} -> FileStates]
  /\ delivered \subseteq Clients \cup {None}
  /\ breaks \in 0..MaxBreaks

TypeOK == TypeClients /\ TypeDaemon /\ TypeNet /\ TypeThreads /\ TypeDisk

(***************************************************************************)
(* The daemon has started (init, authenticate): its first pair is open and *)
(* authenticated.  file_attrs and the header buffer are uninitialised.     *)
(***************************************************************************)
Init ==
  /\ job \in [Clients -> Jobs]
  /\ sent = [c \in Clients |-> 0]
  /\ result = [c \in Clients |-> "none"]
  /\ inbox = [c \in Clients |-> "none"]
  /\ backlog = <<>>
  /\ pc = "top" /\ cur = None /\ closed = {}
  /\ src = None /\ dst = None /\ hdr = NoHeader
  /\ discard = 0 /\ resend = FALSE
  /\ off = 0 /\ cnt = 0 /\ tot = 0
  /\ epoch = 1
  /\ link = [e \in Epochs |-> IF e = 1 THEN "up" ELSE "none"]
  /\ up = [e \in Epochs |-> <<>>]
  /\ down = [e \in Epochs |-> <<>>]
  /\ data = [e \in Epochs |-> <<>>]
  /\ rd = [e \in Epochs |-> 0]
  /\ st = [e \in Epochs |-> IF e = 1 THEN "hdr" ELSE "none"]
  /\ h = [e \in Epochs |-> NoHeader]
  /\ path = [e \in Epochs |-> Junk]
  /\ left = [e \in Epochs |-> 0]
  /\ pos = [e \in Epochs |-> 0] /\ got = [e \in Epochs |-> 0]
  /\ buf = [e \in Epochs |-> <<>>]
  /\ seen = [e \in Epochs |-> {}]
  /\ files = [p \in Paths \cup {Junk} |-> Absent]
  /\ breaks = 0
  /\ delivered = {}
=============================================================================
