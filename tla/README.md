# Verification of llncp

TLA+ models of llncp, a small C program that copies single files to a server
over a connection that stays open between copies, with the TLC runs that check
them and the theorems TLAPS proves about them. Paths below are relative to the
repository root (`src/` in `PROJECT.json`).

## 1. Inventory

llncp is three programs and a little library.

| Part | Source | State | Operations |
|---|---|---|---|
| **command** `llncp` | `client.c` | one socket to the daemon | connect, send the lengths, the source and the destination (three sends), wait for one message; on Ctrl-C send `FORCED_SOCKET_CLOSED` and exit |
| **client daemon** `llncp-clientd` | `client_daemon.c` | the sockets (command, data, server, client), `file_attrs`, `dest_file_attrs` with its `discard`, the header buffer, `file_resend_needed` | accept a command, load its request, stat and open the source, send header, path and bytes, take the answer, pass it on; reconnect and resend |
| **server thread** of `llncp-server` | `server.c`, `thr_func` | the sockets, `dest_file_attrs`, `client->file_path`, the open `FILE` | authenticate; per request: header, discard, path, `fopen` or `mkdir`, write, acknowledge |
| **accept loop** of `llncp-server` | `server.c`, `accept_connection` | the list of unpaired connections (`head`), its message buffer | accept, read a token, pair with an equal token, start a thread |
| **connecting** in the daemon | `client_daemon.c`, `init`, `client_connect`, `restart_connection`, `authenticate` | `command_socket`, `data_socket`, the token | two connects, each with the token; the password; again after every failure |
| **client list** of `llncp-server` | `server.c`, `main`, `dealloc`, `signal_handler` | `last_client`, `next`, `before` | append, unlink, walk and free |
| **primitives** | `libs/libllncp.c` | none | `recv_bytes`, `send_bytes`, `send_path`, `load_path`, `send_message`, `receive_message` |
| **exceptions** | `libs/try_throw_catch.h` | one global `jmp_buf` | `TRY`/`THROW`/`CATCH` as `setjmp`/`longjmp` into a `switch` |

### How the parts interact

A command and the daemon talk over a Unix socket; the daemon serves one command
at a time. Daemon and server share a *pair* of TCP connections:

* the **command connection** carries one header per request to the server
  (`command`, `path_len`, `data_len`, `discard`) and one message per request
  back (`ACK_OK`, `ACK_ERROR` or `FORCED_SOCKET_CLOSED`);
* the **data connection** carries paths and file bytes, back to back, with
  nothing between one request and the next.

So both ends must always agree on how many bytes of the data connection belong
to which request. The server can refuse a file (`fopen` or `mkdir` fails) while
its bytes are being sent. The daemon finds out at any byte of the transfer,
stops, and remembers in `dest_file_attrs.discard` how many bytes it had sent;
the next header tells the server to throw those away.

When the pair breaks, the daemon closes it, opens a new one, authenticates and
sends the request again from the buffers the broken attempt left behind. The
server starts a new thread for the new pair; the old thread lives until it
notices, and shares the disk with the new one.

### What is hard

* **Staying in step**: `discard` is state from an earlier request, reset in
  `send_data`, set in two places, left alone by directories and by a resend.
* **Exceptions**: each CATCH closes sockets and sets flags, and two of them
  call functions that throw again.
* **Reconnecting**: what is in flight is lost in both directions, what was
  already done is done again, the old thread may still act.
* **Errors in unsigned variables**: `recv` and `send` returning -1.
* **Blocking**: two processes, two connections, bounded buffers.

The hazards are listed with their lines in `PROJECT.json`, with the properties
that watch them, and a note where none does.

### What makes each part correct

| Part | Property |
|---|---|
| server thread and daemon together | a header is served with the path that was sent for it (`Aligned`); only useless bytes are discarded (`OnlyUselessDiscarded`); the chunks the loops take, whole ones and a remainder, are exactly the bytes of the file (`NoOverrun`) |
| daemon | an answer belongs to the request it is sending (`NoStrayAnswer`); what it sends again is the interrupted request (`ResendsCurrent`) |
| whole system | `ACK_OK` means done (`AckTruthful`), `ACK_ERROR` means not done (`RefusedNotDelivered`), an acknowledged file is on the disk (`IntactWhileAcked`), every command ends (`EveryClientAnswered`), and all together it is the service a user expects (`ImplementsCopyService`) |
| accept loop | the two connections of a pair come from one attempt of one daemon, command connection first (`PairsMatch`); no token stays behind (`NothingStale`) or is listed twice (`TokensListedOnce`); a descriptor has one user (`OneUser`); nobody is served without the password (`OnlyWithPassword`); no living connection is forgotten (`SocketsKnown`); every daemon is paired (`EveryDaemonPaired`) |
| client list | it holds exactly the living threads, linked both ways (`ListsTheLiving`), and changes one element at a time (`ChangesLikeARoster`); no freed element is used (`NoMisuse`); `signal_handler` ends (`HandlerExits`) and leaves nothing open (`NothingLeftOpen`); an element is freed by its owner, after its sockets were closed (`ClosedBeforeFreed`) |
| primitives | what is received is what was sent, however it is divided (`AsSent`); the end is reported only at the end (`ClosedWhenGone`); every send loop ends (`EverySendEnds`) and what is sent arrives (`EverythingArrives`) |

## 2. The modules

| Module | Models |
|---|---|
| `TransferState` | constants and their assumption, all variables of the three programs, types, `Init` |
| `Command` | `client.c` |
| `Daemon` | `client_daemon.c`: `main` and what it calls |
| `ServerThread` | `server.c`: `thr_func` and what it calls, one instance per pair |
| `Transfer` | the composition with the network's faults, `Spec`, fairness, the properties |
| `CopyService` | what a user is promised; `Transfer` implements it |
| `Pairing` | how the two connections of each of several daemons become a pair: `init`, `client_connect`, `restart_connection`, both `authenticate`, `accept_connection`, the end of `thr_func` |
| `ClientList` | `server.c`: the list in `main`, `dealloc`, `signal_handler`, pointer by pointer |
| `Roster` | what the list promises; `ClientList` implements it |
| `Framing` | `libs/libllncp.c` and `send_bytes_check_message`: messages, chunks and paths over partial transfers |
| `MCTransfer`, `MCPairing`, `MCClientList`, `MCFraming` | finite instances for TLC |
| `TransferProofs`, `ResendProofs`, `AlignmentProofs` | proofs about `Transfer` |
| `PairingProofs`, `PairingSafety`, `PairingOrder` | proofs about `Pairing` |
| `ClientListProofs` | proofs about `ClientList` |
| `FramingProofs` | proofs about `Framing` |

`Transfer` takes pairs as given, one after another, for one daemon; `Pairing`
says when that is justified (pairs match unless a failure meets a half-made
one), with requests abstracted to "the daemon is up". In the same way `Transfer`
takes a message, a header and a path as arriving whole or not at all, and
`Framing` says when that is so. Nothing else connects them: in the code these
three layers share no state but the sockets.

### `Transfer`

The three programs share their variables (a message one sends is a message
another receives), so the state has a module of its own and each program's
module holds its actions; a bound variable or an argument selects the client
`c` or the pair `e`.

* `pc` is where `main` of the daemon is: `top` (accept or resend), `attrs`,
  `source`, `dest` (loading), `stat`, `open`, `path`, `data`, `await` (sending),
  `connect`, `auth` (`restart_connection`). `cur` is the client behind
  `client_socket`; `closed` the clients whose `client_socket` was closed.
* `src`, `dst` and `hdr` are `file_attrs.source`, `.destination` and
  `dest_file_attrs_buffer`. They name the client they were loaded for, because
  a resend uses them as they are; `None` is content nobody sent.
* `off`, `cnt` and `tot` are the start of the chunk, `sent_bytes` and
  `totall_sent_bytes`. The loops of `send_data`, `write_data` and `discard_data`
  divide a length by `BUFFERSIZE`: `ChunkAt` is the chunk the loop counter is at,
  a whole one below the quotient, the remainder after it, and `MoreChunks` says
  whether the loop and the `if` behind it take another one.
* Each pair of connections is an *epoch*. `up[e]` and `down[e]` are the command
  connection's two directions, `data[e]` all that was ever sent on the data
  connection and `rd[e]` how much of it the server has read, so what lies in
  between is in flight. A path is one unit, a byte is one unit, and every unit
  carries the client it belongs to. The code does not see that; the properties
  do.
* `st[e]` is where `thr_func` is; `h`, `path`, `left`, `pos`, `got` are its
  `dest_file_attrs`, `client->file_path` and loop positions. `buf` is what stdio
  keeps until `fclose`; an incomplete last chunk is kept, a whole one written.
* `seen[e]` records on which connections `recv` has already returned -1.
* `THROW` is the update of the CATCH it lands in: `CatchForced`, `CatchClosed`,
  `CloseClient`. A THROW from inside a CATCH (`client_connect` and
  `authenticate` called by `restart_connection`) is an action of its own at
  `connect` or `auth`, since the program is no longer inside the TRY.
* `delivered` is a history variable: the clients whose request some thread
  carried out. No action reads it.

One action is one system call's worth of work: a send, a recv, an open. That is
where the programs can interleave. A byte more or less in a kernel buffer
matters to `select`, so bytes are sent and received one by one up to `Capacity`
in flight.

Uninitialised memory is a choice. `stat64` failing leaves `st_buf` unset, so the
request goes out as a file or as a directory (of length 0; other lengths are not
explored). A path buffer overwritten by a `FORCED_SOCKET_CLOSED` message may or
may not be usable. The first header before any request is `NoHeader`.

`CopyService` knows three things of each client: whether its request is
complete, whether it was carried out, and what it was told. The refinement reads
them from `sent[c]`, `delivered` and `result`. Its `Deny` is what makes it more
than `AckTruthful` and `RefusedNotDelivered`: a request that was refused is not
carried out later either, and nobody is told twice. `Repeats` says whether a
request may be carried out and then denied; that is so only where connections
break (a repeated `mkdir` meets the directory it has made).

### `Pairing`

* `pc[d]` is where daemon `d` is: `cmd` and `data` (the two `connect`s), `token`
  (the rest of `client_connect`), `check` (both connected?), `auth`, `up` (in
  `main`'s loop), `gone`. `fresh[d]` holds until the first authentication: a
  failure before that ends the daemon, since `init` returns -1 or a `THROW` has
  no TRY to go to.
* A connection is a number with an owner and a purpose (`By`, `As`), which the
  code does not see. `side[c]` is the daemon's end, `said[c]` the last thing said
  on it and not yet overtaken, `answer[c]` authenticate's answer. It may be used
  again when the daemon has closed it and the server no longer holds it: that is
  what happens to descriptors.
* `queue`, `asked`, `message`, `head`/`heard` are `accept_connection`: connections
  the kernel holds, the one whose token is awaited, the message buffer, and the
  list with its tokens. The result of `receive_message` is not looked at, so a
  connection that ends before its token is handled with whatever the buffer
  holds (`Heard`).
* `mate` and `thr` are the pairs and their threads. The thread's own work is one
  state, `serve`; when it ends, `dealloc` frees both connections.
* `TAuthEof`: `authenticate` compares a buffer nobody has written, so the thread
  may go on to serve; `TAuthData` is the thread whose command connection is
  really a data connection.
* `breaks` counts failures; `torn` says whether they may meet a daemon that has
  made one of its two connections. Equal tokens are a case of `TokenDraws`:
  `srand(time(NULL))` gives daemons started in the same second the same token.

### `ClientList`

Every access to the shared list is an action: `last_client->next = client` and
`last_client = client` are two, and so are the two assignments of `dealloc`'s
branches. A client's address is a cell of the heap, which `malloc` may return
again; `misuse` records that somebody used a cell that is free, or `NULL`. What
is left in a freed cell is taken to be `NULL`; the properties say nothing of what
follows a misuse, so this loses nothing. `signal_handler` runs in `main`'s thread
(the kernel prefers it for a signal sent to the process): it interrupts `main`
between any two accesses, and `main` never goes on. `overlap` and `middle` are
inputs: whether operations of different threads may overlap, the handler's
included, and whether a thread in the middle of the list may end. The code has no
lock, and `dealloc`'s middle branch is wrong: `ClosedBeforeFreed` holds all the
same, the other properties only where neither happens. They are stated without
such a condition; the run `clients` and the hypothesis `InTurn` of the theorems
say where they hold.

### `Framing`

One direction of one connection, with one sender and one receiver. `kind` is
what it carries: messages (`send_message`, `receive_message`), chunks of a known
length (`send_bytes_check_message`, `recv_bytes`) or what `send_bytes` sends.
A byte knows which piece it is of and where in it; buffers hold bytes, so that a
mixed-up, lost or doubled byte is seen. `received` and `sent` are `unsigned long
long` and count modulo `SizeMod`; the length of a message is one byte and counts
modulo `ByteMod`. `send` and `recv` take any number of bytes. `send` returns -1
once the peer is known to be gone (`dead`); `recv` returns -1 once for a
connection that was reset (`link = "rst"`), then 0. Neither -1 is recognised by
`recv_bytes` (`n < 0` of an unsigned) nor by `send_bytes_check_message` (`n <
1`); `send_bytes` does recognise it (`n == -1`). Each is modelled as written.

## 3. The runs

| Run | Module, bounds | Faults | Shows |
|---|---|---|---|
| `refusals` | `MCTransfer`; 3 clients; files of 0, 2 and 3 bytes | refusals at any moment | discarding keeps the connections in step over three requests (one refused, one that carries the discard, one after it); answers are true; every command ends; `CopyService` without repeats |
| `recovery` | `MCTransfer`; 2 clients; files of 3 bytes, directories | a break or a crash at any step, Ctrl-C after the request | in step, truthful, the right request resent, with the old thread still running; every command ends; `CopyService` with repeats |
| `faults` | `MCTransfer`; 2 clients | everything at once | types; the chunks of every loop cover exactly the length it was given, resets and errors included; it takes every action and branch of the model |
| `pairing` | `MCPairing`; 2 daemons, 6 connections each | breaks, kills, crashes and restarts; equal tokens; a wrong password; half-made pairs | all properties of `Pairing` |
| `clients` | `MCClientList`; 3 cells | a signal wherever `main` is, while no thread is in `dealloc` | the list is that of the living clients, no freed element is used, `signal_handler` ends and leaves nothing open but a client not yet in the list; `Roster` |
| `disorder` | `MCClientList`; 3 cells | operations overlap up to the first misuse, middle threads end, a signal at any moment | types; elements are freed by their owners, after their sockets were closed |
| `framing` | `MCFraming`; 3 pieces | the connection ends or fails at any byte | all properties of `Framing` |

**Bounds of the transfer runs.** `BUFFERSIZE = 2` makes a 3-byte file one whole
chunk and a remainder, a 2-byte file exactly one chunk and a 1-byte file a
remainder only. `Capacity` is smaller than the largest file, so that the daemon
really is in the middle of sending when an answer comes. Two or three clients
suffice, because the daemon serves one after another and all it carries over is
in `discard`, `src`, `dst`, `hdr`, `resend` and the two connections: the hazards
need a request that leaves something behind, one that uses it, and one that shows
the damage. `MaxEpoch` bounds the pairs. One break and two interruptible clients
need at most 5 (the first, one per break, one per client given up, and one more
because giving a client up can itself break); `recovery` checks for deadlock, and
a daemon stopped at `connect` by the bound would be one, so the bound is never met
there. A request without bytes after its path is a directory in `recovery` and an
empty file in `refusals`. `faults` does meet its bound of 2 and checks
only what must hold in every state before that. `MaxBreaks` bounds failures: one
break at every step of a request already includes the break during
authentication of the pair opened after a Ctrl-C. Clients are symmetric; the
symmetry is used only in `faults` (and that of cells in `disorder`), which check
invariants.

**Bounds of `pairing`.** Two daemons are what it takes to mix pairs up, and to
have equal tokens; three attempts of each (6 connections) let descriptors be used
again. `MaxBreaks = 2` allows two failures of completed pairs, so that a daemon
reconnects twice, and a second failure meets the reconnect of the first;
`MaxTorn = 1` allows one that meets a half-made pair, which is enough to leave a
token behind. With equal tokens no failure is needed to go wrong, and none is
allowed (`Limit`). `TokensListedOnce`, `OneUser` and `OnlyWithPassword` are
checked in all of these cases, `SocketsKnown` unless a failure meets a half-made
pair, the others under `Tidy` (in addition, tokens are different).

**Bounds of `clients` and `disorder`.** Three cells give an oldest, a middle and a
newest element, and a fourth client uses a freed cell again.

**Bounds of `framing`.** A byte holds 0..7, so the longest message is 7 bytes;
texts are empty, of one character and of the longest that fits; chunks are 1, 3
and 4 bytes and `Capacity` is 3, so that a chunk may need several sends, two
chunks may lie in one buffer, and a `recv` may get any part. Three pieces let a
fault in one show in the next and the one after. Sizes count modulo 16, so that
-1 and the largest chunk differ. `FramingProofs` removes these bounds for the
safety properties.

**Deadlock.** `faults` does not check for deadlock, because the system can really
come to rest: a read error or a blocking send leaves daemon and server waiting
for each other. Nor do `pairing` (a server that is down stays down, daemons
exit), `clients` and `disorder` (`signal_handler` exits) and `framing` (everything is sent, or
the receiver waits for ever on a connection that lasts).

Runs that pass leave out what the violation runs and the table below show to be
broken, and nothing else: `recovery` has `MayRefuse = {}`, since a refusal before
a break is the discard printed in the resent header; interrupts come after the
whole request (`InterruptAt = {4}`), since an earlier one makes the daemon resend
the previous request; files of `refusals` are files, since a directory after a
refusal is `mkdir_keeps_discard`.

### Violation runs

Each checks one property that a comment or the documentation states, on the
smallest instance that shows it; the quotations are in `PROJECT.json`.

| Run | What happens |
|---|---|
| `mkdir_keeps_discard` | a directory after a refused file carries `discard` and does not reset it; the next request's bytes are discarded too |
| `blocked_after_recovery` | the data socket is non-blocking only in the first pair: daemon and server wait for each other |
| `old_thread_empties_file` | the old pair's thread reopens the file with `"wb"` after it was acknowledged |
| `stale_token` | the connect of the command connection fails, that of the data connection succeeds; the daemon makes both again and forgets the open one, whose token is listed; its next command connection is paired behind that one, as data connection. The daemon waits for an answer to its password, the thread for a password on the forgotten connection, both for ever |
| `middle_thread` | a thread in the middle of the list ends; its newer neighbour keeps pointing to the freed element, which `last_client` reaches in the end |

The same models show more. Each row can be seen by changing a run as named; they
have no run of their own because each is a variant of a mechanism above, or
because nothing in the repository says what should happen instead.

| Where | Run and change | Property | What happens |
|---|---|---|---|
| `client_daemon.c:694` | `refusals`: `Jobs <- TwoFilesJobs`, two clients, `MaxEpoch = 2`, `MaxBreaks = 1` | `OnlyUselessDiscarded` | the resent header still has the old discard printed in it; the new thread discards the path |
| `client_daemon.c:700` | the same with three clients, `MaxBreaks = 0`, `InterruptAt = {2, 3}` | `OnlyUselessDiscarded` | `CATCH(FORCED_SOCKET_CLOSED)` does not reset `discard` for the new pair |
| `client_daemon.c:250` | `recovery`: `Jobs <- TwoFilesJobs`, `MaxEpoch = 2`, `MaxBreaks = 0`, `InterruptAt = {1}` | `ResendsCurrent` | a client gone before its lengths are read is taken for a closed server: the previous request is sent again |
| `client_daemon.c:702` | `recovery`: `Jobs <- OneFileJobs`, `MaxEpoch = 3` | "`pc = "top" /\ resend` only if `cur \notin closed`" | `authenticate` throws inside `CATCH(FORCED_SOCKET_CLOSED)`; the request that was given up is sent again |
| `libllncp.c:49` | `recovery`: `Jobs <- OneFileJobs`, `Resets = TRUE` | `Aligned` | `recv`'s -1 in an unsigned variable: a path that was never received is opened. In `Framing` this is the exception in `AsSent` |
| `client_daemon.c:38` | `refusals`: `Jobs <- BigFileJobs`, `MayRefuse = {}`, `ReadErrors = TRUE` | `Aligned` | a read error leaves the server in the middle of a file; the next request's path is taken for data |
| `server.c:404` | `recovery` | `RefusedNotDelivered` | a lost `ACK_OK` makes the daemon repeat a mkdir, which fails: `ACK_ERROR` for a directory that was made |
| `client_daemon.c:294` | `faults`: only sources that are missing, `MaxBreaks = 0` | `RefusedNotDelivered` | no `return` after the failed stat: refused, and sent nevertheless |
| `server.c:394` | `refusals`: `DiskErrors = TRUE` | `IntactWhileAcked` | `fclose` cannot write the last bytes, `ACK_OK` is sent |
| `server.c:567` | `clients`: `Overlaps = {TRUE}` | `ListsTheLiving`, `NoMisuse`, `NothingLeftOpen` | `main` appends while a thread unlinks itself: the list loses a client or keeps a freed one; the handler meets a thread in `dealloc` |
| `server.c:175` | `clients`: `Middles = {TRUE}` | the same | what `middle_thread` leaves behind is used: by the next thread that ends, and by `signal_handler` |
| `client_daemon.c:467` | `pairing`: one token for both daemons | `AlwaysRecovers` | connections of two daemons are paired with each other; one is left waiting in `authenticate` |

### Fairness

`Transfer`: `Daemon` is one process that runs whenever it can; the threads
`SrvThread(e)` and the commands that run are scheduled by the kernel. These get
weak fairness. Nothing else does: users need not start a command or press
Ctrl-C, faults need not happen, and a thread need not find out that its
connection is dead (`SrvEnding` is not fair: half-open connections are item 2 of
`TODO`). Refused connects are retried for ever (`sleep(3)`); the model's
`connect` step is the one that succeeds, which assumes that a server is reachable
again.

`Pairing`: each daemon that connects, the accept loop and the threads that have
something to receive are fair. Nobody starts a server again by himself, so the
liveness properties assume `<>[]alive`.

`ClientList`: the handler that has begun goes on. Clients need not come, threads
need not end and signals need not come.

`Framing`: sender and receiver are fair, the network is not, and need not fail.

## 4. What is proved

Each proof module states an inductive invariant and proves three facts: `Init`
implies it, every step keeps it (one lemma per action or group of actions), and
it implies the property. TLC checked each of these invariants on the runs'
instances before it was proved. The theorems hold for every value of the
constants that the module's assumption, and the hypotheses a theorem states,
allow. Every safety property, action property and refinement that a passing run
checks is proved.

### `Transfer`

For any number of clients, any jobs, buffer sizes, numbers of pairs and faults,
from `TransferAssumption` alone (`None` is not a client, `Junk` not a path,
lengths and bounds are naturals of the expected sign):

* `TypeCorrect`: `Spec => []TypeOK`, and `NothingOverrun`: `Spec => []NoOverrun`.
  Neither is inductive alone: lengths stay natural because the loops stop in
  time, and the loops stop in time because the positions are of their types. The
  invariant is `Typed == TypeOK /\ NoOverrun`; one lemma per component shows that
  its actions keep it (`CommandTyped`, `DaemonTyped`, `ServerTyped`,
  `FaultTyped`), and `NextTyped` puts them together. The loops divide as
  the code does; the lemmas `Division`, `Multiples`, `Chunks`, `LastByte`,
  `DaemonChunk`, `ThreadChunk` and `DiscardByte` show that n / `BUFFERSIZE` whole
  chunks and n % `BUFFERSIZE` bytes are n bytes, so that `send_data`, `write_data`
  and `discard_data` take neither more nor less than they were told, for every
  length and every `BUFFERSIZE`, resets included.
* `ResendsTheRequest`: under `Undisturbed` (interrupts only after the request
  was sent, sources exist), `Spec => ResendsCurrent`. The invariant `Whole` says
  that from `create_dest_file_attrs` on all the daemon holds belongs to the
  client behind `client_socket`, and that a command that has ended, or was
  closed, had sent its whole request, which is what keeps
  `CATCH(SOCKET_CLOSED)` out of the loading phase.

`AlignmentProofs` proves what the runs `refusals` and `recovery` check, under the
hypotheses that describe those runs, for any number of clients, pairs and
failures and any lengths:

| Hypothesis | Says | Why |
|---|---|---|
| `Regular` | `Undisturbed`, no read errors, and `NothingBreaks` or `NothingRefused` | each of its parts excludes a row of the table in section 3 in which the code loses step |
| `NothingBreaks` | no failures, no interrupts, files only; anything may be refused at any time | a refusal before a reconnect leaves a discard printed in the header; a directory does not reset it |
| `NothingRefused` | any number of breaks and crashes at any step, no resets, every file can be created | the same; a reset makes a path that was not received be opened |
| `Steady` | `NothingRefused` and the disk takes what is written | a failed write is answered with `ACK_ERROR` and may succeed when it is repeated |
| `Served` | `NothingBreaks`, or `Steady` with `MaxBreaks > 0` | `CopyService` allows repeats exactly if `MaxBreaks > 0` |

* `ConnectionsAligned` (`Aligned`), `AcksTrue` (`AckTruthful`), `NoAnswerLeft`
  (`NoStrayAnswer`) and `DiscardsTheUseless` (`OnlyUselessDiscarded`), under
  `Regular`. None of these is inductive, since the connections carry nothing that
  says which byte belongs to whom. The invariant `Aligning` supplies it:
  * `Framed`, for every pair, old ones included: if the thread is at work on a
    header `req`, there is a position `at` in the data connection that is where
    the thread will find the path (`Serving`, which depends on the thread's
    stage: so many bytes to discard, so many written), and from there on come
    `req`'s path and `req`'s bytes and nothing else (`Layout`).
  * `InStep`, for the open pair: while the daemon loads a request the thread is
    idle and exactly `discard` bytes of closed clients are unread; while it sends,
    the thread is behind with this request at the position the daemon counts
    (`Behind`), or has refused it with everything sent so far unread
    (`Refusing`), or has finished (`Finished`), or is giving up (`GivenUp`).
  * `Counts`, `Discards` and `Answers`: the daemon's positions, `discard` against
    the header, and that at most one answer is on its way.
  * `Unopened`, `DirsAskedFor`, `Queue`, `Told`: later pairs are untouched, a
    directory was asked for, a client is accepted once, messages pass unchanged.
  * `Unbroken`, where nothing breaks: pairs end only because a thread gave up.
* `RefusalsTrue` (`RefusedNotDelivered`), where nothing breaks, by `Refusals`: a
  client whose request was carried out has its `ACK_OK` before it, and only the
  current one waits for it. With breaks the property is false (`server.c:404` in
  the table).
* `CopyServiceImplemented` (`ImplementsCopyService`), under `Served`: each action
  is a step of `CopyService` or a stutter. A server's step that adds to
  `delivered` is `CarryOut`, whose guard "not denied" follows from `Refusals` where
  nothing breaks. With breaks it needs `Denials`: whoever was told `ACK_ERROR` has a
  request that fails whenever it is tried (`Deniable`), because its path is bad or
  something lies where its directory should be, and nothing ever disappears from
  the disk (`FilesRemain`).
* `CopiesIntact` (`IntactWhileAcked`), where nothing breaks and the disk works, by
  `Copies`: a file being written holds the bytes written so far but for those
  `buf` keeps, `buf` holds just these, and only the last chunk is ever kept.
  `WriteAtEnd` says what writing at the end of a file yields; `Incoming`, from
  `Framed`, that what is written are the current client's bytes. With breaks
  the property is false (`old_thread_empties_file`), with a failing disk also
  (`server.c:394`).

### `Pairing`

For any number of daemons and connections, any tokens, passwords and numbers of
failures, from `PairingAssumption` (every connection has one owner and one
purpose, `NoConn` and `Noise` are neither connections nor tokens):

* `PairingTyped`: `Spec => []TypeOK`.
* `TokensOnce`, `DescriptorsOnce`, `ServedWithPassword`: the invariant is
  `Safe`. `OneUser` needs `ThreadsPaired` (a thread exists exactly for a pair),
  since a thread's end frees what its pair holds. `OnlyWithPassword` needs
  `Owned` and `Unsaid`: what is said on a connection was said by the daemon that
  made it, and nothing was said on it before, also when its number is used
  again. No assumption on failures or tokens is made.
* `PairsAlwaysMatch`, `NothingLeftListed`: here tokens must differ and no failure
  may meet a half-made pair, so the invariant is `OrderlyIfTidy == Tidy =>
  Orderly`, proved on top of `Safe`. `Stages` says what sockets a daemon has at
  each point of an attempt, `Kept` which is which. `WaitsForIts` and `Together`
  tie the server's side to it: whatever waits there belongs to an attempt that
  goes on, and both connections of it wait or neither. `InOrder` is why the
  command connection becomes the command connection: it is before the data
  connection in the queue, asked, or listed. `HeardRight` makes the search
  for a token find the right one, `NotYet` keeps a connection from being
  paired before it has said its token. `Matched` is `PairsMatch` with the
  owner's sockets added: without them a pair's two ends could be replaced one by
  one.
* `NoneForgotten`: `Spec => []SocketsKnown`, equal tokens included. The invariant is
  `KnownIfWhole`: `Stages`, which also says that the two connects of an attempt
  fail both or neither, and `Known`, that every open end is one of its daemon's
  sockets. `Stages` is where "no failure meets a half-made pair" is used; without
  it the loop of `restart_connection` forgets the connection that was made, and
  `stale_token` shows what follows.

### `Framing`

For every width, number and length of pieces and every capacity, from
`FramingAssumption` (messages fit into their buffer, a chunk's length is below
2^64 - 1, a byte is not wider than a size):

* `FramesTyped`, `ReceivedAsSent`, `EndAtTheEnd`: `Spec => []TypeOK`,
  `Spec => []AsSent`, `Spec => []ClosedWhenGone`. The invariant is `Sound`.
  `InARow` describes the bytes in flight without induction: any two of them that
  can belong to one piece are as far apart as their places in it, and behind a
  last byte comes a first one. `Connects` says that the first byte in flight is
  the next one the receiver needs and that the last is just before the next one
  to be sent. `Expects` says that the receiver has asked for the length of what
  comes and has filled in the beginning of it. All of this holds until `recv`
  has failed; a failure counts as -1, that is as the end of the call at
  the beginning of it and as one byte too few later, and what then remains is
  that nothing is in flight and all pieces but the last are right (`Spoilt`). The
  lemma `Lengths` shows why the assumption is needed: a message's length byte,
  which counts itself and the flag, must not wrap.

### `ClientList`

For any number of cells, from the module's assumption:

* `ListTyped`: `Spec => []TypeOK`, and `OwnElements`: `Spec => []ClosedBeforeFreed`,
  overlapping operations and middle threads included. The invariant `Owners` adds
  that what `main` has in hand is allocated and nobody's yet, and that what a
  thread or the handler is about to free has its sockets closed.

The others have the hypothesis `InTurn`: only runs without overlapping operations
and without the end of a middle thread are considered. Both exclude what really
goes wrong (the table in section 3), so these theorems say that the list is right
where only the unlocked overlap and the middle branch are not at work; `main` may
be interrupted anywhere in them.

* `ListHoldsTheLiving`, `NobodyUsesFreedClients`, `ExitLeavesNothingOpen`
  (`ListsTheLiving`, `NoMisuse`, `NothingLeftOpen`): the invariant is `CalmInv`. It
  says that the elements are a sequence of distinct cells, found from the newest
  on along one pointer (`Chain`), and of each stage of each operation what is not
  yet done there: a client created but not linked, linked but not yet the last, a
  neighbour unlinked on one side, `signal_handler` behind the element it is about
  to free. The properties follow for the stages in which no operation is under
  way. `InHand` is what `main` holds and the handler does not find.
* `ListImplementsRoster`: `Spec => ChangesLikeARoster`. Each assignment leaves the
  list as it is, puts an element in front or takes one out (`WalkAfter` and the
  lemmas on chains); an operation's other assignments are stutters.

`Walk` follows the pointers by a recursive function. `WalkIsTheChain` shows that it
finds a chain and nothing else, by the least place at which it could go wrong
(`LeastNumber`, from `NatLessThanWellFounded`).

### Only model-checked

The liveness properties, which need fairness and `ENABLED`, are out of this
prover's reach: `EveryClientAnswered`, `EveryDaemonPaired`, `HandlerExits`,
`EverySendEnds`, `EverythingArrives`. So are the properties of the violation runs,
which do not hold. Induction is available only where it can be put in terms of a
set (a least counterexample, as in `LeastNumber`), not through the library's
theorems that take an operator; the proofs about `Framing` and `Transfer`
describe sequences by their positions instead, so that they need none.

## 5. What is not modelled

* Startup, options, `daemonize`, `bind` and `listen`, log files: straight-line
  set-up without state that later steps depend on. `makefile` and binaries.
* `utlist.h` beyond the three macros that are used; those are the operations on
  a set they implement. That the list's order does not matter is
  `TokensListedOnce`.
* `longjmp` itself: each `THROW` is the update of the `CATCH` it reaches.
* Messages whose text does not fit into `send_message`'s buffer: excluded by
  `FramingAssumption`.
* `EWOULDBLOCK` from `send` in `send_bytes_check_message`: a socket that `select`
  has found writable takes at least a byte. The code would not cope with it: `n` is
  unsigned, so `n < 1` (line 350) is false for -1, and -1 is added to `sent_bytes`
  (line 357), as after any other failure.
* In `Daemon`: the `FILE_ERROR` of `load_path` for a path longer than `PATH_MAX`; the
  `SOCKET_CLOSED` of `receive_message_wrapper` at the end of the command connection
  while sending (there the daemon goes by way of `DSendDead` or `DAwait`); that
  `totall_sent_bytes` goes back by one for every failed `send` (`discard` is not set
  from it on that path); the reset that `close` sends if something is unread.
* In `Transfer`, one of the two connects failing: its step `DConnect` is the attempt
  at which both succeed. `Pairing` has the other case.
* A second signal while `signal_handler` runs, and a signal taken by another thread
  than `main`'s, other than as overlapping operations.
* Sources that change while they are sent; several daemons writing to the same
  path; `chroot`; other `errno` values than "cannot create".
* A silent loss (no FIN, no RST ever arrives): nothing is detected, and nobody
  promises anything. The two connections of a pair break together in `Transfer`,
  one by one in `Pairing`.
* `Transfer` takes a message, a header and a path as arriving whole or not at
  all. `Framing` justifies it for connections whose `recv` does not fail; what a
  failing `recv` does to the programs is in `Transfer` again (`Resets`). A path
  longer than one chunk of `send_path` is not distinguished from a shorter one.
* Real `BUFFERSIZE`, `PATH_MAX` and file sizes: TLC uses small ones, the proofs
  none.

## 6. What is left

1. A hypothesis weaker than `Regular`, with breaks and refusals in the same
   behaviour: the code should survive both as long as no reconnect falls between a
   refusal and the end of the next request.
2. `IntactWhileAcked` with breaks for clients whose request was carried out once:
   the old thread can only harm a file that is written again.
3. A composition of `Pairing` with `Transfer` that serves swapped or mixed pairs,
   to say what such a pair does to requests before it is noticed.
