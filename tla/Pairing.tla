------------------------------ MODULE Pairing -------------------------------
(***************************************************************************)
(* How the two connections of a daemon find each other in the server.      *)
(*                                                                         *)
(* A daemon connects twice to the same port and says its token on both     *)
(* connections (client_daemon.c: init, client_connect, restart_connection).*)
(* The server accepts one connection after another and reads its token; a  *)
(* connection whose token is already listed completes a pair, with the     *)
(* listed one as the command connection, any other one is listed (server.c,*)
(* accept_connection).  Every pair gets a thread, which begins with        *)
(* authenticate.                                                           *)
(*                                                                         *)
(* In a "torn" run the server or the network may fail while a daemon has   *)
(* made one of its two connections and not the other.                      *)
(***************************************************************************)
EXTENDS Naturals, Sequences, FiniteSets

CONSTANTS
  Daemons,     \* runs of llncp-clientd
  Wrong,       \* those that may be started with a wrong password
  Tokens,      \* what generate_token yields
  TokenDraws,  \* which daemon has which token: the cases considered
  Torn,        \* the values of "torn" considered
  Conns,       \* connections; a number is used again when both ends are closed
  By, As,      \* who makes it, and for which of his sockets
  NoConn,      \* -1
  Noise,       \* content of a message buffer that nobody has written
  MaxBreaks,   \* bound: failures of the network, of a daemon or of the server,
               \* and pairs a daemon gives up of its own accord
  MaxTorn      \* the same bound in a torn run

Roles == {"cmd", "data"}

ASSUME PairingAssumption ==
  /\ Wrong \subseteq Daemons /\ Daemons # {}
  /\ TokenDraws \subseteq [Daemons -> Tokens] /\ Torn \subseteq BOOLEAN
  /\ NoConn \notin Conns /\ Noise \notin Tokens
  /\ By \in [Conns -> Daemons] /\ As \in [Conns -> Roles]
  /\ MaxBreaks \in Nat /\ MaxTorn \in Nat

VARIABLES
  token, wrong, torn, \* inputs, never changed
  \* client_daemon.c
  pc,          \* where init or restart_connection is
  fresh,       \* still in init, or main has not seen a TRY yet
  sock,        \* client_connect's client_socket
  csock, dsock,\* sockets->command_socket, sockets->data_socket
  \* connections
  side,        \* the daemon's end: "open", "cut" by the network, "closed"
  said,        \* the last thing said to the server
  answer,      \* authenticate's answer
  \* server.c
  alive,       \* the process runs
  queue,       \* connections not yet accepted
  asked,       \* the connection whose token accept_connection waits for
  message,     \* its message buffer
  head, heard, \* the list: connections, and the token of each
  mate,        \* data connection of the pair with this command connection
  thr,         \* where the pair's thread is
  breaks

daemonVars == <<pc, fresh, sock, csock, dsock>>
connVars   == <<side, said, answer>>
listVars   == <<asked, message, head, heard>>
threadVars == <<mate, thr>>
serverVars == <<alive, queue, listVars, threadVars>>
inputs     == <<token, wrong, torn>>
vars == <<inputs, daemonVars, connVars, serverVars, breaks>>

TypeOK ==
  /\ token \in [Daemons -> Tokens] /\ wrong \subseteq Wrong /\ torn \in BOOLEAN
  /\ pc \in [Daemons -> {"off", "token", "check", "auth", "up", "gone"}
                           \cup Roles]
  /\ fresh \in [Daemons -> BOOLEAN]
  /\ sock \in [Daemons -> Conns \cup {NoConn}]
  /\ csock \in [Daemons -> Conns \cup {NoConn}]
  /\ dsock \in [Daemons -> Conns \cup {NoConn}]
  /\ side \in [Conns -> {"open", "cut", "closed"}]
  /\ said \in [Conns -> {"nothing", "token", "password"}]
  /\ answer \in [Conns -> {"none", "ok", "bad"}]
  /\ alive \in BOOLEAN
  /\ queue \in Seq(Conns)
  /\ asked \in Conns \cup {NoConn}
  /\ message \in Tokens \cup {Noise}
  /\ head \subseteq Conns /\ heard \in [Conns -> Tokens \cup {Noise}]
  /\ mate \in [Conns -> Conns \cup {NoConn}]
  /\ thr \in [Conns -> {"none", "auth", "serve"}]
  /\ breaks \in 0..(MaxBreaks + MaxTorn)

Init ==
  /\ token \in TokenDraws /\ wrong \in SUBSET Wrong /\ torn \in Torn
  /\ pc = [d \in Daemons |-> "off"]
  /\ fresh = [d \in Daemons |-> TRUE]
  /\ sock = [d \in Daemons |-> NoConn]
  /\ csock = [d \in Daemons |-> NoConn]
  /\ dsock = [d \in Daemons |-> NoConn]
  /\ side = [c \in Conns |-> "closed"]
  /\ said = [c \in Conns |-> "nothing"]
  /\ answer = [c \in Conns |-> "none"]
  /\ alive = TRUE
  /\ queue = <<>>
  /\ asked = NoConn /\ message = Noise
  /\ head = {} /\ heard = [c \in Conns |-> Noise]
  /\ mate = [c \in Conns |-> NoConn] /\ thr = [c \in Conns |-> "none"]
  /\ breaks = 0

-----------------------------------------------------------------------------
Queued == {queue[i] : i \in 1..Len(queue)}
Pairs  == {c \in Conns : mate[c] # NoConn}

\* Connections of which the server has a descriptor, or its kernel.
Held == Queued \cup ({asked} \ {NoConn}) \cup head \cup Pairs
          \cup {mate[c] : c \in Pairs}

\* The connections that d can make now.
Free(d) == {c \in Conns \ Held : side[c] = "closed" /\ By[c] = d /\ As[c] = pc[d]}

\* What is sent on c arrives.
Reaches(c) == side[c] = "open" /\ c \in Held

\* The daemon has made one connection of a pair, or has failed to.
Midway(d) == pc[d] = "data" \/ (pc[d] = "token" /\ As[sock[d]] = "cmd")

Distinct == \A a, b \in Daemons : token[a] = token[b] => a = b

\* Equal tokens mix up pairs without any failure: none is added.
Limit == CASE ~Distinct -> 0
           [] Distinct /\ torn -> MaxTorn
           [] OTHER -> MaxBreaks

\* Nothing happens to a half-made pair, unless the run is torn.
Undisturbed == torn \/ \A d \in Daemons : ~Midway(d)

-----------------------------------------------------------------------------
(***************************************************************************)
(* The daemon.                                                             *)
(***************************************************************************)
DStart(d) ==
  /\ pc[d] = "off"
  /\ pc' = [pc EXCEPT ![d] = "cmd"]
  /\ UNCHANGED <<inputs, fresh, sock, csock, dsock, connVars, serverVars,
                 breaks>>

\* client_connect: socket and connect.
DConnect(d) ==
  /\ pc[d] \in Roles
  /\ alive /\ Free(d) # {}
  /\ LET c == CHOOSE x \in Free(d) : TRUE
     IN  /\ sock' = [sock EXCEPT ![d] = c]
         /\ side' = [side EXCEPT ![c] = "open"]
         /\ said' = [said EXCEPT ![c] = "nothing"]
         /\ answer' = [answer EXCEPT ![c] = "none"]
         /\ queue' = Append(queue, c)
  /\ pc' = [pc EXCEPT ![d] = "token"]
  /\ UNCHANGED <<inputs, fresh, csock, dsock, alive, listVars, threadVars,
                 breaks>>

\* client_connect has returned c.
Connected(d, role, c) ==
  /\ pc' = [pc EXCEPT ![d] = IF role = "cmd" THEN "data" ELSE "check"]
  /\ csock' = IF role = "cmd" THEN [csock EXCEPT ![d] = c] ELSE csock
  /\ dsock' = IF role = "cmd" THEN dsock ELSE [dsock EXCEPT ![d] = c]
  /\ sock' = [sock EXCEPT ![d] = NoConn]

\* connect fails: the server is down, or a failure of the network.
DRefused(d) ==
  /\ pc[d] \in Roles
  /\ \/ ~alive /\ UNCHANGED breaks
     \/ torn /\ breaks < Limit /\ breaks' = breaks + 1
  /\ Connected(d, pc[d], NoConn)
  /\ UNCHANGED <<inputs, fresh, connVars, serverVars>>

\* close of all connections in S; what is still to be read there is lost.
Close(S) ==
  /\ side' = [c \in Conns |-> IF c \in S THEN "closed" ELSE side[c]]
  /\ answer' = [c \in Conns |-> IF c \in S THEN "none" ELSE answer[c]]

\* The daemon forgets its sockets.
Forget(d) ==
  /\ sock' = [sock EXCEPT ![d] = NoConn]
  /\ csock' = [csock EXCEPT ![d] = NoConn]
  /\ dsock' = [dsock EXCEPT ![d] = NoConn]
  /\ UNCHANGED fresh

\* exit, or the process is killed: all its sockets are closed.
Exit(d) ==
  /\ pc' = [pc EXCEPT ![d] = "gone"]
  /\ Close({c \in Conns : By[c] = d})
  /\ Forget(d)

\* Mutant: of the two old sockets only the command socket is closed.
RestartHalf(d) ==
  /\ pc' = [pc EXCEPT ![d] = "cmd"]
  /\ Close({sock[d], csock[d]})
  /\ Forget(d)

\* restart_connection, up to its first client_connect.  A socket that
\* client_connect had just made has, as a rule, the number of one that was
\* closed before, and is closed under that number.  (In the loop it may leak;
\* its connection is broken all the same.)
Restart(d) ==
  /\ pc' = [pc EXCEPT ![d] = "cmd"]
  /\ Close({sock[d], csock[d], dsock[d]})
  /\ Forget(d)

\* THROW of SOCKET_CLOSED or FORCED_SOCKET_CLOSED: both CATCH parts restart
\* the connection.  In init there is no TRY yet to jump to.
Throw(d) == IF fresh[d] THEN Exit(d) ELSE Restart(d)

\* The end of client_connect: send_message_wrapper of the token.
DToken(d) ==
  /\ pc[d] = "token"
  /\ \/ /\ said' = IF Reaches(sock[d]) THEN [said EXCEPT ![sock[d]] = "token"]
                                       ELSE said
        /\ Connected(d, As[sock[d]], sock[d])
        /\ UNCHANGED <<fresh, side, answer>>
     \/ /\ ~Reaches(sock[d])
        /\ Throw(d)
        /\ UNCHANGED said
  /\ UNCHANGED <<inputs, serverVars, breaks>>

\* Both connected?  If not, init exits; restart_connection connects twice
\* again and closes nothing.
DRetry(d) ==
  /\ pc[d] = "check"
  /\ NoConn \in {csock[d], dsock[d]}
  /\ IF fresh[d] THEN Exit(d)
     ELSE /\ pc' = [pc EXCEPT ![d] = "cmd"]
          /\ UNCHANGED <<fresh, sock, csock, dsock, side, answer>>
  /\ UNCHANGED <<inputs, said, serverVars, breaks>>

\* Mutant: the password goes out on the data connection.
DPasswordOnData(d) ==
  /\ pc[d] = "check"
  /\ NoConn \notin {csock[d], dsock[d]}
  /\ said' = IF Reaches(dsock[d]) THEN [said EXCEPT ![dsock[d]] = "password"]
                                  ELSE said
  /\ pc' = [pc EXCEPT ![d] = "auth"]
  /\ UNCHANGED <<inputs, fresh, sock, csock, dsock, side, answer,
                 serverVars, breaks>>

\* authenticate: the password goes out, whatever becomes of it.
DPassword(d) ==
  /\ pc[d] = "check"
  /\ NoConn \notin {csock[d], dsock[d]}
  /\ said' = IF Reaches(csock[d]) THEN [said EXCEPT ![csock[d]] = "password"]
                                  ELSE said
  /\ pc' = [pc EXCEPT ![d] = "auth"]
  /\ UNCHANGED <<inputs, fresh, sock, csock, dsock, side, answer,
                 serverVars, breaks>>

DAnswered(d) ==
  /\ pc[d] = "auth"
  /\ LET reply == answer[csock[d]]
     IN  \/ /\ reply = "ok"
            /\ pc' = [pc EXCEPT ![d] = "up"]
            /\ fresh' = [fresh EXCEPT ![d] = FALSE]
            /\ UNCHANGED <<sock, csock, dsock, side, answer>>
         \/ reply = "bad" /\ Exit(d)
         \/ reply = "none" /\ ~Reaches(csock[d]) /\ Throw(d)
  /\ UNCHANGED <<inputs, said, serverVars, breaks>>

\* A request fails on a connection that is gone.
DLost(d) ==
  /\ pc[d] = "up"
  /\ ~Reaches(csock[d]) \/ ~Reaches(dsock[d])
  /\ Restart(d)
  /\ UNCHANGED <<inputs, said, serverVars, breaks>>

\* CATCH(FORCED_SOCKET_CLOSED) with the pair in order: a command was
\* interrupted.
DGivesUp(d) ==
  /\ pc[d] = "up"
  /\ breaks < Limit
  /\ breaks' = breaks + 1
  /\ Restart(d)
  /\ UNCHANGED <<inputs, said, serverVars>>

DKilled(d) ==
  /\ pc[d] \notin {"off", "gone"}
  /\ torn \/ pc[d] = "up"
  /\ breaks < Limit
  /\ breaks' = breaks + 1
  /\ Exit(d)
  /\ UNCHANGED <<inputs, said, serverVars>>

-----------------------------------------------------------------------------
(***************************************************************************)
(* The server's main thread: accept_connection.                            *)
(***************************************************************************)
SAccept ==
  /\ alive /\ asked = NoConn
  /\ queue # <<>>
  /\ asked' = Head(queue)
  /\ queue' = Tail(queue)
  /\ UNCHANGED <<inputs, daemonVars, connVars, alive, message, head, heard,
                 threadVars, breaks>>

\* receive_message returns: the token is there, or the connection has ended
\* without one.  The result is not looked at, so that in the second case the
\* buffer keeps what it held.
HeardSocket(c) == c \* mutant: the socket is copied, not the message
Heard(c) == IF said[c] # "nothing" THEN token[By[c]] ELSE message
Returned(c) == said[c] # "nothing" \/ side[c] # "open"

\* DL_SEARCH with namecmp
Match(e, text) == e \in head /\ heard[e] = text

\* Mutant: the connection that was listed becomes the data connection.
SPairSwapped ==
  /\ alive /\ asked # NoConn
  /\ Returned(asked)
  /\ \E e \in head :
       /\ Match(e, Heard(asked))
       /\ mate' = [mate EXCEPT ![asked] = e]
       /\ thr' = [thr EXCEPT ![asked] = "auth"]
       /\ head' = head \ {e}
       /\ heard' = [heard EXCEPT ![e] = Noise]
  /\ message' \in {Heard(asked), Noise}
  /\ asked' = NoConn
  /\ UNCHANGED <<inputs, daemonVars, connVars, alive, queue, breaks>>

\* Mutant: without DL_DELETE.
SPairKeepsEntry ==
  /\ alive /\ asked # NoConn
  /\ Returned(asked)
  /\ \E e \in head :
       /\ Match(e, Heard(asked))
       /\ mate' = [mate EXCEPT ![e] = asked]
       /\ thr' = [thr EXCEPT ![e] = "auth"]
  /\ message' \in {Heard(asked), Noise}
  /\ asked' = NoConn
  /\ UNCHANGED <<inputs, daemonVars, connVars, alive, queue, head, heard,
                 breaks>>

\* The second of a pair: DL_DELETE, then main starts the thread.  The next
\* call of accept_connection has a message buffer of its own, in the same
\* place or not.
SPair ==
  /\ alive /\ asked # NoConn
  /\ Returned(asked)
  /\ \E e \in head :
       /\ Match(e, Heard(asked))
       /\ mate' = [mate EXCEPT ![e] = asked]
       /\ thr' = [thr EXCEPT ![e] = "auth"]
       /\ head' = head \ {e}
       /\ heard' = [heard EXCEPT ![e] = Noise]
  /\ message' \in {Heard(asked), Noise}
  /\ asked' = NoConn
  /\ UNCHANGED <<inputs, daemonVars, connVars, alive, queue, breaks>>

\* Mutant: without DL_SEARCH.
SListAlways ==
  /\ alive /\ asked # NoConn
  /\ Returned(asked)
  /\ head' = head \cup {asked}
  /\ heard' = [heard EXCEPT ![asked] = Heard(asked)]
  /\ message' = Heard(asked)
  /\ asked' = NoConn
  /\ UNCHANGED <<inputs, daemonVars, connVars, alive, queue, threadVars, breaks>>

\* The first of a pair: DL_APPEND.
SList ==
  /\ alive /\ asked # NoConn
  /\ Returned(asked)
  /\ ~\E e \in head : Match(e, Heard(asked))
  /\ head' = head \cup {asked}
  /\ heard' = [heard EXCEPT ![asked] = Heard(asked)]
  /\ message' = Heard(asked)
  /\ asked' = NoConn
  /\ UNCHANGED <<inputs, daemonVars, connVars, alive, queue, threadVars, breaks>>

(***************************************************************************)
(* The thread of the pair whose command connection is c.                   *)
(***************************************************************************)
\* dealloc closes both connections.
Dealloc(c) ==
  /\ mate' = [mate EXCEPT ![c] = NoConn]
  /\ thr' = [thr EXCEPT ![c] = "none"]
  /\ said' = [x \in Conns |-> IF x \in {c, mate[c]} THEN "nothing" ELSE said[x]]

\* The loop of thr_func begins.
Serve(c) == thr' = [thr EXCEPT ![c] = "serve"] /\ UNCHANGED <<mate, said>>
\* Mutant: whatever the password is.
TAuthAnyone(c) ==
  /\ thr[c] = "auth" /\ said[c] = "password"
  /\ answer' = [answer EXCEPT ![c] = IF side[c] = "open" THEN "ok" ELSE @]
  /\ Serve(c)
  /\ UNCHANGED <<inputs, daemonVars, side, alive, queue, listVars, breaks>>

TAuth(c) ==
  /\ thr[c] = "auth" /\ said[c] = "password"
  /\ LET bad == By[c] \in wrong
     IN  /\ answer' = [answer EXCEPT ![c] = IF side[c] # "open" THEN @
                                            ELSE IF bad THEN "bad" ELSE "ok"]
         /\ IF bad THEN Dealloc(c) ELSE Serve(c)
  /\ UNCHANGED <<inputs, daemonVars, side, alive, queue, listVars, breaks>>

\* receive_message fails, and the result is not looked at: an uninitialised
\* buffer, perhaps the one of an earlier thread, is compared.
TAuthEof(c) ==
  /\ thr[c] = "auth" /\ said[c] # "password" /\ side[c] # "open"
  /\ Dealloc(c) \/ Serve(c)
  /\ UNCHANGED <<inputs, daemonVars, side, answer, alive, queue, listVars,
                 breaks>>

\* A data connection in the place of the command connection: what its daemon
\* sends there is taken for the password.
TAuthData(c) ==
  /\ thr[c] = "auth" /\ As[c] = "data"
  /\ pc[By[c]] = "up" /\ dsock[By[c]] = c
  /\ Dealloc(c)
  /\ UNCHANGED <<inputs, daemonVars, side, answer, alive, queue, listVars,
                 breaks>>

\* thr_func in its loop: recv on the command connection returns 0.
TEof(c) ==
  /\ thr[c] = "serve" /\ side[c] # "open"
  /\ Dealloc(c)
  /\ UNCHANGED <<inputs, daemonVars, side, answer, alive, queue, listVars,
                 breaks>>

\* The same on the data connection, which it only reads during a request.
TDataEof(c) ==
  /\ thr[c] = "serve" /\ side[mate[c]] # "open"
  /\ Dealloc(c)
  /\ UNCHANGED <<inputs, daemonVars, side, answer, alive, queue, listVars,
                 breaks>>

\* The thread gives up on an error of its disk and ends.
TGivesUp(c) ==
  /\ thr[c] = "serve"
  /\ breaks < Limit
  /\ breaks' = breaks + 1
  /\ Dealloc(c)
  /\ UNCHANGED <<inputs, daemonVars, side, answer, alive, queue, listVars>>

-----------------------------------------------------------------------------
(***************************************************************************)
(* The environment.                                                        *)
(***************************************************************************)
\* The network ends a connection and loses what is on its way.
Cut(c) ==
  /\ side[c] = "open"
  /\ torn \/ (pc[By[c]] = "up")
  /\ breaks < Limit
  /\ breaks' = breaks + 1
  /\ side' = [side EXCEPT ![c] = "cut"]
  /\ said' \in {said, [said EXCEPT ![c] = "nothing"]}
  /\ answer' \in {answer, [answer EXCEPT ![c] = "none"]}
  /\ UNCHANGED <<inputs, daemonVars, serverVars>>

CrashServer ==
  /\ alive /\ Undisturbed
  /\ breaks < Limit
  /\ breaks' = breaks + 1
  /\ alive' = FALSE
  /\ queue' = <<>> /\ asked' = NoConn /\ message' = Noise
  /\ head' = {}
  /\ mate' = [c \in Conns |-> NoConn] /\ thr' = [c \in Conns |-> "none"]
  /\ said' = [c \in Conns |-> "nothing"]
  /\ heard' = [c \in Conns |-> Noise]
  /\ UNCHANGED <<inputs, daemonVars, side, answer>>

StartServer ==
  /\ ~alive /\ Undisturbed
  /\ alive' = TRUE
  /\ UNCHANGED <<inputs, daemonVars, connVars, queue, listVars, threadVars,
                 breaks>>

-----------------------------------------------------------------------------
Daemon(d) ==
  \/ DConnect(d) \/ DRefused(d) \/ DToken(d) \/ DRetry(d)
  \/ DPassword(d) \/ DAnswered(d)

Accept == SAccept \/ SPair \/ SList

Thread(c) == TAuth(c) \/ TAuthEof(c) \/ TEof(c)

Next ==
  \/ \E d \in Daemons : DStart(d) \/ DConnect(d) \/ DRefused(d) \/ DToken(d)
                          \/ DRetry(d) \/ DPassword(d) \/ DAnswered(d)
                          \/ DLost(d) \/ DGivesUp(d) \/ DKilled(d)
  \/ SAccept \/ SPair \/ SList
  \/ \E c \in Conns : TAuth(c) \/ TAuthEof(c) \/ TAuthData(c) \/ TEof(c)
                        \/ TDataEof(c) \/ TGivesUp(c) \/ Cut(c)
  \/ CrashServer \/ StartServer

Spec == Init /\ [][Next]_vars

(***************************************************************************)
(* A daemon that is connecting goes on, and so do the server's threads.    *)
(* Nothing makes anybody start a server again; the properties below assume *)
(* that somebody does.                                                     *)
(***************************************************************************)
Fairness ==
  /\ \A d \in Daemons : WF_vars(Daemon(d))
  /\ WF_vars(Accept)
  /\ WF_vars(\E c \in Conns : Thread(c))

FairSpec == Spec /\ Fairness

-----------------------------------------------------------------------------
(***************************************************************************)
(* What holds whatever fails.                                              *)
(***************************************************************************)

\* No two listed connections have the same token, so that it does not matter
\* which one DL_SEARCH finds first (server.c, 482).
TokensListedOnce ==
  \A a, b \in head : heard[a] = heard[b] => a = b

\* A descriptor has one user: a connection is waiting to be accepted, asked,
\* listed, or one half of one pair.  Otherwise dealloc of one thread would
\* close a socket of another (server.c, 170-171).
OneUser ==
  /\ \A i, j \in 1..Len(queue) : queue[i] = queue[j] => i = j
  /\ Queued \cap ({asked} \cup head) = {} /\ asked \notin head
  /\ \A c \in Pairs : {c, mate[c]} \cap (Queued \cup {asked} \cup head) = {}
  /\ \A b, c \in Pairs : mate[b] # c /\ (mate[b] = mate[c] => b = c)

\* A thread serves a living connection only after the right password was
\* sent on that very connection (server.c, 351-359).
OnlyWithPassword ==
  \A c \in Conns :
    thr[c] = "serve" /\ side[c] = "open" =>
      said[c] = "password" /\ By[c] \notin wrong

(***************************************************************************)
(* What holds if tokens differ and no failure meets a half-made pair.      *)
(***************************************************************************)
Tidy == Distinct /\ ~torn

\* A thread's two connections come from one daemon, the command connection
\* is the one that daemon uses as such (server.c, 485-488), and both from the
\* same attempt to connect.
PairsMatch ==
  Tidy => \A c \in Pairs :
            LET d == By[c]
            IN  /\ As[c] = "cmd"
                /\ By[mate[c]] = d /\ As[mate[c]] = "data"
                /\ csock[d] = c <=> dsock[d] = mate[c]

\* No token stays behind: a listed connection is the command connection of a
\* daemon whose data connection is still to come (server.c, 492).
NothingStale ==
  Tidy => \A c \in head :
            LET d == By[c]
            IN  /\ c = csock[d] /\ side[c] = "open"
                /\ pc[d] \in {"data", "token", "check", "auth"}

\* A daemon has its living connections among its sockets: none is left open
\* and forgotten, with a thread of the server that waits on it
\* (client_daemon.c, 550-561).  Not so in a torn run: if one of the two
\* connects fails, the loop of restart_connection makes both again without
\* closing the other, see AlwaysRecovers.
SocketsKnown ==
  ~torn => \A c \in Conns :
             Reaches(c) => c \in {sock[By[c]], csock[By[c]], dsock[By[c]]}

(***************************************************************************)
(* Liveness: the pair of connections is restored.                          *)
(***************************************************************************)
\* If the server is up for good at some time, a daemon that connects is paired
\* and authenticated, or exits.
EveryDaemonPaired ==
  <>[]alive => \A d \in Daemons :
                 Tidy /\ pc[d] = "cmd" ~> pc[d] \in {"up", "gone"}

\* The same whatever fails: "automatic network connection recovery".
AlwaysRecovers ==
  <>[]alive => \A d \in Daemons : pc[d] = "cmd" ~> pc[d] \in {"up", "gone"}
=============================================================================
