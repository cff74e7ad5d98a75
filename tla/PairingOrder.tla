---------------------------- MODULE PairingOrder ----------------------------
(***************************************************************************)
(* Why pairs match: Pairing's PairsMatch and NothingStale, proved for any  *)
(* number of daemons and connections, if tokens differ and no failure      *)
(* meets a half-made pair; and SocketsKnown, whatever the tokens are.      *)
(***************************************************************************)
EXTENDS PairingSafety

\* Connections the server has, and has not paired.
Waiting == Queued \cup ({asked} \ {NoConn}) \cup head

\* How far an attempt to connect has come.  The server is only down during
\* the first half of one if that half has failed as well.
Stages ==
  \A d \in Daemons :
    /\ pc[d] \in {"off", "cmd", "gone"} =>
         sock[d] = NoConn /\ csock[d] = NoConn /\ dsock[d] = NoConn
    /\ pc[d] = "token" =>
         /\ sock[d] # NoConn /\ dsock[d] = NoConn
         /\ As[sock[d]] = "cmd" => csock[d] = NoConn /\ alive
         /\ As[sock[d]] = "data" => csock[d] # NoConn
    /\ pc[d] = "data" =>
         /\ sock[d] = NoConn /\ dsock[d] = NoConn
         /\ csock[d] = NoConn <=> ~alive
    /\ pc[d] \in {"check", "auth", "up"} =>
         sock[d] = NoConn /\ (csock[d] = NoConn <=> dsock[d] = NoConn)

\* The first socket is the command socket, the second the data socket.
Kept ==
  \A d \in Daemons : /\ csock[d] # NoConn => As[csock[d]] = "cmd"
                     /\ dsock[d] # NoConn => As[dsock[d]] = "data"

\* Whatever waits belongs to an attempt that goes on.
WaitsForIts ==
  \A x \in Waiting :
    /\ side[x] = "open" /\ answer[x] = "none"
    /\ x \in {sock[By[x]], csock[By[x]], dsock[By[x]]}
    /\ pc[By[x]] \in {"data", "token", "check", "auth"}

\* Both connections of an attempt wait, or neither does.
Together ==
  \A d \in Daemons :
    /\ pc[d] = "token" /\ As[sock[d]] = "cmd" => sock[d] \in Waiting
    /\ pc[d] = "data" /\ csock[d] # NoConn => csock[d] \in Waiting
    /\ pc[d] = "token" /\ As[sock[d]] = "data" =>
         (csock[d] \in Waiting <=> sock[d] \in Waiting)
    /\ pc[d] \in {"check", "auth", "up"} =>
         (csock[d] \in Waiting <=> dsock[d] \in Waiting)

\* The command connection comes to the server before the data connection.
InOrder ==
  \A x \in Waiting :
    As[x] = "data" =>
      /\ x \notin head
      /\ x = asked => csock[By[x]] \in head
      /\ \A j \in 1..Len(queue) :
           queue[j] = x => \/ csock[By[x]] \in head \cup {asked}
                           \/ \E i \in 1..(j - 1) : queue[i] = csock[By[x]]

HeardRight == \A e \in head : heard[e] = token[By[e]]

\* A connection on which nothing was said is not listed and not paired.
NotYet ==
  \A d \in Daemons :
    sock[d] # NoConn =>
      sock[d] \notin head /\ \A c \in Pairs : sock[d] # c /\ sock[d] # mate[c]

Matched ==
  \A c \in Pairs :
    /\ As[c] = "cmd" /\ By[mate[c]] = By[c] /\ As[mate[c]] = "data"
    /\ csock[By[c]] = c <=> dsock[By[c]] = mate[c]

Orderly == /\ Stages /\ Kept /\ WaitsForIts /\ Together /\ InOrder /\ HeardRight
           /\ NotYet /\ Matched

OrderlyIfTidy == Tidy => Orderly

-----------------------------------------------------------------------------
LEMMA Typing ==
  ASSUME TypeOK
  PROVE  /\ pc \in [Daemons -> {"off", "token", "check", "auth", "up", "gone"}
                                 \cup {"cmd", "data"}]
         /\ sock \in [Daemons -> Conns \cup {NoConn}]
         /\ csock \in [Daemons -> Conns \cup {NoConn}]
         /\ dsock \in [Daemons -> Conns \cup {NoConn}]
         /\ side \in [Conns -> {"open", "cut", "closed"}]
         /\ answer \in [Conns -> {"none", "ok", "bad"}]
         /\ said \in [Conns -> {"nothing", "token", "password"}]
         /\ queue \in Seq(Conns) /\ asked \in Conns \cup {NoConn}
         /\ head \subseteq Conns /\ heard \in [Conns -> Tokens \cup {Noise}]
         /\ mate \in [Conns -> Conns \cup {NoConn}]
         /\ By \in [Conns -> Daemons] /\ As \in [Conns -> {"cmd", "data"}]
         /\ NoConn \notin Conns
BY PairingAssumption DEF TypeOK, Roles

LEMMA WaitingTyped ==
  ASSUME TypeOK
  PROVE  Waiting \subseteq Conns /\ Waiting \subseteq Held
BY Typing DEF Waiting, Held, Queued

\* A connection that is not one of d's sockets belongs to another daemon, or
\* does not wait.
LEMMA NoneWaits ==
  ASSUME TypeOK, Orderly, NEW d \in Daemons,
         \/ pc[d] \in {"off", "cmd", "gone", "up"}
         \/ sock[d] \notin Waiting /\ csock[d] \notin Waiting /\ dsock[d] \notin Waiting
  PROVE  \A x \in Waiting : By[x] # d
BY DEF Orderly, WaitsForIts

-----------------------------------------------------------------------------
(***************************************************************************)
(* The daemons.  Their steps, connecting apart, leave the server alone.    *)
(***************************************************************************)
LEMMA ServerAlone ==
  ASSUME UNCHANGED <<inputs, serverVars>>
  PROVE  /\ Waiting' = Waiting /\ Pairs' = Pairs
         /\ UNCHANGED <<queue, asked, head, heard, mate, alive, token>>
         /\ HeardRight => HeardRight'
<1>1. UNCHANGED <<queue, asked, head, heard, mate, alive, token>>
  BY DEF serverVars, listVars, threadVars, inputs
<1>2. Waiting' = Waiting /\ Pairs' = Pairs
  BY <1>1 DEF Waiting, Queued, Pairs
<1>3. HeardRight => HeardRight'
  BY <1>1 DEF HeardRight
<1>4. QED BY <1>1, <1>2, <1>3

\* A daemon lets go of connections of which none waits.
LEMMA DropKeeps ==
  ASSUME Safe, Orderly, NEW d \in Daemons, Exit(d) \/ Restart(d),
         UNCHANGED <<inputs, serverVars>>, \A x \in Waiting : By[x] # d
  PROVE  Orderly'
<1> USE Typing DEF Safe
<1>1. pc' = [pc EXCEPT ![d] = "gone"] \/ pc' = [pc EXCEPT ![d] = "cmd"]
  BY DEF Exit, Restart
<1>2. /\ sock' = [sock EXCEPT ![d] = NoConn]
      /\ csock' = [csock EXCEPT ![d] = NoConn]
      /\ dsock' = [dsock EXCEPT ![d] = NoConn]
  BY DEF Exit, Restart, Forget
<1>3. \A x \in Conns : By[x] # d => side'[x] = side[x] /\ answer'[x] = answer[x]
  BY DEF Exit, Restart, Close, Owned
<1>4. Stages'
  BY <1>1, <1>2, ServerAlone DEF Orderly, Stages
<1>5. Kept'
  BY <1>2 DEF Orderly, Kept
<1>6. WaitsForIts'
  BY <1>1, <1>2, <1>3, ServerAlone, WaitingTyped DEF Orderly, WaitsForIts
<1>7. Together'
  BY <1>1, <1>2, ServerAlone DEF Orderly, Together
<1>8. InOrder'
  BY <1>2, ServerAlone, WaitingTyped DEF Orderly, InOrder
<1>9. NotYet'
  BY <1>2, ServerAlone DEF Orderly, NotYet
<1>10. Matched'
  BY <1>2, ServerAlone DEF Orderly, Matched, Pairs
<1>11. QED BY <1>4, <1>5, <1>6, <1>7, <1>8, <1>9, <1>10, ServerAlone DEF Orderly

\* client_connect returns, with the socket or with -1.
LEMMA ConnectedKeeps ==
  ASSUME Safe, Orderly, NEW d \in Daemons,
         NEW role \in {"cmd", "data"}, NEW c \in Conns \cup {NoConn},
         Connected(d, role, c), UNCHANGED <<inputs, serverVars, side, answer>>,
         \/ /\ pc[d] = "token" /\ c = sock[d] /\ role = As[c]
         \/ pc[d] = role /\ c = NoConn /\ ~alive
  PROVE  Orderly'
<1> USE Typing DEF Safe
<1>1. /\ pc' = [pc EXCEPT ![d] = IF role = "cmd" THEN "data" ELSE "check"]
      /\ csock' = IF role = "cmd" THEN [csock EXCEPT ![d] = c] ELSE csock
      /\ dsock' = IF role = "cmd" THEN dsock ELSE [dsock EXCEPT ![d] = c]
      /\ sock' = [sock EXCEPT ![d] = NoConn]
  BY DEF Connected
<1>2. /\ sock[d] = c \/ (sock[d] = NoConn /\ c = NoConn)
      /\ dsock[d] = NoConn
      /\ role = "cmd" => csock[d] = NoConn
  BY DEF Orderly, Stages
<1>3. Stages'
  BY <1>1, ServerAlone DEF Orderly, Stages
<1>4. Kept'
  BY <1>1 DEF Orderly, Kept
<1>5. WaitsForIts'
  BY <1>1, <1>2, ServerAlone, WaitingTyped DEF Orderly, WaitsForIts
<1>6. Together'
  BY <1>1, <1>2, ServerAlone, WaitingTyped DEF Orderly, Together, Stages
<1>7. InOrder'
  BY <1>1, <1>2, ServerAlone, WaitingTyped DEF Orderly, InOrder, WaitsForIts
<1>8. NotYet'
  BY <1>1, ServerAlone DEF Orderly, NotYet
<1>9. Matched'
  BY <1>1, <1>2, ServerAlone DEF Orderly, Matched, NotYet, Pairs
<1>10. QED BY <1>3, <1>4, <1>5, <1>6, <1>7, <1>8, <1>9, ServerAlone DEF Orderly

\* A daemon goes on without touching a connection.
LEMMA MoveKeeps ==
  ASSUME Safe, Orderly, NEW d \in Daemons, NEW to \in {"cmd", "auth", "up"},
         pc' = [pc EXCEPT ![d] = to],
         UNCHANGED <<inputs, serverVars, side, answer, sock, csock, dsock>>,
         \/ pc[d] = "off" /\ to = "cmd"
         \/ pc[d] = "check" /\ to = "cmd" /\ NoConn \in {csock[d], dsock[d]}
         \/ pc[d] = "check" /\ to = "auth"
         \/ pc[d] = "auth" /\ to = "up" /\ csock[d] \notin Waiting
  PROVE  Orderly'
<1> USE Typing DEF Safe
<1>1. Stages'
  BY ServerAlone DEF Orderly, Stages
<1>2. Kept'
  BY DEF Orderly, Kept
<1>3. ASSUME to \in {"cmd", "up"} PROVE \A x \in Waiting : By[x] # d
  BY <1>3, NoneWaits, WaitingTyped DEF Orderly, Stages, Together
<1>4. WaitsForIts'
  BY <1>3, ServerAlone, WaitingTyped DEF Orderly, WaitsForIts
<1>5. Together'
  BY ServerAlone DEF Orderly, Together
<1>6. InOrder'
  BY ServerAlone DEF Orderly, InOrder
<1>7. NotYet'
  BY ServerAlone DEF Orderly, NotYet
<1>8. Matched'
  BY ServerAlone DEF Orderly, Matched
<1>9. QED BY <1>1, <1>2, <1>4, <1>5, <1>6, <1>7, <1>8, ServerAlone DEF Orderly

LEMMA TokenKeeps ==
  ASSUME Safe, Orderly, NEW d \in Daemons, DToken(d)
  PROVE  Orderly'
<1> USE Typing DEF Safe
<1>1. pc[d] = "token" /\ sock[d] \in Conns /\ dsock[d] = NoConn
      /\ UNCHANGED <<inputs, serverVars>>
  BY DEF DToken, Orderly, Stages
<1>2. CASE Connected(d, As[sock[d]], sock[d]) /\ UNCHANGED <<side, answer>>
  <2>1. As[sock[d]] \in {"cmd", "data"}
    BY <1>1
  <2>2. QED BY <1>1, <1>2, <2>1, ConnectedKeeps
<1>3. CASE ~Reaches(sock[d]) /\ Throw(d)
  <2>1. sock[d] \notin Waiting
    BY <1>3, WaitingTyped DEF Reaches, Orderly, WaitsForIts
  <2>2. csock[d] \notin Waiting
    BY <1>1, <2>1 DEF Orderly, Together
  <2>3. dsock[d] \notin Waiting
    BY <1>1, WaitingTyped
  <2>4. \A x \in Waiting : By[x] # d
    BY <2>1, <2>2, <2>3, NoneWaits
  <2>5. Exit(d) \/ Restart(d)
    BY <1>3 DEF Throw
  <2>6. QED BY <1>1, <2>4, <2>5, DropKeeps
<1>4. QED BY <1>2, <1>3 DEF DToken

LEMMA AnsweredKeeps ==
  ASSUME Safe, Orderly, NEW d \in Daemons, DAnswered(d)
  PROVE  Orderly'
<1> USE Typing DEF Safe
<1>1. pc[d] = "auth" /\ UNCHANGED <<inputs, serverVars>>
  BY DEF DAnswered
<1>2. csock[d] \notin Waiting
  <2>1. answer[csock[d]] \in {"ok", "bad"} \/ ~Reaches(csock[d])
    BY DEF DAnswered
  <2>2. QED BY <2>1, WaitingTyped DEF Reaches, Orderly, WaitsForIts
<1>3. \A x \in Waiting : By[x] # d
  <2>1. dsock[d] \notin Waiting
    BY <1>1, <1>2 DEF Orderly, Together
  <2>2. sock[d] \notin Waiting
    BY <1>1, WaitingTyped DEF Orderly, Stages
  <2>3. QED BY <1>2, <2>1, <2>2, NoneWaits
<1>4. CASE Exit(d) \/ Restart(d)
  BY <1>1, <1>3, <1>4, DropKeeps
<1>5. CASE pc' = [pc EXCEPT ![d] = "up"] /\ UNCHANGED <<sock, csock, dsock, side, answer>>
  BY <1>1, <1>2, <1>5, MoveKeeps
<1>6. QED BY <1>4, <1>5 DEF DAnswered, Throw

\* Where tokens differ and no failure meets a half-made pair.
LEMMA DaemonRestKeeps ==
  ASSUME Safe, Orderly, ~torn, NEW d \in Daemons, DaemonRest(d)
  PROVE  Orderly'
<1> USE Typing DEF Safe
<1>1. CASE DStart(d)
  <2>1. /\ pc[d] = "off" /\ pc' = [pc EXCEPT ![d] = "cmd"]
        /\ UNCHANGED <<inputs, serverVars, side, answer, sock, csock, dsock>>
    BY <1>1 DEF DStart, connVars
  <2>2. QED BY <2>1, MoveKeeps
<1>2. CASE DRefused(d)
  <2>1. /\ pc[d] \in {"cmd", "data"} /\ ~alive /\ Connected(d, pc[d], NoConn)
        /\ UNCHANGED <<inputs, serverVars, side, answer>>
    BY <1>2 DEF DRefused, connVars, Roles
  <2>2. QED BY <2>1, ConnectedKeeps
<1>3. CASE DRetry(d)
  <2>1. /\ pc[d] = "check" /\ NoConn \in {csock[d], dsock[d]}
        /\ UNCHANGED <<inputs, serverVars>>
    BY <1>3 DEF DRetry
  <2>2. CASE Exit(d)
    <3>1. sock[d] = NoConn /\ csock[d] = NoConn /\ dsock[d] = NoConn
      BY <2>1 DEF Orderly, Stages
    <3>2. \A x \in Waiting : By[x] # d
      BY <3>1, NoneWaits, WaitingTyped
    <3>3. QED BY <2>1, <2>2, <3>2, DropKeeps
  <2>3. CASE /\ pc' = [pc EXCEPT ![d] = "cmd"]
             /\ UNCHANGED <<sock, csock, dsock, side, answer>>
    BY <2>1, <2>3, MoveKeeps
  <2>4. QED BY <1>3, <2>2, <2>3 DEF DRetry
<1>4. CASE DAnswered(d)
  BY <1>4, AnsweredKeeps
<1>5. CASE DLost(d) \/ DGivesUp(d) \/ DKilled(d)
  <2>1. /\ pc[d] = "up"
        /\ Exit(d) \/ Restart(d)
        /\ UNCHANGED <<inputs, serverVars>>
    BY <1>5 DEF DLost, DGivesUp, DKilled
  <2>2. \A x \in Waiting : By[x] # d
    BY <2>1, NoneWaits
  <2>3. QED BY <2>1, <2>2, DropKeeps
<1>6. QED BY <1>1, <1>2, <1>3, <1>4, <1>5 DEF DaemonRest

LEMMA PasswordMoves ==
  ASSUME Safe, Orderly, NEW d \in Daemons, DPassword(d)
  PROVE  Orderly'
<1>1. /\ pc[d] = "check" /\ pc' = [pc EXCEPT ![d] = "auth"]
      /\ UNCHANGED <<inputs, serverVars, side, answer, sock, csock, dsock>>
  BY DEF DPassword
<1>2. QED BY <1>1, MoveKeeps

\* A new connection waits at the end of the queue.
LEMMA ConnectKeeps ==
  ASSUME Safe, Orderly, NEW d \in Daemons, DConnect(d)
  PROVE  Orderly'
<1> USE Typing DEF Safe
<1>1. PICK c \in Conns \ Held :
           /\ By[c] = d /\ As[c] = pc[d]
           /\ sock' = [sock EXCEPT ![d] = c]
           /\ side' = [side EXCEPT ![c] = "open"]
           /\ answer' = [answer EXCEPT ![c] = "none"]
           /\ queue' = Append(queue, c)
           /\ pc' = [pc EXCEPT ![d] = "token"]
           /\ UNCHANGED <<inputs, csock, dsock, alive, listVars, threadVars>>
  BY ConnectEffect
<1>2. /\ pc[d] \in {"cmd", "data"} /\ alive
      /\ UNCHANGED <<token, csock, dsock, alive, asked, head, heard, mate>>
  BY <1>1 DEF DConnect, Roles, listVars, threadVars, inputs
<1>3. /\ Len(queue') = Len(queue) + 1
      /\ queue'[Len(queue) + 1] = c
      /\ \A i \in 1..Len(queue) : queue'[i] = queue[i]
  BY <1>1
<1>4. Waiting' = Waiting \cup {c}
  <2>1. ASSUME NEW x \in Queued' PROVE x \in Queued \cup {c}
    <3>1. PICK i \in 1..Len(queue') : x = queue'[i]
      BY DEF Queued
    <3>2. i \in 1..Len(queue) \/ i = Len(queue) + 1
      BY <1>3, <3>1
    <3>3. QED BY <1>3, <3>1, <3>2 DEF Queued
  <2>2. ASSUME NEW x \in Queued \cup {c} PROVE x \in Queued'
    <3>1. \E i \in 1..Len(queue') : queue'[i] = x
      <4>1. CASE x = c
        BY <1>3, <4>1
      <4>2. CASE x \in Queued
        <5>1. PICK i \in 1..Len(queue) : x = queue[i]
          BY <4>2 DEF Queued
        <5>2. i \in 1..Len(queue') /\ queue'[i] = x
          BY <1>3, <5>1
        <5>3. QED BY <5>2
      <4>3. QED BY <2>2, <4>1, <4>2
    <3>2. QED BY <3>1 DEF Queued
  <2>3. Queued' = Queued \cup {c}
    BY <2>1, <2>2
  <2>4. QED BY <1>2, <2>3 DEF Waiting
<1>5. Pairs' = Pairs
  BY <1>2 DEF Pairs
<1>6. c \notin Waiting /\ c \notin head /\ c # asked
      /\ \A b \in Pairs : c # b /\ c # mate[b]
  BY <1>1, WaitingTyped DEF Held, Pairs
<1>7. sock[d] = NoConn /\ dsock[d] = NoConn
      /\ (pc[d] = "cmd" => csock[d] = NoConn)
      /\ (pc[d] = "data" => csock[d] \in Waiting)
  BY <1>2 DEF Orderly, Stages, Together
<1>8. Stages'
  BY <1>1, <1>2, <1>7, WaitingTyped DEF Orderly, Stages
<1>9. Kept'
  BY <1>2 DEF Orderly, Kept
<1>10. WaitsForIts'
  BY <1>1, <1>2, <1>4, <1>6, <1>7, WaitingTyped DEF Orderly, WaitsForIts
<1>11. Together'
  <2>1. ASSUME NEW e \in Daemons, e # d
        PROVE  sock[e] # c /\ csock[e] # c /\ dsock[e] # c
    BY <1>1, <2>1 DEF Owned
  <2>2. QED BY <1>1, <1>2, <1>4, <1>7, <2>1 DEF Orderly, Together
<1>12. InOrder'
  <2>1. ASSUME NEW x \in Waiting', As[x] = "data", NEW j \in 1..Len(queue'), queue'[j] = x
        PROVE  \/ csock'[By[x]] \in head' \cup {asked'}
               \/ \E i \in 1..(j - 1) : queue'[i] = csock'[By[x]]
    <3>1. CASE x = c
      <4>1. pc[d] = "data" /\ csock[d] \in Waiting
        BY <1>1, <1>2, <1>7, <2>1, <3>1
      <4>2. j = Len(queue) + 1
        <5>1. j \in 1..Len(queue) => queue[j] \in Queued
          BY DEF Queued
        <5>2. c \notin Queued
          BY <1>6 DEF Waiting
        <5>3. QED BY <1>3, <2>1, <3>1, <5>1, <5>2
      <4>3. csock[d] \in head \cup {asked} \/ csock[d] \in Queued
        BY <4>1 DEF Waiting
      <4>4. CASE csock[d] \in Queued
        <5>1. PICK i \in 1..Len(queue) : queue[i] = csock[d]
          BY <4>4 DEF Queued
        <5>2. i \in 1..(j - 1) /\ queue'[i] = csock'[By[x]]
          BY <1>1, <1>2, <1>3, <3>1, <4>2, <5>1
        <5>3. QED BY <5>2
      <4>5. QED BY <1>1, <1>2, <3>1, <4>3, <4>4
    <3>2. CASE x # c
      <4>1. x \in Waiting /\ j \in 1..Len(queue) /\ queue[j] = x
        BY <1>3, <1>4, <2>1, <3>2
      <4>2. \/ csock[By[x]] \in head \cup {asked}
            \/ \E i \in 1..(j - 1) : queue[i] = csock[By[x]]
        BY <2>1, <4>1 DEF Orderly, InOrder
      <4>3. \A i \in 1..(j - 1) : queue'[i] = queue[i]
        BY <1>3, <4>1
      <4>4. QED BY <1>2, <4>2, <4>3
    <3>3. QED BY <3>1, <3>2
  <2>2. ASSUME NEW x \in Waiting', As[x] = "data"
        PROVE  x \notin head' /\ (x = asked' => csock'[By[x]] \in head')
    BY <1>2, <1>4, <1>6, <2>2 DEF Orderly, InOrder
  <2>3. QED BY <2>1, <2>2 DEF InOrder
<1>13. HeardRight'
  BY <1>2 DEF Orderly, HeardRight
<1>14. NotYet'
  BY <1>1, <1>2, <1>5, <1>6 DEF Orderly, NotYet
<1>15. Matched'
  BY <1>2, <1>5 DEF Orderly, Matched
<1>16. QED BY <1>8, <1>9, <1>10, <1>11, <1>12, <1>13, <1>14, <1>15 DEF Orderly

-----------------------------------------------------------------------------
(***************************************************************************)
(* The server accepts and pairs.                                           *)
(***************************************************************************)
\* A data connection waits together with its command connection.
LEMMA DataHasCommand ==
  ASSUME Safe, Orderly, NEW x \in Waiting, As[x] = "data"
  PROVE  csock[By[x]] \in Conns /\ csock[By[x]] \in Waiting
<1> USE Typing DEF Safe
<1>1. /\ x \in Conns /\ By[x] \in Daemons
      /\ x \in {sock[By[x]], csock[By[x]], dsock[By[x]]}
      /\ pc[By[x]] \in {"data", "token", "check", "auth"}
  BY WaitingTyped DEF Orderly, WaitsForIts
<1>2. x # csock[By[x]]
  BY <1>1 DEF Orderly, Kept
<1>3. CASE x = sock[By[x]]
  <2>1. pc[By[x]] = "token"
    BY <1>1, <1>3 DEF Orderly, Stages
  <2>2. QED BY <1>1, <1>3, <2>1, WaitingTyped DEF Orderly, Together
<1>4. CASE x = dsock[By[x]]
  <2>1. pc[By[x]] \in {"check", "auth"}
    BY <1>1, <1>4 DEF Orderly, Stages
  <2>2. QED BY <1>1, <1>4, <2>1, WaitingTyped DEF Orderly, Together
<1>5. QED BY <1>1, <1>2, <1>3, <1>4

LEMMA AcceptKeeps ==
  ASSUME Safe, Orderly, SAccept
  PROVE  Orderly'
<1> USE Typing DEF Safe
<1>1. /\ asked = NoConn /\ queue # <<>> /\ asked' = Head(queue) /\ queue' = Tail(queue)
      /\ UNCHANGED <<inputs, daemonVars, connVars, alive, head, heard, mate>>
  BY DEF SAccept, threadVars
<1>2. UNCHANGED <<token, pc, sock, csock, dsock, side, answer>>
  BY <1>1 DEF inputs, daemonVars, connVars
<1>3. /\ Len(queue) \in Nat \ {0} /\ Len(queue') = Len(queue) - 1 /\ asked' = queue[1]
      /\ \A i \in 1..Len(queue') : queue'[i] = queue[i + 1]
  BY <1>1
<1>4. Waiting' = Waiting
  <2>1. ASSUME NEW x \in Queued PROVE x \in Queued' \cup {asked'}
    <3>1. PICK i \in 1..Len(queue) : x = queue[i]
      BY DEF Queued
    <3>2. CASE i = 1
      BY <1>3, <3>1, <3>2
    <3>3. CASE i > 1
      <4>1. i - 1 \in 1..Len(queue') /\ queue'[i - 1] = x
        BY <1>3, <3>1, <3>3
      <4>2. QED BY <4>1 DEF Queued
    <3>4. QED BY <3>1, <3>2, <3>3
  <2>2. ASSUME NEW x \in Queued' \cup {asked'} PROVE x \in Queued
    <3>1. \E i \in 1..Len(queue) : queue[i] = x
      <4>1. CASE x = asked'
        <5>1. 1 \in 1..Len(queue) /\ queue[1] = x
          BY <1>3, <4>1
        <5>2. QED BY <5>1
      <4>2. CASE x \in Queued'
        <5>1. PICK i \in 1..Len(queue') : x = queue'[i]
          BY <4>2 DEF Queued
        <5>2. i + 1 \in 1..Len(queue) /\ queue[i + 1] = x
          BY <1>3, <5>1
        <5>3. QED BY <5>2
      <4>3. QED BY <2>2, <4>1, <4>2
    <3>2. QED BY <3>1 DEF Queued
  <2>3. asked' \in Queued
    BY <2>2
  <2>4. Queued' \cup {asked'} = Queued /\ asked' \in Conns
    BY <1>3, <2>1, <2>2, <2>3
  <2>5. QED BY <1>1, <2>4 DEF Waiting
<1>5. Pairs' = Pairs
  BY <1>1 DEF Pairs
<1>6. InOrder'
  <2>1. SUFFICES ASSUME NEW x \in Waiting', As[x] = "data"
                 PROVE  /\ x \notin head'
                        /\ x = asked' => csock'[By[x]] \in head'
                        /\ \A j \in 1..Len(queue') :
                             queue'[j] = x =>
                               \/ csock'[By[x]] \in head' \cup {asked'}
                               \/ \E i \in 1..(j - 1) : queue'[i] = csock'[By[x]]
    BY DEF InOrder
  <2>2. csock[By[x]] \in Conns
    BY <1>4, <2>1, DataHasCommand
  <2>3. x \notin head
    BY <1>4, <2>1 DEF Orderly, InOrder
  <2>4. \A j \in 1..Len(queue) :
          queue[j] = x => \/ csock[By[x]] \in head
                          \/ \E i \in 1..(j - 1) : queue[i] = csock[By[x]]
    BY <1>1, <1>4, <2>1, <2>2 DEF Orderly, InOrder
  <2>5. x = asked' => csock[By[x]] \in head
    <3>1. 1 \in 1..Len(queue) /\ 1..(1 - 1) = {}
      BY <1>3
    <3>2. QED BY <1>3, <2>4, <3>1
  <2>6. ASSUME NEW j \in 1..Len(queue'), queue'[j] = x, csock[By[x]] \notin head
        PROVE  \/ csock[By[x]] = asked'
               \/ \E i \in 1..(j - 1) : queue'[i] = csock[By[x]]
    <3>1. j + 1 \in 1..Len(queue) /\ queue[j + 1] = x
      BY <1>3, <2>6
    <3>2. PICK i \in 1..j : queue[i] = csock[By[x]]
      BY <2>4, <2>6, <3>1
    <3>3. CASE i = 1
      BY <1>3, <3>2, <3>3
    <3>4. CASE i > 1
      <4>1. i - 1 \in 1..(j - 1) /\ queue'[i - 1] = queue[i]
        BY <1>3, <2>6, <3>2, <3>4
      <4>2. QED BY <3>2, <4>1
    <3>5. QED BY <3>2, <3>3, <3>4
  <2>7. QED BY <1>1, <1>2, <2>3, <2>5, <2>6
<1>7. Stages' /\ Kept' /\ WaitsForIts' /\ Together'
  BY <1>1, <1>2, <1>4 DEF Orderly, Stages, Kept, WaitsForIts, Together
<1>8. HeardRight' /\ NotYet' /\ Matched'
  BY <1>1, <1>2, <1>5 DEF Orderly, HeardRight, NotYet, Matched
<1>9. QED BY <1>6, <1>7, <1>8 DEF Orderly

\* What is listed is the command connection of an attempt that goes on.
LEMMA ListedIsCommand ==
  ASSUME Safe, Orderly, NEW e \in head
  PROVE  e \in Conns /\ By[e] \in Daemons /\ As[e] = "cmd" /\ e = csock[By[e]]
<1> USE Typing DEF Safe
<1>1. e \in Waiting /\ e \in Conns /\ By[e] \in Daemons
  BY DEF Waiting
<1>2. As[e] = "cmd"
  BY <1>1 DEF Orderly, InOrder
<1>3. e \in {sock[By[e]], csock[By[e]], dsock[By[e]]}
  BY <1>1 DEF Orderly, WaitsForIts
<1>4. e # sock[By[e]]
  BY <1>1 DEF Orderly, NotYet
<1>5. e # dsock[By[e]]
  BY <1>1, <1>2 DEF Orderly, Kept
<1>6. QED BY <1>1, <1>2, <1>3, <1>4, <1>5

\* A connection whose token was received is not one that its daemon has just
\* made.
LEMMA AskedHeard ==
  ASSUME Safe, Orderly, asked # NoConn, Returned(asked)
  PROVE  /\ asked \in Conns /\ asked \in Waiting /\ By[asked] \in Daemons
         /\ Heard(asked) = token[By[asked]]
         /\ \A d \in Daemons : sock[d] # asked
<1> USE Typing DEF Safe
<1>1. asked \in Conns /\ asked \in Waiting /\ By[asked] \in Daemons
  BY DEF Waiting
<1>2. side[asked] = "open" /\ said[asked] # "nothing"
  BY <1>1 DEF Orderly, WaitsForIts, Returned
<1>3. ASSUME NEW d \in Daemons, sock[d] = asked PROVE FALSE
  <2>1. pc[d] = "token"
    BY <1>1, <1>3 DEF Orderly, Stages
  <2>2. QED BY <1>2, <1>3, <2>1 DEF Unsaid
<1>4. QED BY <1>1, <1>2, <1>3 DEF Heard

LEMMA ListKeeps ==
  ASSUME Safe, Orderly, SList
  PROVE  Orderly'
<1> USE Typing DEF Safe
<1>1. /\ asked # NoConn /\ Returned(asked) /\ ~\E e \in head : Match(e, Heard(asked))
      /\ head' = head \cup {asked} /\ asked' = NoConn
      /\ heard' = [heard EXCEPT ![asked] = Heard(asked)]
      /\ UNCHANGED <<inputs, daemonVars, connVars, alive, queue, mate>>
  BY DEF SList, threadVars
<1>2. UNCHANGED <<token, pc, sock, csock, dsock, side, answer>>
  BY <1>1 DEF inputs, daemonVars, connVars
<1>3. Waiting' = Waiting /\ Pairs' = Pairs
  BY <1>1 DEF Waiting, Queued, Pairs
<1>4. As[asked] = "cmd"
  <2>1. SUFFICES ASSUME As[asked] = "data" PROVE FALSE
    BY <1>1, AskedHeard
  <2>2. csock[By[asked]] \in head /\ csock[By[asked]] \in Conns
    BY <1>1, <2>1, AskedHeard DEF Orderly, InOrder
  <2>3. By[csock[By[asked]]] = By[asked]
    BY <1>1, <2>2, AskedHeard DEF Owned
  <2>4. heard[csock[By[asked]]] = token[By[asked]]
    BY <2>2, <2>3 DEF Orderly, HeardRight
  <2>5. QED BY <1>1, <2>2, <2>4, AskedHeard DEF Match
<1>5. InOrder'
  <2>1. SUFFICES ASSUME NEW x \in Waiting', As[x] = "data"
                 PROVE  /\ x \notin head'
                        /\ x = asked' => csock'[By[x]] \in head'
                        /\ \A j \in 1..Len(queue') :
                             queue'[j] = x =>
                               \/ csock'[By[x]] \in head' \cup {asked'}
                               \/ \E i \in 1..(j - 1) : queue'[i] = csock'[By[x]]
    BY DEF InOrder
  <2>2. /\ x \notin head
        /\ \A j \in 1..Len(queue) :
             queue[j] = x => \/ csock[By[x]] \in head \cup {asked}
                             \/ \E i \in 1..(j - 1) : queue[i] = csock[By[x]]
    BY <1>3, <2>1 DEF Orderly, InOrder
  <2>3. x # asked' /\ x # asked
    BY <1>1, <1>3, <1>4, <2>1, WaitingTyped
  <2>4. QED BY <1>1, <1>2, <2>2, <2>3
<1>6. HeardRight'
  BY <1>1, <1>2, AskedHeard DEF Orderly, HeardRight
<1>7. NotYet'
  BY <1>1, <1>2, <1>3, AskedHeard DEF Orderly, NotYet
<1>8. Stages' /\ Kept' /\ WaitsForIts' /\ Together' /\ Matched'
  BY <1>1, <1>2, <1>3 DEF Orderly, Stages, Kept, WaitsForIts, Together, Matched
<1>9. QED BY <1>5, <1>6, <1>7, <1>8 DEF Orderly

LEMMA PairKeeps ==
  ASSUME Safe, Orderly, Tidy, SPair
  PROVE  Orderly'
<1> USE Typing DEF Safe
<1>1. PICK e \in head : /\ Match(e, Heard(asked))
                        /\ mate' = [mate EXCEPT ![e] = asked]
                        /\ head' = head \ {e}
                        /\ heard' = [heard EXCEPT ![e] = Noise]
  BY DEF SPair
<1>2. /\ asked # NoConn /\ Returned(asked) /\ asked' = NoConn
      /\ UNCHANGED <<inputs, daemonVars, connVars, alive, queue>>
  BY DEF SPair
<1>3. UNCHANGED <<token, pc, sock, csock, dsock, side, answer>>
  BY <1>2 DEF inputs, daemonVars, connVars
<1> DEFINE d == By[asked]
<1>4. /\ asked \in Conns /\ asked \in Waiting /\ d \in Daemons
      /\ \A f \in Daemons : sock[f] # asked
  BY <1>2, AskedHeard
<1>5. e \in Conns /\ As[e] = "cmd" /\ By[e] = d /\ e = csock[d]
  <2>1. token[By[e]] = token[d]
    BY <1>1, <1>2, AskedHeard DEF Match, Orderly, HeardRight
  <2>2. QED BY <1>4, <2>1, ListedIsCommand DEF Tidy, Distinct
<1>6. /\ asked # e /\ asked \notin Queued /\ e \notin Queued /\ asked \notin head
      /\ e \notin Pairs
  BY <1>2, <1>4, <1>5 DEF OneUser
<1>7. asked = dsock[d] /\ As[asked] = "data" /\ pc[d] \in {"check", "auth"}
  <2>1. /\ asked \in {sock[d], csock[d], dsock[d]}
        /\ pc[d] \in {"data", "token", "check", "auth"}
    BY <1>4 DEF Orderly, WaitsForIts
  <2>2. asked = dsock[d]
    BY <1>4, <1>5, <1>6, <2>1
  <2>3. QED BY <1>4, <2>1, <2>2 DEF Orderly, Kept, Stages
<1>8. Waiting' = Waiting \ {e, asked}
  BY <1>1, <1>2, <1>4, <1>6 DEF Waiting, Queued
<1>9. Pairs' = Pairs \cup {e} /\ mate'[e] = asked
      /\ \A b \in Pairs : mate'[b] = mate[b]
  BY <1>1, <1>4, <1>5, <1>6 DEF Pairs
<1>10. ASSUME NEW f \in Daemons, f # d
       PROVE  {sock[f], csock[f], dsock[f]} \cap {e, asked} = {}
  BY <1>4, <1>5, <1>10 DEF Owned
<1>11. Stages' /\ Kept'
  BY <1>2, <1>3 DEF Orderly, Stages, Kept
<1>12. WaitsForIts'
  BY <1>3, <1>8 DEF Orderly, WaitsForIts
<1>13. Together'
  <2>1. SUFFICES ASSUME NEW f \in Daemons
        PROVE  /\ pc[f] = "token" /\ As[sock[f]] = "cmd" => sock[f] \in Waiting'
               /\ pc[f] = "data" /\ csock[f] # NoConn => csock[f] \in Waiting'
               /\ pc[f] = "token" /\ As[sock[f]] = "data" =>
                    (csock[f] \in Waiting' <=> sock[f] \in Waiting')
               /\ pc[f] \in {"check", "auth", "up"} =>
                    (csock[f] \in Waiting' <=> dsock[f] \in Waiting')
    BY <1>3 DEF Together
  <2>2. CASE f = d
    BY <1>5, <1>7, <1>8, <2>2
  <2>3. CASE f # d
    BY <1>8, <1>10, <2>3 DEF Orderly, Together
  <2>4. QED BY <2>2, <2>3
<1>14. InOrder'
  <2>1. ASSUME NEW x \in Waiting', As[x] = "data"
        PROVE  /\ x \in Waiting /\ x \notin head /\ x # asked
               /\ csock[By[x]] \in Conns \ {e, asked}
    <3>1. x \in Waiting /\ x # asked /\ x # e /\ x \in Conns /\ By[x] \in Daemons
      BY <1>8, <2>1, WaitingTyped
    <3>2. By[x] # d
      <4>1. sock[d] = NoConn
        BY <1>4, <1>7 DEF Orderly, Stages
      <4>2. x \in {sock[By[x]], csock[By[x]], dsock[By[x]]}
        BY <3>1 DEF Orderly, WaitsForIts
      <4>3. QED BY <1>5, <1>7, <3>1, <4>1, <4>2
    <3>3. csock[By[x]] \in Conns
      BY <2>1, <3>1, DataHasCommand
    <3>4. x \notin head
      BY <2>1, <3>1 DEF Orderly, InOrder
    <3>5. QED BY <1>10, <3>1, <3>2, <3>3, <3>4
  <2>2. SUFFICES ASSUME NEW x \in Waiting', As[x] = "data"
                 PROVE  /\ x \notin head'
                        /\ x = asked' => csock'[By[x]] \in head'
                        /\ \A j \in 1..Len(queue') :
                             queue'[j] = x =>
                               \/ csock'[By[x]] \in head' \cup {asked'}
                               \/ \E i \in 1..(j - 1) : queue'[i] = csock'[By[x]]
    BY DEF InOrder
  <2>3. \A j \in 1..Len(queue) :
          queue[j] = x => \/ csock[By[x]] \in head \cup {asked}
                          \/ \E i \in 1..(j - 1) : queue[i] = csock[By[x]]
    BY <2>1, <2>2 DEF Orderly, InOrder
  <2>4. x \in Conns /\ x # asked' /\ x \notin head'
    BY <1>1, <1>2, <2>1, <2>2, WaitingTyped
  <2>5. QED BY <1>1, <1>2, <1>3, <2>1, <2>2, <2>3, <2>4
<1>15. HeardRight'
  BY <1>1, <1>3 DEF Orderly, HeardRight
<1>16. NotYet'
  BY <1>1, <1>3, <1>4, <1>9 DEF Orderly, NotYet
<1>17. Matched'
  BY <1>3, <1>4, <1>5, <1>7, <1>9 DEF Orderly, Matched
<1>18. QED BY <1>11, <1>12, <1>13, <1>14, <1>15, <1>16, <1>17 DEF Orderly

-----------------------------------------------------------------------------
(***************************************************************************)
(* Threads, failures, and a server that comes back.                        *)
(***************************************************************************)
\* A thread only touches its own pair.
LEMMA ThreadKeeps ==
  ASSUME Safe, Orderly, NEW c \in Conns, ThreadStep(c)
  PROVE  Orderly'
<1> USE Typing DEF Safe
<1>1. UNCHANGED <<inputs, daemonVars, side, alive, queue, listVars>>
  BY ThreadEffect
<1>2. UNCHANGED <<token, pc, sock, csock, dsock, asked, head, heard>>
  BY <1>1 DEF inputs, daemonVars, listVars
<1>3. \A b \in Conns : mate'[b] \in {mate[b], NoConn}
  BY ThreadEffect DEF Dealloc, Serve
<1>4. Waiting' = Waiting
  BY <1>1, <1>2 DEF Waiting, Queued
<1>5. Pairs' \subseteq Pairs /\ \A b \in Pairs' : mate'[b] = mate[b]
  BY <1>3 DEF Pairs
<1>6. \A x \in Waiting : answer'[x] = answer[x]
  <2>1. c \in Pairs
    BY ThreadEffect DEF ThreadsPaired, Pairs
  <2>2. c \notin Waiting
    BY <2>1 DEF OneUser, Waiting
  <2>3. answer' = answer \/ \E v : answer' = [answer EXCEPT ![c] = v]
    BY DEF ThreadStep, TAuth, TAuthEof, TAuthData, TEof, TDataEof, TGivesUp
  <2>4. QED BY <2>2, <2>3, WaitingTyped
<1>7. Stages' /\ Kept' /\ Together' /\ InOrder' /\ HeardRight'
  BY <1>1, <1>2, <1>4 DEF Orderly, Stages, Kept, Together, InOrder, HeardRight
<1>8. WaitsForIts'
  BY <1>1, <1>2, <1>4, <1>6 DEF Orderly, WaitsForIts
<1>9. NotYet'
  BY <1>2, <1>5 DEF Orderly, NotYet
<1>10. Matched'
  BY <1>2, <1>5 DEF Orderly, Matched
<1>11. QED BY <1>7, <1>8, <1>9, <1>10 DEF Orderly

LEMMA CutKeeps ==
  ASSUME Safe, Orderly, ~torn, NEW c \in Conns, Cut(c)
  PROVE  Orderly'
<1> USE Typing DEF Safe
<1>1. /\ pc[By[c]] = "up"
      /\ side' = [side EXCEPT ![c] = "cut"]
      /\ answer' \in {answer, [answer EXCEPT ![c] = "none"]}
      /\ UNCHANGED <<inputs, daemonVars, serverVars>>
  BY DEF Cut
<1>2. UNCHANGED <<pc, sock, csock, dsock>>
  BY <1>1 DEF daemonVars
<1>3. c \notin Waiting
  BY <1>1 DEF Orderly, WaitsForIts
<1>4. Stages' /\ Kept' /\ Together' /\ InOrder' /\ HeardRight' /\ NotYet' /\ Matched'
  BY <1>1, <1>2, ServerAlone
     DEF Orderly, Stages, Kept, Together, InOrder, HeardRight, NotYet, Matched
<1>5. WaitsForIts'
  BY <1>1, <1>2, <1>3, ServerAlone, WaitingTyped DEF Orderly, WaitsForIts
<1>6. QED BY <1>4, <1>5 DEF Orderly

\* The server ends or begins while nobody is in the middle of connecting.
LEMMA RestartKeeps ==
  ASSUME Safe, Orderly, ~torn, CrashServer \/ StartServer
  PROVE  Orderly'
<1> USE Typing DEF Safe
<1>1. /\ \A d \in Daemons : ~Midway(d)
      /\ UNCHANGED <<inputs, daemonVars, side, answer>>
  BY DEF CrashServer, StartServer, Undisturbed, connVars
<1>2. UNCHANGED <<token, pc, sock, csock, dsock>>
  BY <1>1 DEF inputs, daemonVars
<1>3. Stages' /\ Kept'
  BY <1>1, <1>2 DEF Orderly, Stages, Kept, Midway
<1>4. CASE CrashServer
  <2>1. queue' = <<>> /\ asked' = NoConn /\ head' = {}
        /\ mate' = [c \in Conns |-> NoConn]
    BY <1>4 DEF CrashServer
  <2>2. Waiting' = {} /\ Pairs' = {}
    BY <2>1 DEF Waiting, Queued, Pairs
  <2>3. Together'
    BY <1>1, <1>2, <2>2 DEF Together, Midway
  <2>4. WaitsForIts' /\ InOrder' /\ HeardRight' /\ NotYet' /\ Matched'
    BY <2>1, <2>2 DEF WaitsForIts, InOrder, HeardRight, NotYet, Matched
  <2>5. QED BY <1>3, <2>3, <2>4 DEF Orderly
<1>5. CASE StartServer
  <2>1. UNCHANGED <<queue, asked, head, heard, mate>>
    BY <1>5 DEF StartServer, listVars, threadVars
  <2>2. Waiting' = Waiting /\ Pairs' = Pairs
    BY <2>1 DEF Waiting, Queued, Pairs
  <2>3. WaitsForIts' /\ Together' /\ InOrder' /\ HeardRight' /\ NotYet' /\ Matched'
    BY <1>1, <1>2, <2>1, <2>2
       DEF Orderly, WaitsForIts, Together, InOrder, HeardRight, NotYet, Matched
  <2>4. QED BY <1>3, <2>3 DEF Orderly
<1>6. QED BY <1>4, <1>5

-----------------------------------------------------------------------------
LEMMA OrderlyInit ==
  ASSUME Init
  PROVE  Orderly
<1>1. Waiting = {} /\ Pairs = {}
  BY DEF Init, Waiting, Queued, Pairs
<1>2. Stages /\ Kept /\ Together
  BY <1>1 DEF Init, Stages, Kept, Together
<1>3. WaitsForIts /\ InOrder /\ HeardRight /\ NotYet /\ Matched
  BY <1>1 DEF Init, WaitsForIts, InOrder, HeardRight, NotYet, Matched
<1>4. QED BY <1>2, <1>3 DEF Orderly

LEMMA OrderlyNext ==
  ASSUME Safe, OrderlyIfTidy, [Next]_vars
  PROVE  OrderlyIfTidy'
<1>1. UNCHANGED <<token, torn>>
  BY DEF Next, vars, inputs, DStart, DConnect, DRefused, DToken, DRetry, DPassword,
         DAnswered, DLost, DGivesUp, DKilled, SAccept, SPair, SList, TAuth, TAuthEof,
         TAuthData, TEof, TDataEof, TGivesUp, Cut, CrashServer, StartServer
<1>2. SUFFICES ASSUME Tidy
               PROVE  Orderly'
  BY <1>1 DEF OrderlyIfTidy, Tidy, Distinct
<1>3. Orderly /\ ~torn
  BY <1>2 DEF OrderlyIfTidy, Tidy
<1>4. ASSUME NEW d \in Daemons, DConnect(d) \/ DToken(d) \/ DPassword(d) \/ DaemonRest(d)
      PROVE  Orderly'
  BY <1>3, <1>4, ConnectKeeps, TokenKeeps, PasswordMoves, DaemonRestKeeps
<1>5. CASE SAccept \/ SPair \/ SList
  BY <1>2, <1>3, <1>5, AcceptKeeps, PairKeeps, ListKeeps
<1>6. ASSUME NEW c \in Conns, ThreadStep(c) \/ Cut(c)
      PROVE  Orderly'
  BY <1>3, <1>6, ThreadKeeps, CutKeeps
<1>7. CASE CrashServer \/ StartServer
  BY <1>3, <1>7, RestartKeeps
<1>8. CASE UNCHANGED vars
  <2>1. UNCHANGED <<inputs, serverVars, pc, sock, csock, dsock, side, answer>>
    BY <1>8 DEF vars, daemonVars, connVars
  <2>2. QED
    BY <1>3, <2>1, ServerAlone DEF Orderly, Stages, Kept, WaitsForIts, Together,
       InOrder, NotYet, Matched
<1>9. QED BY <1>4, <1>5, <1>6, <1>7, <1>8, NextCases

\* Every pair's connections come from one attempt of one daemon, the command
\* connection first (server.c, 482-490), if tokens differ and no failure meets
\* a half-made pair.
THEOREM PairsAlwaysMatch == Spec => []PairsMatch
<1>1. Init => OrderlyIfTidy
  BY OrderlyInit DEF OrderlyIfTidy
<1>2. OrderlyIfTidy => PairsMatch
  BY DEF OrderlyIfTidy, Orderly, Matched, PairsMatch
<1>3. QED BY SafeInit, SafeNext, OrderlyNext, <1>1, <1>2, PTL DEF Spec

\* Under the same conditions no token stays behind: what is listed waits for
\* a data connection that is on its way (server.c, 492).
THEOREM NothingLeftListed == Spec => []NothingStale
<1>1. Init => OrderlyIfTidy
  BY OrderlyInit DEF OrderlyIfTidy
<1>2. Safe /\ OrderlyIfTidy => NothingStale
  <2>1. SUFFICES ASSUME Safe, Orderly, NEW c \in head
                 PROVE  /\ c = csock[By[c]] /\ side[c] = "open"
                        /\ pc[By[c]] \in {"data", "token", "check", "auth"}
    BY DEF OrderlyIfTidy, NothingStale
  <2>2. c \in Waiting
    BY DEF Waiting
  <2>3. c = csock[By[c]]
    BY <2>1, ListedIsCommand
  <2>4. /\ side[c] = "open"
        /\ pc[By[c]] \in {"data", "token", "check", "auth"}
    BY <2>1, <2>2 DEF Orderly, WaitsForIts
  <2>5. QED BY <2>3, <2>4
<1>3. QED BY SafeInit, SafeNext, OrderlyNext, <1>1, <1>2, PTL DEF Spec
-----------------------------------------------------------------------------
(***************************************************************************)
(* No living connection is forgotten: Pairing's SocketsKnown.  It needs no *)
(* more than Stages, equal tokens or not.                                  *)
(***************************************************************************)
Known ==
  \A c \in Conns :
    side[c] = "open" => c \in {sock[By[c]], csock[By[c]], dsock[By[c]]}

KnownIfWhole == ~torn => Stages /\ Known

\* client_connect returns: what it has made is now one of the two sockets.
LEMMA ConnectedKnown ==
  ASSUME TypeOK, Owned, Stages, Known, NEW d \in Daemons,
         NEW role \in {"cmd", "data"}, NEW c \in Conns \cup {NoConn},
         Connected(d, role, c), UNCHANGED <<alive, side>>,
         \/ pc[d] = "token" /\ c = sock[d] /\ role = As[c]
         \/ pc[d] = role /\ c = NoConn /\ ~alive
  PROVE  Stages' /\ Known'
<1> USE Typing
<1>1. /\ pc' = [pc EXCEPT ![d] = IF role = "cmd" THEN "data" ELSE "check"]
      /\ csock' = IF role = "cmd" THEN [csock EXCEPT ![d] = c] ELSE csock
      /\ dsock' = IF role = "cmd" THEN dsock ELSE [dsock EXCEPT ![d] = c]
      /\ sock' = [sock EXCEPT ![d] = NoConn]
  BY DEF Connected
<1>2. /\ sock[d] = c \/ (sock[d] = NoConn /\ c = NoConn)
      /\ dsock[d] = NoConn
      /\ role = "cmd" => csock[d] = NoConn
  BY DEF Stages
<1>3. Stages'
  BY <1>1 DEF Stages
<1>4. Known'
  BY <1>1, <1>2 DEF Known
<1>5. QED BY <1>3, <1>4

\* The old sockets are closed before they are forgotten.
LEMMA ClosedBeforeForgotten ==
  ASSUME TypeOK, Owned, Stages, Known, NEW d \in Daemons, Exit(d) \/ Restart(d),
         UNCHANGED alive
  PROVE  Stages' /\ Known'
<1> USE Typing
<1>1. pc' = [pc EXCEPT ![d] = "gone"] \/ pc' = [pc EXCEPT ![d] = "cmd"]
  BY DEF Exit, Restart
<1>2. /\ sock' = [sock EXCEPT ![d] = NoConn]
      /\ csock' = [csock EXCEPT ![d] = NoConn]
      /\ dsock' = [dsock EXCEPT ![d] = NoConn]
  BY DEF Exit, Restart, Forget
<1>3. Stages'
  BY <1>1, <1>2 DEF Stages
<1>4. \A c \in Conns : side'[c] = "open" =>
        side[c] = "open" /\ c \notin {sock[d], csock[d], dsock[d]}
  BY DEF Exit, Restart, Close, Owned
<1>5. Known'
  BY <1>2, <1>4 DEF Known
<1>6. QED BY <1>3, <1>5

LEMMA DaemonKnown ==
  ASSUME TypeOK, Owned, Stages, Known, ~torn, NEW d \in Daemons,
         DConnect(d) \/ DToken(d) \/ DPassword(d) \/ DaemonRest(d)
  PROVE  Stages' /\ Known'
<1> USE Typing
<1>1. CASE DConnect(d)
  <2>1. PICK c \in Conns : /\ By[c] = d /\ As[c] = pc[d]
                           /\ sock' = [sock EXCEPT ![d] = c]
                           /\ side' = [side EXCEPT ![c] = "open"]
                           /\ pc' = [pc EXCEPT ![d] = "token"]
                           /\ UNCHANGED <<csock, dsock, alive>>
    BY <1>1, ConnectEffect
  <2>2. pc[d] \in {"cmd", "data"} /\ alive
    BY <1>1 DEF DConnect, Roles
  <2>3. sock[d] = NoConn /\ dsock[d] = NoConn
        /\ (pc[d] = "cmd" <=> csock[d] = NoConn)
    BY <2>2 DEF Stages
  <2>4. Stages'
    BY <2>1, <2>2, <2>3 DEF Stages
  <2>5. Known'
    BY <2>1, <2>3 DEF Known
  <2>6. QED BY <2>4, <2>5
<1>2. CASE DToken(d)
  <2>1. pc[d] = "token" /\ sock[d] \in Conns /\ As[sock[d]] \in {"cmd", "data"}
    BY <1>2 DEF DToken, Stages
  <2>2. UNCHANGED alive
    BY <1>2 DEF DToken, serverVars
  <2>3. CASE Connected(d, As[sock[d]], sock[d]) /\ UNCHANGED side
    BY <2>1, <2>2, <2>3, ConnectedKnown
  <2>4. CASE Throw(d)
    BY <2>2, <2>4, ClosedBeforeForgotten DEF Throw
  <2>5. QED BY <1>2, <2>3, <2>4 DEF DToken
<1>3. CASE DPassword(d)
  <2>1. pc[d] = "check" /\ pc' = [pc EXCEPT ![d] = "auth"]
        /\ UNCHANGED <<sock, csock, dsock, side, alive>>
    BY <1>3 DEF DPassword, serverVars
  <2>2. QED BY <2>1 DEF Stages, Known
<1>4. CASE DRefused(d)
  <2>1. pc[d] \in {"cmd", "data"} /\ ~alive /\ Connected(d, pc[d], NoConn)
        /\ UNCHANGED <<alive, side>>
    BY <1>4 DEF DRefused, Roles, connVars, serverVars
  <2>2. QED BY <2>1, ConnectedKnown
<1>5. CASE DaemonRest(d) /\ ~DRefused(d)
  <2>1. UNCHANGED alive
    BY <1>5, DaemonRestEffect DEF serverVars
  <2>2. CASE Exit(d) \/ Restart(d)
    BY <2>1, <2>2, ClosedBeforeForgotten
  <2>3. CASE /\ UNCHANGED <<side, sock, csock, dsock>>
             /\ \/ pc[d] = "off" /\ pc' = [pc EXCEPT ![d] = "cmd"]
                \/ pc[d] = "check" /\ pc' = [pc EXCEPT ![d] = "cmd"]
                      /\ NoConn \in {csock[d], dsock[d]}
                \/ pc[d] = "auth" /\ pc' = [pc EXCEPT ![d] = "up"]
    <3>1. Stages'
      BY <2>1, <2>3 DEF Stages
    <3>2. Known'
      BY <2>3 DEF Known
    <3>3. QED BY <3>1, <3>2
  <2>4. QED
    BY <1>5, <2>2, <2>3
       DEF DaemonRest, DStart, DRetry, DAnswered, DLost, DGivesUp, DKilled, Throw,
           connVars
<1>6. QED BY <1>1, <1>2, <1>3, <1>4, <1>5

LEMMA KnownNext ==
  ASSUME Safe, KnownIfWhole, [Next]_vars
  PROVE  KnownIfWhole'
<1> USE Typing DEF Safe
<1>1. UNCHANGED torn
  BY DEF Next, vars, inputs, DStart, DConnect, DRefused, DToken, DRetry, DPassword,
         DAnswered, DLost, DGivesUp, DKilled, SAccept, SPair, SList, TAuth, TAuthEof,
         TAuthData, TEof, TDataEof, TGivesUp, Cut, CrashServer, StartServer
<1>2. SUFFICES ASSUME ~torn
               PROVE  Stages' /\ Known'
  BY <1>1 DEF KnownIfWhole
<1>3. Stages /\ Known
  BY <1>2 DEF KnownIfWhole
<1>4. ASSUME NEW d \in Daemons, DConnect(d) \/ DToken(d) \/ DPassword(d) \/ DaemonRest(d)
      PROVE  Stages' /\ Known'
  BY <1>2, <1>3, <1>4, DaemonKnown
<1>5. ASSUME UNCHANGED <<pc, sock, csock, dsock, alive>>,
             \A c \in Conns : side'[c] = "open" => side[c] = "open"
      PROVE  Stages' /\ Known'
  BY <1>3, <1>5 DEF Stages, Known
<1>6. CASE SAccept \/ SPair \/ SList \/ UNCHANGED vars
  BY <1>5, <1>6 DEF SAccept, SPair, SList, vars, daemonVars, connVars, serverVars
<1>7. ASSUME NEW c \in Conns, ThreadStep(c)
      PROVE  Stages' /\ Known'
  BY <1>5, <1>7, ThreadEffect DEF daemonVars
<1>8. ASSUME NEW c \in Conns, Cut(c)
      PROVE  Stages' /\ Known'
  BY <1>5, <1>8 DEF Cut, daemonVars, serverVars
<1>9. CASE CrashServer \/ StartServer
  <2>1. /\ \A d \in Daemons : ~Midway(d)
        /\ UNCHANGED <<pc, sock, csock, dsock, side>>
    BY <1>2, <1>9 DEF CrashServer, StartServer, Undisturbed, connVars, daemonVars
  <2>2. Stages'
    BY <1>3, <2>1 DEF Stages, Midway
  <2>3. QED BY <1>3, <2>1, <2>2 DEF Known
<1>10. QED BY <1>4, <1>6, <1>7, <1>8, <1>9, NextCases

\* Every living connection is one of its daemon's sockets (client_daemon.c,
\* 550-561), whatever the tokens are, unless a failure meets a half-made pair.
THEOREM NoneForgotten == Spec => []SocketsKnown
<1>1. Init => KnownIfWhole
  BY DEF Init, KnownIfWhole, Stages, Known
<1>2. KnownIfWhole => SocketsKnown
  BY DEF KnownIfWhole, Known, SocketsKnown, Reaches
<1>3. QED BY SafeInit, SafeNext, KnownNext, <1>1, <1>2, PTL DEF Spec
=============================================================================
