--------------------------- MODULE PairingSafety ----------------------------
(***************************************************************************)
(* What holds in Pairing whatever fails, proved for any number of daemons  *)
(* and connections and for any tokens.                                     *)
(***************************************************************************)
EXTENDS PairingProofs

\* A thread exists exactly for a pair.
ThreadsPaired == \A c \in Conns : thr[c] # "none" <=> mate[c] # NoConn

\* A daemon's sockets are its own connections.
Owned ==
  \A d \in Daemons :
    /\ sock[d] # NoConn => By[sock[d]] = d
    /\ csock[d] # NoConn => By[csock[d]] = d
    /\ dsock[d] # NoConn => By[dsock[d]] = d
    /\ pc[d] = "token" => sock[d] # NoConn

\* On a connection just made nothing was said.
Unsaid ==
  \A d \in Daemons :
    pc[d] = "token" /\ side[sock[d]] = "open" => said[sock[d]] = "nothing"

Safe == /\ TypeOK /\ OneUser /\ TokensListedOnce
        /\ ThreadsPaired /\ Owned /\ Unsaid /\ OnlyWithPassword

-----------------------------------------------------------------------------
(***************************************************************************)
(* Who does what.                                                          *)
(***************************************************************************)
\* The actions of a daemon that is not connecting and not talking.
DaemonRest(d) ==
  DStart(d) \/ DRefused(d) \/ DRetry(d) \/ DAnswered(d) \/ DLost(d)
    \/ DGivesUp(d) \/ DKilled(d)

ThreadStep(c) ==
  TAuth(c) \/ TAuthEof(c) \/ TAuthData(c) \/ TEof(c) \/ TDataEof(c) \/ TGivesUp(c)

LEMMA NextCases ==
  ASSUME [Next]_vars
  PROVE  \/ \E d \in Daemons : DConnect(d) \/ DToken(d) \/ DPassword(d) \/ DaemonRest(d)
         \/ SAccept \/ SPair \/ SList
         \/ \E c \in Conns : ThreadStep(c) \/ Cut(c)
         \/ CrashServer \/ StartServer \/ UNCHANGED vars
BY Zenon DEF Next, DaemonRest, ThreadStep

\* A thread that ends, or goes on to serve after authenticating.
LEMMA ThreadEffect ==
  ASSUME NEW c \in Conns, ThreadStep(c)
  PROVE  /\ thr[c] # "none"
         /\ \/ Dealloc(c)
            \/ Serve(c) /\ (side[c] = "open" => said[c] = "password" /\ By[c] \notin wrong)
         /\ UNCHANGED <<inputs, daemonVars, side, alive, queue, listVars>>
<1>1. CASE TAuth(c)
  BY <1>1 DEF TAuth
<1>2. CASE TAuthEof(c)
  BY <1>2 DEF TAuthEof
<1>3. CASE TAuthData(c)
  BY <1>3 DEF TAuthData
<1>4. CASE TEof(c) \/ TDataEof(c) \/ TGivesUp(c)
  BY <1>4 DEF TEof, TDataEof, TGivesUp
<1>5. QED BY <1>1, <1>2, <1>3, <1>4 DEF ThreadStep

\* The rest of a daemon makes no connection and says nothing.
LEMMA DaemonRestEffect ==
  ASSUME NEW d \in Daemons, DaemonRest(d)
  PROVE  /\ UNCHANGED <<inputs, said, serverVars>>
         /\ \/ Exit(d) \/ Restart(d)
            \/ UNCHANGED side /\ Connected(d, pc[d], NoConn)
            \/ /\ UNCHANGED <<side, sock, csock, dsock>>
               /\ pc' = [pc EXCEPT ![d] = "cmd"] \/ pc' = [pc EXCEPT ![d] = "up"]
<1>1. CASE DStart(d)
  BY <1>1 DEF DStart, connVars
<1>2. CASE DRefused(d)
  BY <1>2 DEF DRefused, connVars
<1>3. CASE DRetry(d)
  BY <1>3 DEF DRetry
<1>4. CASE DAnswered(d)
  BY <1>4 DEF DAnswered, Throw
<1>5. CASE DLost(d) \/ DGivesUp(d) \/ DKilled(d)
  BY <1>5 DEF DLost, DGivesUp, DKilled
<1>6. QED BY <1>1, <1>2, <1>3, <1>4, <1>5 DEF DaemonRest

\* A new connection is nobody's yet.
LEMMA ConnectEffect ==
  ASSUME NEW d \in Daemons, DConnect(d)
  PROVE  \E c \in Conns \ Held :
           /\ By[c] = d /\ As[c] = pc[d] /\ side[c] = "closed"
           /\ sock' = [sock EXCEPT ![d] = c]
           /\ side' = [side EXCEPT ![c] = "open"]
           /\ said' = [said EXCEPT ![c] = "nothing"]
           /\ answer' = [answer EXCEPT ![c] = "none"]
           /\ queue' = Append(queue, c)
           /\ pc' = [pc EXCEPT ![d] = "token"]
           /\ UNCHANGED <<inputs, csock, dsock, alive, listVars, threadVars>>
<1>1. (CHOOSE x \in Free(d) : TRUE) \in Free(d)
  BY DEF DConnect
<1>2. PICK c \in Free(d) : /\ sock' = [sock EXCEPT ![d] = c]
                           /\ side' = [side EXCEPT ![c] = "open"]
                           /\ said' = [said EXCEPT ![c] = "nothing"]
                           /\ answer' = [answer EXCEPT ![c] = "none"]
                           /\ queue' = Append(queue, c)
  BY <1>1 DEF DConnect
<1>3. pc' = [pc EXCEPT ![d] = "token"]
      /\ UNCHANGED <<inputs, csock, dsock, alive, listVars, threadVars>>
  BY DEF DConnect
<1>4. c \in Conns \ Held /\ By[c] = d /\ As[c] = pc[d] /\ side[c] = "closed"
  BY DEF Free
<1>5. QED BY <1>2, <1>3, <1>4

-----------------------------------------------------------------------------
(***************************************************************************)
(* Every descriptor has one user.                                          *)
(***************************************************************************)
LEMMA OneUserKept ==
  ASSUME TypeOK, OneUser, ThreadsPaired, [Next]_vars
  PROVE  OneUser'
<1> USE DEF Queued, Pairs
<1>0. /\ queue \in Seq(Conns) /\ asked \in Conns \cup {NoConn} /\ head \subseteq Conns
      /\ mate \in [Conns -> Conns \cup {NoConn}] /\ NoConn \notin Conns
  BY PairingAssumption DEF TypeOK
<1>1. ASSUME NEW d \in Daemons, DConnect(d) PROVE OneUser'
  <2>1. PICK c \in Conns \ Held : queue' = Append(queue, c)
    BY <1>1, ConnectEffect
  <2>2. UNCHANGED <<asked, head, mate>>
    BY <1>1 DEF DConnect, listVars, threadVars
  <2>3. c \notin Queued /\ c # asked /\ c \notin head /\ c \notin Pairs
        /\ \A b \in Pairs : mate[b] # c
    BY <1>0, <2>1 DEF Held
  <2>4. Queued' \subseteq Queued \cup {c}
    <3>1. /\ Len(queue') = Len(queue) + 1
          /\ \A i \in 1..Len(queue) : queue'[i] = queue[i]
          /\ queue'[Len(queue) + 1] = c
      BY <1>0, <2>1
    <3>2. \A i \in 1..Len(queue') : i \in 1..Len(queue) \/ i = Len(queue) + 1
      BY <1>0, <3>1
    <3>3. ASSUME NEW x \in Queued' PROVE x \in Queued \cup {c}
      <4>1. PICK i \in 1..Len(queue') : x = queue'[i]
        OBVIOUS
      <4>2. CASE i \in 1..Len(queue)
        <5>1. x = queue[i]
          BY <3>1, <4>1, <4>2
        <5>2. QED BY <4>2, <5>1
      <4>3. CASE i = Len(queue) + 1
        BY <3>1, <4>1, <4>3
      <4>4. QED BY <3>2, <4>2, <4>3
    <3>4. QED BY <3>3, Zenon
  <2>5. \A i, j \in 1..Len(queue') : queue'[i] = queue'[j] => i = j
    BY <1>0, <2>1, <2>3 DEF OneUser
  <2>6. Queued' \cap ({asked'} \cup head') = {} /\ asked' \notin head'
    <3>1. Queued \cap ({asked} \cup head) = {} /\ asked \notin head
      BY DEF OneUser
    <3> HIDE DEF Queued
    <3>2. QED BY <2>2, <2>3, <2>4, <3>1
  <2>7. \A b \in Pairs' : {b, mate'[b]} \cap (Queued' \cup {asked'} \cup head') = {}
    BY <1>0, <2>2, <2>3, <2>4 DEF OneUser
  <2>8. \A a, b \in Pairs' : mate'[a] # b /\ (mate'[a] = mate'[b] => a = b)
    BY <2>2 DEF OneUser
  <2>9. QED BY <2>5, <2>6, <2>7, <2>8 DEF OneUser
<1>2. CASE SAccept
  <2>1. asked = NoConn /\ asked' = Head(queue) /\ queue' = Tail(queue) /\ queue # <<>>
        /\ UNCHANGED <<head, mate>>
    BY <1>2 DEF SAccept, threadVars
  <2>2. /\ Len(queue') = Len(queue) - 1 /\ asked' = queue[1]
        /\ \A i \in 1..Len(queue') : queue'[i] = queue[i + 1]
    BY <1>0, <2>1
  <2>3. Queued' \subseteq Queued /\ asked' \in Queued
    BY <1>0, <2>1, <2>2
  <2>4. \A i, j \in 1..Len(queue') : queue'[i] = queue'[j] => i = j
    BY <1>0, <2>2 DEF OneUser
  <2>5. asked' \notin Queued'
    BY <1>0, <2>1, <2>2 DEF OneUser
  <2>6. Queued' \cap ({asked'} \cup head') = {} /\ asked' \notin head'
    BY <2>1, <2>3, <2>5 DEF OneUser
  <2>7. \A b \in Pairs' : {b, mate'[b]} \cap (Queued' \cup {asked'} \cup head') = {}
    BY <2>1, <2>3 DEF OneUser
  <2>8. \A a, b \in Pairs' : mate'[a] # b /\ (mate'[a] = mate'[b] => a = b)
    BY <2>1 DEF OneUser
  <2>9. QED BY <2>4, <2>6, <2>7, <2>8 DEF OneUser
<1>3. CASE SPair
  <2>1. PICK e \in head : /\ mate' = [mate EXCEPT ![e] = asked]
                          /\ head' = head \ {e}
    BY <1>3 DEF SPair
  <2>2. asked \in Conns /\ asked' = NoConn /\ UNCHANGED queue
    BY <1>0, <1>3 DEF SPair
  <2>3. e \in Conns /\ e # asked /\ e \notin Queued /\ e \notin Pairs
        /\ \A b \in Pairs : mate[b] # e /\ mate[b] # asked /\ b # asked
    BY <1>0, <2>1, <2>2 DEF OneUser
  <2>4. mate'[e] = asked /\ \A b \in Conns \ {e} : mate'[b] = mate[b]
    BY <1>0, <2>1, <2>3
  <2>5. Pairs' = Pairs \cup {e}
    BY <1>0, <2>2, <2>3, <2>4
  <2>6. Queued' = Queued
    BY <2>2
  <2>7. asked \notin Queued /\ asked \notin head
    BY <2>2 DEF OneUser
  <2>8. \A c \in Pairs' : {c, mate'[c]} \cap (Queued' \cup {asked'} \cup head') = {}
    BY <1>0, <2>1, <2>2, <2>3, <2>4, <2>5, <2>6, <2>7 DEF OneUser
  <2>9. \A b, c \in Pairs' : mate'[b] # c /\ (mate'[b] = mate'[c] => b = c)
    BY <1>0, <2>2, <2>3, <2>4, <2>5 DEF OneUser
  <2>10. Queued' \cap ({asked'} \cup head') = {} /\ asked' \notin head'
    BY <1>0, <2>1, <2>2, <2>6 DEF OneUser
  <2>11. QED BY <2>2, <2>8, <2>9, <2>10 DEF OneUser
<1>4. CASE SList
  <2>1. asked \in Conns /\ asked' = NoConn /\ head' = head \cup {asked}
        /\ UNCHANGED <<queue, mate>>
    BY <1>0, <1>4 DEF SList, threadVars
  <2>2. QED BY <1>0, <2>1 DEF OneUser
<1>5. ASSUME NEW c \in Conns, ThreadStep(c) PROVE OneUser'
  <2>1. UNCHANGED <<queue, asked, head>>
    BY <1>5, ThreadEffect DEF listVars
  <2>2. \A b \in Conns : mate'[b] \in {mate[b], NoConn}
    BY <1>0, <1>5, ThreadEffect DEF Dealloc, Serve
  <2>3. Pairs' \subseteq Pairs /\ \A b \in Pairs' : mate'[b] = mate[b]
    BY <2>2
  <2>4. Queued' = Queued
    BY <2>1
  <2>5. /\ \A i, j \in 1..Len(queue') : queue'[i] = queue'[j] => i = j
        /\ Queued' \cap ({asked'} \cup head') = {} /\ asked' \notin head'
    BY <2>1, <2>4 DEF OneUser
  <2> HIDE DEF Queued, Pairs
  <2>6. \A b \in Pairs' : {b, mate'[b]} \cap (Queued' \cup {asked'} \cup head') = {}
    BY <2>1, <2>3, <2>4 DEF OneUser
  <2>7. \A a, b \in Pairs' : mate'[a] # b /\ (mate'[a] = mate'[b] => a = b)
    BY <2>3 DEF OneUser
  <2>8. QED BY <2>5, <2>6, <2>7 DEF OneUser
<1>6. CASE CrashServer
  <2>1. queue' = <<>> /\ asked' = NoConn /\ head' = {}
        /\ mate' = [c \in Conns |-> NoConn]
    BY <1>6 DEF CrashServer
  <2>2. Queued' = {} /\ Pairs' = {}
    BY <2>1
  <2>3. QED BY <2>1, <2>2 DEF OneUser
<1>7. ASSUME UNCHANGED <<queue, asked, head, mate>> PROVE OneUser'
  BY <1>7 DEF OneUser
<1>8. QED
  <2>1. ASSUME NEW d \in Daemons, DToken(d) \/ DPassword(d)
        PROVE  UNCHANGED <<queue, asked, head, mate>>
    BY <2>1 DEF DToken, DPassword, serverVars, listVars, threadVars
  <2>2. ASSUME NEW d \in Daemons, DaemonRest(d)
        PROVE  UNCHANGED <<queue, asked, head, mate>>
    BY <2>2, DaemonRestEffect DEF serverVars, listVars, threadVars
  <2>3. ASSUME (\E c \in Conns : Cut(c)) \/ StartServer \/ UNCHANGED vars
        PROVE  UNCHANGED <<queue, asked, head, mate>>
    BY <2>3 DEF Cut, StartServer, vars, serverVars, listVars, threadVars
  <2>4. QED BY <1>1, <1>2, <1>3, <1>4, <1>5, <1>6, <1>7, <2>1, <2>2, <2>3, NextCases

-----------------------------------------------------------------------------
\* Tokens are listed once.
LEMMA TokensKept ==
  ASSUME TypeOK, TokensListedOnce, [Next]_vars
  PROVE  TokensListedOnce'
<1>0. head \subseteq Conns /\ heard \in [Conns -> Tokens \cup {Noise}]
      /\ asked \in Conns \cup {NoConn}
  BY DEF TypeOK
<1>1. CASE SPair
  <2>1. PICK e \in head : head' = head \ {e} /\ heard' = [heard EXCEPT ![e] = Noise]
    BY <1>1 DEF SPair
  <2>2. QED BY <1>0, <2>1 DEF TokensListedOnce
<1>2. CASE SList
  <2>1. /\ asked \in Conns /\ head' = head \cup {asked}
        /\ heard' = [heard EXCEPT ![asked] = Heard(asked)]
        /\ \A e \in head : heard[e] # Heard(asked)
    BY <1>0, <1>2 DEF SList, Match
  <2>2. QED BY <1>0, <2>1 DEF TokensListedOnce
<1>3. CASE CrashServer
  BY <1>3 DEF CrashServer, TokensListedOnce
<1>4. ASSUME UNCHANGED <<head, heard>> PROVE TokensListedOnce'
  BY <1>4 DEF TokensListedOnce
<1>5. QED
  <2>1. ASSUME NEW d \in Daemons, DToken(d) \/ DPassword(d) \/ DConnect(d)
        PROVE  UNCHANGED <<head, heard>>
    BY <2>1 DEF DToken, DPassword, DConnect, serverVars, listVars
  <2>2. ASSUME NEW d \in Daemons, DaemonRest(d)
        PROVE  UNCHANGED <<head, heard>>
    BY <2>2, DaemonRestEffect DEF serverVars, listVars
  <2>3. ASSUME NEW c \in Conns, ThreadStep(c)
        PROVE  UNCHANGED <<head, heard>>
    BY <2>3, ThreadEffect DEF listVars
  <2>4. ASSUME (\E c \in Conns : Cut(c)) \/ StartServer \/ SAccept \/ UNCHANGED vars
        PROVE  UNCHANGED <<head, heard>>
    BY <2>4 DEF Cut, StartServer, SAccept, vars, serverVars, listVars
  <2>5. QED BY <1>1, <1>2, <1>3, <1>4, <2>1, <2>2, <2>3, <2>4, NextCases

-----------------------------------------------------------------------------
LEMMA ThreadsPairedKept ==
  ASSUME TypeOK, ThreadsPaired, [Next]_vars
  PROVE  ThreadsPaired'
<1>0. /\ thr \in [Conns -> {"none", "auth", "serve"}] /\ head \subseteq Conns
      /\ mate \in [Conns -> Conns \cup {NoConn}]
  BY DEF TypeOK
<1>1. CASE SPair
  <2>1. PICK e \in head : /\ mate' = [mate EXCEPT ![e] = asked]
                          /\ thr' = [thr EXCEPT ![e] = "auth"]
    BY <1>1 DEF SPair
  <2>2. asked # NoConn
    BY <1>1 DEF SPair
  <2>3. QED BY <1>0, <2>1, <2>2 DEF ThreadsPaired
<1>2. ASSUME NEW c \in Conns, ThreadStep(c) PROVE ThreadsPaired'
  <2>1. CASE Dealloc(c)
    BY <1>0, <2>1 DEF Dealloc, ThreadsPaired
  <2>2. CASE Serve(c)
    BY <1>0, <1>2, <2>2, ThreadEffect DEF Serve, ThreadsPaired
  <2>3. QED BY <1>2, <2>1, <2>2, ThreadEffect
<1>3. CASE CrashServer
  BY <1>3 DEF CrashServer, ThreadsPaired
<1>4. ASSUME UNCHANGED threadVars PROVE ThreadsPaired'
  BY <1>4 DEF threadVars, ThreadsPaired
<1>5. QED
  <2>1. ASSUME NEW d \in Daemons, DToken(d) \/ DPassword(d) \/ DConnect(d)
        PROVE  UNCHANGED threadVars
    BY <2>1 DEF DToken, DPassword, DConnect, serverVars
  <2>2. ASSUME NEW d \in Daemons, DaemonRest(d)
        PROVE  UNCHANGED threadVars
    BY <2>2, DaemonRestEffect DEF serverVars
  <2>3. ASSUME \/ \E c \in Conns : Cut(c)
               \/ StartServer \/ SAccept \/ SList \/ UNCHANGED vars
        PROVE  UNCHANGED threadVars
    BY <2>3 DEF Cut, StartServer, SAccept, SList, vars, serverVars
  <2>4. QED BY <1>1, <1>2, <1>3, <1>4, <2>1, <2>2, <2>3, NextCases

-----------------------------------------------------------------------------
\* A daemon's sockets stay its own.
LEMMA OwnedKept ==
  ASSUME TypeOK, Owned, [Next]_vars
  PROVE  Owned'
<1>0. /\ pc \in [Daemons -> {"off", "token", "check", "auth", "up", "gone"} \cup Roles]
      /\ sock \in [Daemons -> Conns \cup {NoConn}]
      /\ csock \in [Daemons -> Conns \cup {NoConn}]
      /\ dsock \in [Daemons -> Conns \cup {NoConn}]
      /\ NoConn \notin Conns
  BY PairingAssumption DEF TypeOK
<1>1. ASSUME NEW d \in Daemons, DConnect(d) PROVE Owned'
  <2>1. PICK c \in Conns : /\ By[c] = d /\ sock' = [sock EXCEPT ![d] = c]
                           /\ pc' = [pc EXCEPT ![d] = "token"]
                           /\ UNCHANGED <<csock, dsock>>
    BY <1>1, ConnectEffect
  <2>2. QED BY <1>0, <2>1 DEF Owned
<1>2. ASSUME NEW d \in Daemons, NEW role, NEW c \in Conns \cup {NoConn},
             c # NoConn => By[c] = d, Connected(d, role, c)
      PROVE  Owned'
  BY <1>0, <1>2 DEF Connected, Owned
<1>3. ASSUME NEW d \in Daemons, Exit(d) \/ Restart(d) PROVE Owned'
  <2>1. pc' = [pc EXCEPT ![d] = "gone"] \/ pc' = [pc EXCEPT ![d] = "cmd"]
    BY <1>3 DEF Exit, Restart
  <2>2. Forget(d)
    BY <1>3 DEF Exit, Restart
  <2>3. QED BY <1>0, <2>1, <2>2 DEF Forget, Owned
<1>4. ASSUME NEW d \in Daemons, DToken(d) PROVE Owned'
  <2>1. CASE Connected(d, As[sock[d]], sock[d])
    BY <1>0, <1>2, <2>1 DEF Owned
  <2>2. CASE Throw(d)
    BY <1>3, <2>2 DEF Throw
  <2>3. QED BY <1>4, <2>1, <2>2 DEF DToken
<1>5. ASSUME NEW d \in Daemons, UNCHANGED <<sock, csock, dsock>>,
             \E where \in {"cmd", "up", "auth"} : pc' = [pc EXCEPT ![d] = where]
      PROVE  Owned'
  BY <1>0, <1>5 DEF Owned
<1>6. ASSUME NEW d \in Daemons, DPassword(d) PROVE Owned'
  BY <1>5, <1>6 DEF DPassword
<1>7. ASSUME NEW d \in Daemons, DaemonRest(d) PROVE Owned'
  <2>1. CASE Connected(d, pc[d], NoConn)
    BY <1>2, <2>1
  <2>2. QED BY <1>3, <1>5, <1>7, <2>1, DaemonRestEffect
<1>8. ASSUME UNCHANGED daemonVars PROVE Owned'
  BY <1>8 DEF daemonVars, Owned
<1>9. QED
  <2>1. ASSUME NEW c \in Conns, ThreadStep(c) PROVE UNCHANGED daemonVars
    BY <2>1, ThreadEffect
  <2>2. ASSUME \/ \E c \in Conns : Cut(c)
               \/ CrashServer \/ StartServer \/ SAccept \/ SPair \/ SList
               \/ UNCHANGED vars
        PROVE  UNCHANGED daemonVars
    BY <2>2 DEF Cut, CrashServer, StartServer, SAccept, SPair, SList, vars
  <2>3. QED BY <1>1, <1>4, <1>6, <1>7, <1>8, <2>1, <2>2, NextCases

-----------------------------------------------------------------------------
LEMMA UnsaidKept ==
  ASSUME TypeOK, Owned, Unsaid, [Next]_vars
  PROVE  Unsaid'
<1>0. /\ pc \in [Daemons -> {"off", "token", "check", "auth", "up", "gone"} \cup Roles]
      /\ sock \in [Daemons -> Conns \cup {NoConn}]
      /\ csock \in [Daemons -> Conns \cup {NoConn}]
      /\ side \in [Conns -> {"open", "cut", "closed"}]
      /\ said \in [Conns -> {"nothing", "token", "password"}]
      /\ NoConn \notin Conns
  BY PairingAssumption DEF TypeOK
<1>1. SUFFICES ASSUME NEW d \in Daemons, pc'[d] = "token", side'[sock'[d]] = "open"
               PROVE  said'[sock'[d]] = "nothing"
  BY DEF Unsaid
\* A step that leaves this daemon at "token" and says nothing more.
<1>2. ASSUME pc[d] = "token", sock'[d] = sock[d],
             side'[sock[d]] = "open" => side[sock[d]] = "open",
             said'[sock[d]] \in {said[sock[d]], "nothing"}
      PROVE  said'[sock'[d]] = "nothing"
  BY <1>1, <1>2 DEF Unsaid
<1>3. ASSUME pc[d] = "token" PROVE sock[d] \in Conns /\ By[sock[d]] = d
  BY <1>0, <1>3 DEF Owned
<1>4. ASSUME NEW e \in Daemons, DConnect(e) PROVE said'[sock'[d]] = "nothing"
  <2>1. PICK c \in Conns : /\ By[c] = e
                           /\ sock' = [sock EXCEPT ![e] = c]
                           /\ side' = [side EXCEPT ![c] = "open"]
                           /\ said' = [said EXCEPT ![c] = "nothing"]
                           /\ pc' = [pc EXCEPT ![e] = "token"]
    BY <1>4, ConnectEffect
  <2>2. CASE d = e
    BY <1>0, <2>1, <2>2
  <2>3. CASE d # e
    <3>1. pc[d] = "token" /\ sock'[d] = sock[d]
      BY <1>0, <1>1, <2>1, <2>3
    <3>2. sock[d] \in Conns /\ sock[d] # c
      BY <1>3, <2>1, <2>3, <3>1
    <3>3. QED BY <1>0, <1>2, <2>1, <3>1, <3>2
  <2>4. QED BY <2>2, <2>3
<1>5. ASSUME NEW e \in Daemons, Exit(e) \/ Restart(e), UNCHANGED said
      PROVE  said'[sock'[d]] = "nothing"
  <2>1. pc' = [pc EXCEPT ![e] = "gone"] \/ pc' = [pc EXCEPT ![e] = "cmd"]
    BY <1>5 DEF Exit, Restart
  <2>2. d # e /\ pc[d] = "token"
    BY <1>0, <1>1, <2>1
  <2>3. sock'[d] = sock[d]
    BY <1>0, <1>5, <2>2 DEF Exit, Restart, Forget
  <2>4. side'[sock[d]] = "open" => side[sock[d]] = "open"
    <3>1. PICK S : Close(S)
      BY <1>5 DEF Exit, Restart
    <3>2. QED BY <1>3, <2>2, <3>1 DEF Close
  <2>5. QED BY <1>2, <1>5, <2>2, <2>3, <2>4
<1>6. ASSUME NEW e \in Daemons, NEW role, NEW c, Connected(e, role, c),
             UNCHANGED side, said' = said \/ said' = [said EXCEPT ![sock[e]] = "token"]
      PROVE  said'[sock'[d]] = "nothing"
  <2>1. d # e /\ pc[d] = "token" /\ sock'[d] = sock[d]
    BY <1>0, <1>1, <1>6 DEF Connected
  <2>2. sock[e] # sock[d]
    BY <1>0, <1>3, <2>1 DEF Owned
  <2>3. said'[sock[d]] = said[sock[d]]
    BY <1>0, <1>3, <1>6, <2>1, <2>2
  <2>4. QED BY <1>2, <1>6, <2>1, <2>3
<1>7. ASSUME NEW e \in Daemons, DToken(e) PROVE said'[sock'[d]] = "nothing"
  <2>1. CASE /\ said' = IF Reaches(sock[e]) THEN [said EXCEPT ![sock[e]] = "token"]
                                            ELSE said
             /\ Connected(e, As[sock[e]], sock[e])
             /\ UNCHANGED <<fresh, side, answer>>
    BY <1>6, <2>1
  <2>2. CASE Throw(e) /\ UNCHANGED said
    BY <1>5, <2>2 DEF Throw
  <2>3. QED BY <1>7, <2>1, <2>2 DEF DToken
<1>8. ASSUME NEW e \in Daemons, DPassword(e) PROVE said'[sock'[d]] = "nothing"
  <2>1. /\ pc' = [pc EXCEPT ![e] = "auth"] /\ UNCHANGED <<sock, side>>
        /\ said' = said \/ said' = [said EXCEPT ![csock[e]] = "password"]
        /\ csock[e] # NoConn
    BY <1>8 DEF DPassword
  <2>2. d # e /\ pc[d] = "token"
    BY <1>0, <1>1, <2>1
  <2>3. csock[e] # sock[d]
    BY <1>3, <2>1, <2>2 DEF Owned
  <2>4. said'[sock[d]] = said[sock[d]]
    BY <1>0, <1>3, <2>1, <2>2, <2>3
  <2>5. QED BY <1>2, <2>1, <2>2, <2>4
<1>9. ASSUME NEW e \in Daemons, DaemonRest(e) PROVE said'[sock'[d]] = "nothing"
  <2>1. CASE Exit(e) \/ Restart(e)
    BY <1>5, <1>9, <2>1, DaemonRestEffect
  <2>2. CASE UNCHANGED side /\ Connected(e, pc[e], NoConn)
    BY <1>6, <1>9, <2>2, DaemonRestEffect
  <2>3. CASE /\ UNCHANGED <<side, sock, csock, dsock>>
             /\ pc' = [pc EXCEPT ![e] = "cmd"] \/ pc' = [pc EXCEPT ![e] = "up"]
    <3>1. pc[d] = "token"
      BY <1>0, <1>1, <2>3
    <3>2. UNCHANGED said
      BY <1>9, DaemonRestEffect
    <3>3. QED BY <1>2, <2>3, <3>1, <3>2
  <2>4. QED BY <1>9, <2>1, <2>2, <2>3, DaemonRestEffect
<1>10. ASSUME UNCHANGED daemonVars,
              \A c \in Conns : /\ said'[c] \in {said[c], "nothing"}
                               /\ side'[c] = "open" => side[c] = "open"
       PROVE  said'[sock'[d]] = "nothing"
  <2>1. pc[d] = "token" /\ sock'[d] = sock[d]
    BY <1>1, <1>10 DEF daemonVars
  <2>2. QED BY <1>2, <1>3, <1>10, <2>1
<1>11. QED
  <2>1. ASSUME NEW c \in Conns, ThreadStep(c) PROVE said'[sock'[d]] = "nothing"
    <3>1. UNCHANGED <<daemonVars, side>>
      BY <2>1, ThreadEffect
    <3>2. \A x \in Conns : said'[x] \in {said[x], "nothing"}
      BY <2>1, ThreadEffect DEF Dealloc, Serve
    <3>3. QED BY <1>10, <3>1, <3>2
  <2>2. ASSUME NEW c \in Conns, Cut(c) PROVE said'[sock'[d]] = "nothing"
    <3>1. UNCHANGED daemonVars
      BY <2>2 DEF Cut
    <3>2. \A x \in Conns : /\ said'[x] \in {said[x], "nothing"}
                           /\ side'[x] = "open" => side[x] = "open"
      BY <1>0, <2>2 DEF Cut
    <3>3. QED BY <1>10, <3>1, <3>2
  <2>3. CASE CrashServer
    <3>1. UNCHANGED <<daemonVars, side>>
      BY <2>3 DEF CrashServer
    <3>2. \A x \in Conns : said'[x] = "nothing"
      BY <2>3 DEF CrashServer
    <3>3. QED BY <1>10, <3>1, <3>2
  <2>4. CASE StartServer \/ SAccept \/ SPair \/ SList \/ UNCHANGED vars
    <3>1. UNCHANGED <<daemonVars, side, said>>
      BY <2>4 DEF StartServer, SAccept, SPair, SList, vars, connVars
    <3>2. QED BY <1>10, <3>1
  <2>5. QED BY <1>4, <1>7, <1>8, <1>9, <2>1, <2>2, <2>3, <2>4, NextCases

-----------------------------------------------------------------------------
(***************************************************************************)
(* Nobody is served without a password.                                    *)
(***************************************************************************)
LEMMA PasswordKept ==
  ASSUME Safe, [Next]_vars
  PROVE  OnlyWithPassword'
<1>0. /\ pc \in [Daemons -> {"off", "token", "check", "auth", "up", "gone"} \cup Roles]
      /\ sock \in [Daemons -> Conns \cup {NoConn}]
      /\ csock \in [Daemons -> Conns \cup {NoConn}]
      /\ side \in [Conns -> {"open", "cut", "closed"}]
      /\ said \in [Conns -> {"nothing", "token", "password"}]
      /\ mate \in [Conns -> Conns \cup {NoConn}]
      /\ thr \in [Conns -> {"none", "auth", "serve"}]
      /\ head \subseteq Conns
      /\ NoConn \notin Conns
  BY PairingAssumption DEF TypeOK, Safe
<1>a. OneUser /\ ThreadsPaired /\ Owned /\ Unsaid /\ OnlyWithPassword
  BY DEF Safe
<1>b. wrong' = wrong
  BY DEF Next, vars, inputs, DStart, DConnect, DRefused, DToken, DRetry, DPassword,
         DAnswered, DLost, DGivesUp, DKilled, SAccept, SPair, SList, TAuth, TAuthEof,
         TAuthData, TEof, TDataEof, TGivesUp, Cut, CrashServer, StartServer
<1>1. SUFFICES ASSUME NEW c \in Conns, thr'[c] = "serve", side'[c] = "open"
               PROVE  said'[c] = "password" /\ By[c] \notin wrong'
  BY DEF OnlyWithPassword
<1>2. ASSUME thr[c] = "serve", side[c] = "open", said'[c] \in {said[c], "password"}
      PROVE  said'[c] = "password" /\ By[c] \notin wrong'
  BY <1>a, <1>b, <1>2 DEF OnlyWithPassword
<1>3. ASSUME NEW d \in Daemons, DConnect(d)
      PROVE  said'[c] = "password" /\ By[c] \notin wrong'
  <2>1. PICK n \in Conns \ Held : /\ side' = [side EXCEPT ![n] = "open"]
                                  /\ said' = [said EXCEPT ![n] = "nothing"]
                                  /\ UNCHANGED threadVars
    BY <1>3, ConnectEffect
  <2>2. thr[c] = "serve" /\ mate[c] # NoConn
    BY <1>a, <1>1, <2>1 DEF threadVars, ThreadsPaired
  <2>3. c # n
    BY <2>1, <2>2 DEF Held, Pairs
  <2>4. side[c] = "open" /\ said'[c] = said[c]
    BY <1>0, <1>1, <2>1, <2>3
  <2>5. QED BY <1>2, <2>2, <2>4
<1>4. ASSUME NEW d \in Daemons, DToken(d)
      PROVE  said'[c] = "password" /\ By[c] \notin wrong'
  <2>1. UNCHANGED thr
    BY <1>4 DEF DToken, serverVars, threadVars
  <2>2. CASE /\ said' = IF Reaches(sock[d]) THEN [said EXCEPT ![sock[d]] = "token"]
                                            ELSE said
             /\ UNCHANGED <<fresh, side, answer>>
    <3>1. thr[c] = "serve" /\ side[c] = "open"
      BY <1>1, <2>1, <2>2
    <3>2. said[c] = "password"
      BY <1>a, <3>1 DEF OnlyWithPassword
    <3>3. pc[d] = "token"
      BY <1>4 DEF DToken
    <3>4. sock[d] # c
      BY <1>a, <3>1, <3>2, <3>3 DEF Unsaid
    <3>5. said'[c] = said[c]
      BY <1>0, <2>2, <3>4
    <3>6. QED BY <1>2, <3>1, <3>5
  <2>3. CASE Throw(d) /\ UNCHANGED said
    <3>1. PICK S : Close(S)
      BY <2>3 DEF Throw, Exit, Restart
    <3>2. side[c] = "open"
      BY <1>1, <3>1 DEF Close
    <3>3. QED BY <1>1, <1>2, <2>1, <2>3, <3>2
  <2>4. QED BY <1>4, <2>2, <2>3 DEF DToken
<1>5. ASSUME NEW d \in Daemons, DPassword(d)
      PROVE  said'[c] = "password" /\ By[c] \notin wrong'
  <2>1. UNCHANGED <<thr, side>>
    BY <1>5 DEF DPassword, serverVars, threadVars
  <2>2. said' = said \/ said' = [said EXCEPT ![csock[d]] = "password"]
    BY <1>5 DEF DPassword
  <2>3. said'[c] \in {said[c], "password"}
    BY <1>0, <2>2
  <2>4. QED BY <1>1, <1>2, <2>1, <2>3
<1>6. ASSUME UNCHANGED <<thr, said>>, side'[c] = "open" => side[c] = "open"
      PROVE  said'[c] = "password" /\ By[c] \notin wrong'
  BY <1>1, <1>2, <1>6
<1>7. ASSUME NEW d \in Daemons, DaemonRest(d)
      PROVE  said'[c] = "password" /\ By[c] \notin wrong'
  <2>1. UNCHANGED <<thr, said>>
    BY <1>7, DaemonRestEffect DEF serverVars, threadVars
  <2>2. CASE Exit(d) \/ Restart(d)
    <3>1. PICK S : Close(S)
      BY <2>2 DEF Exit, Restart
    <3>2. QED BY <1>1, <1>6, <2>1, <3>1 DEF Close
  <2>3. CASE UNCHANGED side
    BY <1>6, <2>1, <2>3
  <2>4. QED BY <1>7, <2>2, <2>3, DaemonRestEffect
<1>8. CASE SPair
  <2>1. PICK e \in head : thr' = [thr EXCEPT ![e] = "auth"]
    BY <1>8 DEF SPair
  <2>2. UNCHANGED <<side, said>>
    BY <1>8 DEF SPair, connVars
  <2>3. thr[c] = "serve"
    BY <1>0, <1>1, <2>1
  <2>4. QED BY <1>1, <1>2, <2>2, <2>3
<1>9. ASSUME NEW b \in Conns, ThreadStep(b)
      PROVE  said'[c] = "password" /\ By[c] \notin wrong'
  <2>1. UNCHANGED side /\ thr[b] # "none"
    BY <1>9, ThreadEffect
  <2>2. CASE Dealloc(b)
    <3>1. c # b /\ thr[c] = "serve"
      BY <1>0, <1>1, <2>2 DEF Dealloc
    <3>2. b \in Pairs /\ c \in Pairs
      BY <1>a, <2>1, <3>1 DEF Pairs, ThreadsPaired
    <3>3. c # mate[b]
      BY <1>a, <3>2 DEF OneUser
    <3>4. said'[c] = said[c]
      BY <2>2, <3>1, <3>3 DEF Dealloc
    <3>5. QED BY <1>1, <1>2, <2>1, <3>1, <3>4
  <2>3. CASE Serve(b) /\ (side[b] = "open" => said[b] = "password" /\ By[b] \notin wrong)
    <3>1. UNCHANGED said
      BY <2>3 DEF Serve
    <3>2. CASE c = b
      BY <1>b, <1>1, <2>1, <2>3, <3>1, <3>2
    <3>3. CASE c # b
      <4>1. thr[c] = "serve"
        BY <1>0, <1>1, <2>3, <3>3 DEF Serve
      <4>2. QED BY <1>1, <1>2, <2>1, <3>1, <4>1
    <3>4. QED BY <3>2, <3>3
  <2>4. QED BY <1>9, <2>2, <2>3, ThreadEffect
<1>10. ASSUME NEW b \in Conns, Cut(b)
       PROVE  said'[c] = "password" /\ By[c] \notin wrong'
  <2>1. /\ side' = [side EXCEPT ![b] = "cut"] /\ UNCHANGED thr
        /\ said' \in {said, [said EXCEPT ![b] = "nothing"]}
    BY <1>10 DEF Cut, serverVars, threadVars
  <2>2. c # b
    BY <1>0, <1>1, <2>1
  <2>3. side[c] = "open" /\ said'[c] = said[c]
    BY <1>0, <1>1, <2>1, <2>2
  <2>4. QED BY <1>1, <1>2, <2>1, <2>3
<1>11. CASE CrashServer
  BY <1>1, <1>11 DEF CrashServer
<1>12. CASE StartServer \/ SAccept \/ SList \/ UNCHANGED vars
  <2>1. UNCHANGED <<thr, said, side>>
    BY <1>12 DEF StartServer, SAccept, SList, vars, connVars, serverVars, threadVars
  <2>2. QED BY <1>6, <2>1
<1>13. QED
  BY <1>3, <1>4, <1>5, <1>7, <1>8, <1>9, <1>10, <1>11, <1>12, NextCases

-----------------------------------------------------------------------------
LEMMA SafeInit ==
  ASSUME Init
  PROVE  Safe
<1>1. TypeOK
  BY InitTyped
<1>2. OneUser
  BY DEF Init, OneUser, Queued, Pairs
<1>3. TokensListedOnce /\ ThreadsPaired /\ Owned /\ Unsaid /\ OnlyWithPassword
  BY DEF Init, TokensListedOnce, ThreadsPaired, Owned, Unsaid, OnlyWithPassword
<1>4. QED BY <1>1, <1>2, <1>3 DEF Safe

LEMMA SafeNext ==
  ASSUME Safe, [Next]_vars
  PROVE  Safe'
<1>1. TypeOK /\ OneUser /\ TokensListedOnce /\ ThreadsPaired /\ Owned /\ Unsaid
  BY DEF Safe
<1>2. QED BY <1>1, NextTyped, OneUserKept, TokensKept, ThreadsPairedKept, OwnedKept,
             UnsaidKept, PasswordKept DEF Safe

\* No token is listed twice, so that DL_SEARCH has one answer, for any number
\* of daemons with any tokens (server.c, 482).
THEOREM TokensOnce == Spec => []TokensListedOnce
<1>1. Safe => TokensListedOnce
  BY DEF Safe
<1>2. QED BY SafeInit, SafeNext, <1>1, PTL DEF Spec

\* No connection is used by two threads, or by a thread and the list: what
\* dealloc closes is its own (server.c, 170-171).
THEOREM DescriptorsOnce == Spec => []OneUser
<1>1. Safe => OneUser
  BY DEF Safe
<1>2. QED BY SafeInit, SafeNext, <1>1, PTL DEF Spec

\* Whatever fails, and however tokens are mixed up, a thread serves a living
\* connection only if its daemon has sent the right password on it.
THEOREM ServedWithPassword == Spec => []OnlyWithPassword
<1>1. Safe => OnlyWithPassword
  BY DEF Safe
<1>2. QED BY SafeInit, SafeNext, <1>1, PTL DEF Spec
=============================================================================
