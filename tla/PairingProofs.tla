--------------------------- MODULE PairingProofs ----------------------------
(***************************************************************************)
(* Proofs about Pairing, for any number of daemons and connections, any    *)
(* tokens, equal ones included, and any number of failures.                *)
(***************************************************************************)
EXTENDS Pairing, TLAPS

\* Failures stay within their bounds.
LEMMA LimitBounded ==
  ASSUME TypeOK
  PROVE  Limit \in Nat /\ Limit <= MaxBreaks + MaxTorn
<1>1. MaxBreaks \in Nat /\ MaxTorn \in Nat
  BY PairingAssumption
<1>2. CASE ~Distinct
  <2>1. Limit = 0
    BY <1>2 DEF Limit
  <2>2. QED BY <1>1, <2>1
<1>3. CASE Distinct /\ torn
  <2>1. Limit = MaxTorn
    BY <1>3 DEF Limit
  <2>2. QED BY <1>1, <2>1
<1>4. CASE Distinct /\ ~torn
  <2>1. Limit = MaxBreaks
    BY <1>4 DEF Limit
  <2>2. QED BY <1>1, <2>1
<1>5. QED BY <1>2, <1>3, <1>4

\* One more failure than before still is.
LEMMA OneMore ==
  ASSUME TypeOK, breaks < Limit, breaks' = breaks + 1
  PROVE  breaks' \in 0..(MaxBreaks + MaxTorn)
<1>1. breaks \in Nat
  BY PairingAssumption DEF TypeOK
<1>2. QED BY <1>1, LimitBounded, PairingAssumption

-----------------------------------------------------------------------------
(***************************************************************************)
(* Types: of the daemons' variables, of the connections, and of the        *)
(* server's; one lemma for each actor.                                     *)
(***************************************************************************)
DaemonTypes ==
  /\ pc \in [Daemons -> {"off", "token", "check", "auth", "up", "gone"}
                           \cup Roles]
  /\ fresh \in [Daemons -> BOOLEAN]
  /\ sock \in [Daemons -> Conns \cup {NoConn}]
  /\ csock \in [Daemons -> Conns \cup {NoConn}]
  /\ dsock \in [Daemons -> Conns \cup {NoConn}]

SideTypes == /\ side \in [Conns -> {"open", "cut", "closed"}]
             /\ answer \in [Conns -> {"none", "ok", "bad"}]

SaidType == said \in [Conns -> {"nothing", "token", "password"}]

ThreadTypes == /\ mate \in [Conns -> Conns \cup {NoConn}]
               /\ thr \in [Conns -> {"none", "auth", "serve"}]

ListTypes ==
  /\ asked \in Conns \cup {NoConn} /\ message \in Tokens \cup {Noise}
  /\ head \subseteq Conns /\ heard \in [Conns -> Tokens \cup {Noise}]

InputTypes ==
  token \in [Daemons -> Tokens] /\ wrong \subseteq Wrong /\ torn \in BOOLEAN

BreaksType == breaks \in 0..(MaxBreaks + MaxTorn)

\* The same types, in these parts.
LEMMA TypesByParts ==
  TypeOK <=> /\ DaemonTypes /\ SideTypes /\ SaidType /\ ThreadTypes /\ ListTypes
             /\ InputTypes /\ BreaksType /\ alive \in BOOLEAN /\ queue \in Seq(Conns)
BY DEF TypeOK, DaemonTypes, SideTypes, SaidType, ThreadTypes, ListTypes,
       InputTypes, BreaksType

LEMMA TypesByPartsNext ==
  TypeOK' <=> /\ DaemonTypes' /\ SideTypes' /\ SaidType' /\ ThreadTypes'
              /\ ListTypes' /\ InputTypes' /\ BreaksType'
              /\ alive' \in BOOLEAN /\ queue' \in Seq(Conns)
BY DEF TypeOK, DaemonTypes, SideTypes, SaidType, ThreadTypes, ListTypes,
       InputTypes, BreaksType

\* What an action leaves alone keeps its type.
LEMMA Unchanged ==
  ASSUME TypeOK
  PROVE  /\ UNCHANGED daemonVars => DaemonTypes'
         /\ UNCHANGED <<side, answer>> => SideTypes'
         /\ UNCHANGED said => SaidType'
         /\ UNCHANGED threadVars => ThreadTypes'
         /\ UNCHANGED listVars => ListTypes'
         /\ UNCHANGED inputs => InputTypes'
         /\ UNCHANGED breaks => BreaksType'
         /\ UNCHANGED alive => alive' \in BOOLEAN
         /\ UNCHANGED queue => queue' \in Seq(Conns)
<1> USE TypesByParts
<1>1. UNCHANGED daemonVars => DaemonTypes'
  BY DEF daemonVars, DaemonTypes
<1>2. UNCHANGED <<side, answer>> => SideTypes'
  BY DEF SideTypes
<1>3. UNCHANGED said => SaidType'
  BY DEF SaidType
<1>4. UNCHANGED threadVars => ThreadTypes'
  BY DEF threadVars, ThreadTypes
<1>5. UNCHANGED listVars => ListTypes'
  BY DEF listVars, ListTypes
<1>6. UNCHANGED inputs => InputTypes'
  BY DEF inputs, InputTypes
<1>7. UNCHANGED breaks => BreaksType'
  BY DEF BreaksType
<1>8. QED BY <1>1, <1>2, <1>3, <1>4, <1>5, <1>6, <1>7

LEMMA ServerUnchanged ==
  ASSUME TypeOK, UNCHANGED serverVars
  PROVE  ThreadTypes' /\ ListTypes' /\ alive' \in BOOLEAN /\ queue' \in Seq(Conns)
BY Unchanged DEF serverVars

\* A daemon that exits or restarts.
LEMMA Dropped ==
  ASSUME TypeOK, NEW d \in Daemons, Exit(d) \/ Restart(d)
  PROVE  DaemonTypes' /\ SideTypes'
<1> USE TypesByParts
<1>1. pc' = [pc EXCEPT ![d] = "gone"] \/ pc' = [pc EXCEPT ![d] = "cmd"]
  BY DEF Exit, Restart
<1>2. Forget(d)
  BY DEF Exit, Restart
<1>3. DaemonTypes'
  BY <1>1, <1>2 DEF Forget, DaemonTypes, Roles
<1>4. PICK S : Close(S)
  BY DEF Exit, Restart
<1>5. SideTypes'
  BY <1>4 DEF Close, SideTypes
<1>6. QED BY <1>3, <1>5

\* client_connect returns.
LEMMA ConnectedTyped ==
  ASSUME TypeOK, NEW d \in Daemons, NEW role, NEW c \in Conns \cup {NoConn},
         Connected(d, role, c), UNCHANGED fresh
  PROVE  DaemonTypes'
<1> USE TypesByParts DEF Connected, DaemonTypes, Roles
<1>1. pc' \in [Daemons -> {"off", "token", "check", "auth", "up", "gone"}
                           \cup Roles]
  OBVIOUS
<1>2. csock' \in [Daemons -> Conns \cup {NoConn}]
  OBVIOUS
<1>3. dsock' \in [Daemons -> Conns \cup {NoConn}]
  OBVIOUS
<1>4. sock' \in [Daemons -> Conns \cup {NoConn}]
  OBVIOUS
<1>5. QED BY <1>1, <1>2, <1>3, <1>4

\* A step of pc and fresh alone.
LEMMA GoneOn ==
  ASSUME TypeOK, NEW d \in Daemons, NEW where \in {"cmd", "auth", "up"},
         pc' = [pc EXCEPT ![d] = where],
         UNCHANGED fresh \/ fresh' = [fresh EXCEPT ![d] = FALSE],
         UNCHANGED <<sock, csock, dsock>>
  PROVE  DaemonTypes'
BY TypesByParts DEF DaemonTypes, Roles

LEMMA DaemonTyped ==
  ASSUME TypeOK, NEW d \in Daemons,
         \/ DStart(d) \/ DConnect(d) \/ DRefused(d) \/ DToken(d) \/ DRetry(d)
         \/ DPassword(d) \/ DAnswered(d) \/ DLost(d) \/ DGivesUp(d) \/ DKilled(d)
  PROVE  TypeOK'
<1> USE TypesByParts, TypesByPartsNext, Unchanged
<1>1. CASE DStart(d)
  <2>1. DaemonTypes'
    BY <1>1, GoneOn DEF DStart
  <2>2. QED BY <1>1, <2>1, ServerUnchanged DEF DStart, connVars
<1>2. CASE DConnect(d)
  <2>1. PICK c \in Conns : /\ sock' = [sock EXCEPT ![d] = c]
                           /\ side' = [side EXCEPT ![c] = "open"]
                           /\ said' = [said EXCEPT ![c] = "nothing"]
                           /\ answer' = [answer EXCEPT ![c] = "none"]
                           /\ queue' = Append(queue, c)
    <3>1. (CHOOSE x \in Free(d) : TRUE) \in Free(d)
      BY <1>2 DEF DConnect
    <3>2. Free(d) \subseteq Conns
      BY DEF Free
    <3>3. QED BY <1>2, <3>1, <3>2 DEF DConnect
  <2>2. DaemonTypes'
    <3>1. pc' = [pc EXCEPT ![d] = "token"] /\ UNCHANGED <<fresh, csock, dsock>>
      BY <1>2 DEF DConnect
    <3>2. QED BY <2>1, <3>1 DEF DaemonTypes, Roles
  <2>3. SideTypes' /\ SaidType'
    BY <2>1 DEF SideTypes, SaidType
  <2>4. queue' \in Seq(Conns)
    BY <2>1
  <2>5. QED BY <1>2, <2>2, <2>3, <2>4 DEF DConnect
<1>3. CASE DRefused(d)
  <2>1. BreaksType'
    BY <1>3, OneMore DEF DRefused, BreaksType
  <2>2. DaemonTypes'
    BY <1>3, ConnectedTyped DEF DRefused
  <2>3. QED BY <1>3, <2>1, <2>2, ServerUnchanged DEF DRefused, connVars
<1>4. CASE DToken(d)
  <2>1. DaemonTypes' /\ SideTypes' /\ SaidType'
    <3>1. CASE /\ Connected(d, As[sock[d]], sock[d])
               /\ said' = IF Reaches(sock[d])
                            THEN [said EXCEPT ![sock[d]] = "token"] ELSE said
               /\ UNCHANGED <<fresh, side, answer>>
      <4>1. sock[d] \in Conns \cup {NoConn}
        BY DEF DaemonTypes
      <4>2. DaemonTypes'
        BY <3>1, <4>1, ConnectedTyped
      <4>3. SaidType'
        BY <3>1 DEF SaidType
      <4>4. QED BY <3>1, <4>2, <4>3
    <3>2. CASE Throw(d) /\ UNCHANGED said
      BY <3>2, Dropped DEF Throw
    <3>3. QED BY <1>4, <3>1, <3>2 DEF DToken
  <2>2. QED BY <1>4, <2>1, ServerUnchanged DEF DToken
<1>5. CASE DRetry(d)
  <2>1. DaemonTypes' /\ SideTypes'
    <3>1. CASE Exit(d)
      BY <3>1, Dropped
    <3>2. CASE /\ pc' = [pc EXCEPT ![d] = "cmd"]
               /\ UNCHANGED <<fresh, sock, csock, dsock, side, answer>>
      BY <3>2, GoneOn
    <3>3. QED BY <1>5, <3>1, <3>2 DEF DRetry
  <2>2. QED BY <1>5, <2>1, ServerUnchanged DEF DRetry
<1>6. CASE DPassword(d)
  <2>1. DaemonTypes'
    BY <1>6, GoneOn DEF DPassword
  <2>2. SaidType'
    BY <1>6 DEF DPassword, SaidType
  <2>3. QED BY <1>6, <2>1, <2>2, ServerUnchanged DEF DPassword
<1>7. CASE DAnswered(d)
  <2>1. DaemonTypes' /\ SideTypes'
    <3>1. CASE /\ pc' = [pc EXCEPT ![d] = "up"]
               /\ fresh' = [fresh EXCEPT ![d] = FALSE]
               /\ UNCHANGED <<sock, csock, dsock, side, answer>>
      BY <3>1, GoneOn
    <3>2. CASE Throw(d) \/ Exit(d)
      BY <3>2, Dropped DEF Throw
    <3>3. QED BY <1>7, <3>1, <3>2 DEF DAnswered
  <2>2. QED BY <1>7, <2>1, ServerUnchanged DEF DAnswered
<1>8. CASE DLost(d)
  BY <1>8, Dropped, ServerUnchanged DEF DLost
<1>9. CASE DGivesUp(d) \/ DKilled(d)
  <2>1. BreaksType'
    BY <1>9, OneMore DEF DGivesUp, DKilled, BreaksType
  <2>2. DaemonTypes' /\ SideTypes'
    BY <1>9, Dropped DEF DGivesUp, DKilled
  <2>3. QED BY <1>9, <2>1, <2>2, ServerUnchanged DEF DGivesUp, DKilled
<1>10. QED BY <1>1, <1>2, <1>3, <1>4, <1>5, <1>6, <1>7, <1>8, <1>9

LEMMA AcceptTyped ==
  ASSUME TypeOK, Accept
  PROVE  TypeOK'
<1> USE TypesByParts, TypesByPartsNext, Unchanged
<1>1. CASE SAccept
  <2>1. asked' \in Conns /\ queue' \in Seq(Conns)
    BY <1>1 DEF SAccept
  <2>2. ListTypes'
    BY <1>1, <2>1 DEF SAccept, ListTypes
  <2>3. QED BY <1>1, <2>1, <2>2 DEF SAccept, connVars
<1>2. ASSUME asked # NoConn PROVE Heard(asked) \in Tokens \cup {Noise}
  BY <1>2, PairingAssumption DEF Heard, ListTypes, InputTypes
<1>3. CASE SPair
  <2>1. PICK e \in head : /\ mate' = [mate EXCEPT ![e] = asked]
                          /\ thr' = [thr EXCEPT ![e] = "auth"]
                          /\ head' = head \ {e}
                          /\ heard' = [heard EXCEPT ![e] = Noise]
    BY <1>3 DEF SPair
  <2>2. ThreadTypes'
    BY <2>1 DEF ThreadTypes, ListTypes
  <2>3. ListTypes'
    BY <1>2, <1>3, <2>1 DEF SPair, ListTypes
  <2>4. QED BY <1>3, <2>2, <2>3 DEF SPair, connVars
<1>4. CASE SList
  <2>1. ListTypes'
    BY <1>2, <1>4 DEF SList, ListTypes
  <2>2. QED BY <1>4, <2>1 DEF SList, connVars
<1>5. QED BY <1>1, <1>3, <1>4 DEF Accept

LEMMA Deallocated ==
  ASSUME TypeOK, NEW c \in Conns, Dealloc(c) \/ Serve(c)
  PROVE  ThreadTypes' /\ SaidType'
BY TypesByParts DEF Dealloc, Serve, ThreadTypes, SaidType

LEMMA ThreadTyped ==
  ASSUME TypeOK, NEW c \in Conns,
         \/ TAuth(c) \/ TAuthEof(c) \/ TAuthData(c) \/ TEof(c) \/ TDataEof(c)
         \/ TGivesUp(c)
  PROVE  TypeOK'
<1> USE TypesByParts, TypesByPartsNext, Unchanged
<1>1. ThreadTypes' /\ SaidType'
  BY Deallocated DEF TAuth, TAuthEof, TAuthData, TEof, TDataEof, TGivesUp
<1>2. UNCHANGED <<inputs, daemonVars, side, alive, queue, listVars>>
  BY DEF TAuth, TAuthEof, TAuthData, TEof, TDataEof, TGivesUp
<1>3. SideTypes'
  <2>1. answer' \in [Conns -> {"none", "ok", "bad"}]
    BY DEF TAuth, TAuthEof, TAuthData, TEof, TDataEof, TGivesUp, SideTypes
  <2>2. QED BY <1>2, <2>1 DEF SideTypes
<1>4. BreaksType'
  BY OneMore DEF TAuth, TAuthEof, TAuthData, TEof, TDataEof, TGivesUp, BreaksType
<1>5. QED BY <1>1, <1>2, <1>3, <1>4

LEMMA EnvironmentTyped ==
  ASSUME TypeOK, (\E c \in Conns : Cut(c)) \/ CrashServer \/ StartServer
  PROVE  TypeOK'
<1> USE TypesByParts, TypesByPartsNext, Unchanged
<1>1. ASSUME NEW c \in Conns, Cut(c) PROVE TypeOK'
  <2>1. BreaksType'
    BY <1>1, OneMore DEF Cut, BreaksType
  <2>2. SideTypes' /\ SaidType'
    BY <1>1 DEF Cut, SideTypes, SaidType
  <2>3. QED BY <1>1, <2>1, <2>2, ServerUnchanged DEF Cut
<1>2. CASE CrashServer
  <2>1. BreaksType'
    BY <1>2, OneMore DEF CrashServer, BreaksType
  <2>2. ThreadTypes' /\ SaidType'
    BY <1>2 DEF CrashServer, ThreadTypes, SaidType
  <2>3. ListTypes'
    BY <1>2 DEF CrashServer, ListTypes
  <2>4. alive' \in BOOLEAN /\ queue' \in Seq(Conns)
    <3>1. <<>> \in Seq(Conns)
      OBVIOUS
    <3>2. alive' = FALSE /\ queue' = <<>>
      BY <1>2 DEF CrashServer
    <3>3. QED BY <3>1, <3>2
  <2>5. QED BY <1>2, <2>1, <2>2, <2>3, <2>4 DEF CrashServer
<1>3. CASE StartServer
  BY <1>3 DEF StartServer, connVars
<1>4. QED BY <1>1, <1>2, <1>3

LEMMA NextTyped ==
  ASSUME TypeOK, [Next]_vars
  PROVE  TypeOK'
<1>1. CASE UNCHANGED vars
  BY <1>1, TypesByPartsNext, Unchanged, ServerUnchanged DEF vars, connVars
<1>2. CASE Next
  BY <1>2, DaemonTyped, AcceptTyped, ThreadTyped, EnvironmentTyped DEF Next, Accept
<1>3. QED BY <1>1, <1>2

LEMMA InitTyped ==
  ASSUME Init
  PROVE  TypeOK
<1>1. breaks \in 0..(MaxBreaks + MaxTorn)
  BY PairingAssumption DEF Init
<1>2. QED BY <1>1, PairingAssumption DEF Init, TypeOK, Roles

\* Every variable keeps its type, and failures their bounds.
THEOREM PairingTyped == Spec => []TypeOK
<1>1. QED BY InitTyped, NextTyped, PTL DEF Spec
=============================================================================
