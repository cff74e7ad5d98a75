----------------------------- MODULE ClientList -----------------------------
(***************************************************************************)
(* The server's doubly linked list of clients.                             *)
(*                                                                         *)
(* main appends a client_info for every pair of connections and starts its *)
(* thread; a thread that ends takes itself out (dealloc); on SIGINT or     *)
(* SIGTERM signal_handler walks the list, closes the sockets, frees the    *)
(* elements and exits (server.c).  No lock protects the list.  An element  *)
(* is a cell of the heap, which malloc hands out again after free.         *)
(*                                                                         *)
(* One action is one access to what the actors share.  The handler runs in *)
(* main's thread and interrupts it between any two accesses; main never    *)
(* goes on.  Two inputs say how much disorder is considered: whether       *)
(* operations of different threads on the list overlap, and whether a      *)
(* thread ends that is neither the oldest nor the newest.                  *)
(***************************************************************************)
EXTENDS Naturals, Sequences, FiniteSets

CONSTANTS
  Cells,    \* addresses malloc may return; bounds the clients at a time
  Null,
  Overlaps, \* the values of "overlap" considered
  Middles   \* the values of "middle" considered

ASSUME ClientListAssumption ==
  /\ IsFiniteSet(Cells) /\ Null \notin Cells
  /\ Overlaps \subseteq BOOLEAN /\ Middles \subseteq BOOLEAN

VARIABLES
  overlap,      \* input: operations on the list may overlap
  middle,       \* input: a thread in the middle of the list may end
  last_client,
  next, before, \* of every cell
  heap,         \* cells allocated
  open,         \* cells whose client's sockets are open
  main,         \* where main is
  mine,         \* its variable client
  thr,          \* where the thread of the client in a cell is
  handler,      \* where signal_handler is
  tmp,          \* its variable tmp
  misuse        \* somebody has used a cell that is free, or Null

pointers == <<last_client, next, before>>
inputs   == <<overlap, middle>>
vars == <<inputs, pointers, heap, open, main, mine, thr, handler, tmp, misuse>>

Address == Cells \cup {Null}

TypeOK ==
  /\ overlap \in BOOLEAN /\ middle \in BOOLEAN
  /\ last_client \in Address
  /\ next \in [Cells -> Address] /\ before \in [Cells -> Address]
  /\ heap \subseteq Cells /\ open \subseteq Cells
  /\ main \in {"malloc", "accept", "link", "last", "create"}
  /\ mine \in Address /\ (mine = Null <=> main = "malloc")
  /\ thr \in [Cells -> {"none", "run", "unlink", "middle", "cut", "free"}]
  /\ handler \in {"idle", "walk", "free", "done", "gone"}
  /\ tmp \in Address
  /\ misuse \in BOOLEAN

Init ==
  /\ overlap \in Overlaps /\ middle \in Middles
  /\ last_client = Null
  /\ next = [c \in Cells |-> Null] /\ before = [c \in Cells |-> Null]
  /\ heap = {} /\ open = {}
  /\ main = "malloc" /\ mine = Null
  /\ thr = [c \in Cells |-> "none"]
  /\ handler = "idle" /\ tmp = Null
  /\ misuse = FALSE

\* No thread is in the middle of dealloc.
NobodyLeaves == \A c \in Cells : thr[c] \in {"none", "run"}

\* Nobody is in the middle of an operation on the list.
Quiet == main \in {"malloc", "accept"} /\ NobodyLeaves /\ handler = "idle"

\* The process is there.  Where operations overlap, nothing is said of what
\* follows the first misuse.
Runs == handler # "gone" /\ ~(overlap /\ misuse)

\* main is not interrupted.
MainRuns == Runs /\ handler = "idle"

MayBegin == Runs /\ (overlap \/ Quiet)

\* The access to p that is being made is one to living memory.
Uses(p) == misuse' = (misuse \/ p \notin heap)

\* p->next = x and p->before = x; through Null the program ends instead.
SetNext(p, x)   == next' = IF p = Null THEN next ELSE [next EXCEPT ![p] = x]
SetBefore(p, x) == before' = IF p = Null THEN before ELSE [before EXCEPT ![p] = x]

\* free(p); what is left in the cell is not known, and taken to be Null.
Free(p) ==
  /\ heap' = heap \ {p} /\ Uses(p)
  /\ SetNext(p, Null) /\ SetBefore(p, Null)

-----------------------------------------------------------------------------
(***************************************************************************)
(* main                                                                    *)
(***************************************************************************)
MMalloc ==
  /\ main = "malloc" /\ MainRuns
  /\ \E c \in Cells \ heap :
       /\ mine' = c
       /\ heap' = heap \cup {c}
  /\ main' = "accept"
  /\ UNCHANGED <<inputs, pointers, open, thr, handler, tmp, misuse>>

\* Mutant: client->before is not set.
MAcceptAlone ==
  /\ main = "accept" /\ MainRuns /\ MayBegin
  /\ next' = [next EXCEPT ![mine] = Null]
  /\ before' = [before EXCEPT ![mine] = Null]
  /\ open' = open \cup {mine}
  /\ main' = "link"
  /\ UNCHANGED <<inputs, last_client, heap, mine, thr, handler, tmp, misuse>>

\* accept_connection returns; client->next and client->before are set.
MAccept ==
  /\ main = "accept" /\ MainRuns /\ MayBegin
  /\ next' = [next EXCEPT ![mine] = Null]
  /\ before' = [before EXCEPT ![mine] = last_client]
  /\ open' = open \cup {mine}
  /\ main' = "link"
  /\ UNCHANGED <<inputs, last_client, heap, mine, thr, handler, tmp, misuse>>

\* last_client->next = client
MLink ==
  /\ main = "link" /\ MainRuns
  /\ IF before[mine] # Null
     THEN SetNext(last_client, mine) /\ Uses(last_client)
     ELSE UNCHANGED <<next, misuse>>
  /\ main' = "last"
  /\ UNCHANGED <<inputs, last_client, before, heap, open, mine, thr, handler, tmp>>

MLast ==
  /\ main = "last" /\ MainRuns
  /\ last_client' = mine
  /\ main' = "create"
  /\ UNCHANGED <<inputs, next, before, heap, open, mine, thr, handler, tmp, misuse>>

\* Mutant: the loop begins after malloc.
MCreateNoMalloc ==
  /\ main = "create" /\ MainRuns
  /\ thr' = [thr EXCEPT ![mine] = "run"]
  /\ mine' = Null /\ Uses(mine)
  /\ main' = "accept"
  /\ UNCHANGED <<inputs, pointers, heap, open, handler, tmp>>

\* pthread_create, which writes client->thr_id.
MCreate ==
  /\ main = "create" /\ MainRuns
  /\ thr' = [thr EXCEPT ![mine] = "run"]
  /\ mine' = Null /\ Uses(mine)
  /\ main' = "malloc"
  /\ UNCHANGED <<inputs, pointers, heap, open, handler, tmp>>

-----------------------------------------------------------------------------
(***************************************************************************)
(* dealloc, in the thread of the client in c                               *)
(***************************************************************************)
IsMiddle(c) == next[c] # Null /\ before[c] # Null

TGoto(c, where) == thr' = [thr EXCEPT ![c] = where]

\* The thread ends, for whatever reason: both sockets are closed.
TClose(c) ==
  /\ thr[c] = "run" /\ MayBegin
  /\ middle \/ ~IsMiddle(c)
  /\ open' = open \ {c}
  /\ TGoto(c, "unlink")
  /\ UNCHANGED <<inputs, pointers, heap, main, mine, handler, tmp, misuse>>

TSteps(c) == Runs /\ UNCHANGED <<inputs, heap, open, main, mine, handler, tmp>>

\* client->before->next = client->next
TMiddle(c) ==
  /\ thr[c] = "unlink" /\ IsMiddle(c)
  /\ SetNext(before[c], next[c]) /\ Uses(before[c])
  /\ TGoto(c, "middle")
  /\ UNCHANGED <<last_client, before>> /\ TSteps(c)

\* client->next->before = client->next->before
TMiddleBefore(c) ==
  /\ thr[c] = "middle"
  /\ Uses(next[c])
  /\ TGoto(c, "free")
  /\ UNCHANGED pointers /\ TSteps(c)

\* Mutant: the newest thread leaves last_client where it is.
TLastForgets(c) ==
  /\ thr[c] = "unlink" /\ next[c] = Null /\ before[c] # Null
  /\ TGoto(c, "cut")
  /\ UNCHANGED <<pointers, misuse>> /\ TSteps(c)

\* last thread: last_client = client->before
TLast(c) ==
  /\ thr[c] = "unlink" /\ next[c] = Null /\ before[c] # Null
  /\ last_client' = before[c] /\ Uses(c)
  /\ TGoto(c, "cut")
  /\ UNCHANGED <<next, before>> /\ TSteps(c)

\* client->before->next = NULL
TLastNext(c) ==
  /\ thr[c] = "cut"
  /\ SetNext(before[c], Null) /\ Uses(before[c])
  /\ TGoto(c, "free")
  /\ UNCHANGED <<last_client, before>> /\ TSteps(c)

\* Mutant: the oldest thread cuts the wrong pointer.
TFirstCutsNext(c) ==
  /\ thr[c] = "unlink" /\ next[c] # Null /\ before[c] = Null
  /\ SetNext(next[c], Null) /\ Uses(next[c])
  /\ TGoto(c, "free")
  /\ UNCHANGED <<last_client, before>> /\ TSteps(c)

\* first thread: client->next->before = NULL
TFirst(c) ==
  /\ thr[c] = "unlink" /\ next[c] # Null /\ before[c] = Null
  /\ SetBefore(next[c], Null) /\ Uses(next[c])
  /\ TGoto(c, "free")
  /\ UNCHANGED <<last_client, next>> /\ TSteps(c)

\* all threads exited: last_client = NULL
TOnly(c) ==
  /\ thr[c] = "unlink" /\ next[c] = Null /\ before[c] = Null
  /\ last_client' = Null /\ Uses(c)
  /\ TGoto(c, "free")
  /\ UNCHANGED <<next, before>> /\ TSteps(c)

\* free(client), and the thread ends.
TFree(c) ==
  /\ thr[c] = "free" /\ Runs
  /\ Free(c)
  /\ TGoto(c, "none")
  /\ UNCHANGED <<inputs, last_client, open, main, mine, handler, tmp>>

-----------------------------------------------------------------------------
(***************************************************************************)
(* signal_handler                                                          *)
(***************************************************************************)
\* The signal comes, wherever main is.
HBegin ==
  /\ handler = "idle" /\ Runs
  /\ overlap \/ NobodyLeaves
  /\ handler' = "walk"
  /\ UNCHANGED <<inputs, pointers, heap, open, main, mine, thr, tmp, misuse>>

\* Mutant: the walk ends before the oldest element.
HTakeButOldest ==
  /\ Runs /\ handler = "walk" /\ last_client # Null
  /\ open' = open \ {last_client} /\ Uses(last_client)
  /\ tmp' = last_client
  /\ handler' = IF before[last_client] = Null THEN "gone" ELSE "free"
  /\ last_client' = IF before[last_client] = Null THEN last_client
                    ELSE before[last_client]
  /\ UNCHANGED <<inputs, next, before, heap, main, mine, thr>>

\* Mutant: the sockets stay open.
HTakeKeepsOpen ==
  /\ Runs /\ handler = "walk" /\ last_client # Null
  /\ Uses(last_client)
  /\ tmp' = last_client
  /\ handler' = IF before[last_client] = Null THEN "done" ELSE "free"
  /\ last_client' = IF before[last_client] = Null THEN last_client
                    ELSE before[last_client]
  /\ UNCHANGED <<inputs, next, before, heap, open, main, mine, thr>>

\* Mutant: without the break after the oldest element.
HTakeNoBreak ==
  /\ Runs /\ handler = "walk" /\ last_client # Null
  /\ open' = open \ {last_client} /\ Uses(last_client)
  /\ tmp' = last_client
  /\ handler' = "free"
  /\ last_client' = IF before[last_client] = Null THEN last_client
                    ELSE before[last_client]
  /\ UNCHANGED <<inputs, next, before, heap, main, mine, thr>>

\* An element: close its sockets and step to the one before.
HTake ==
  /\ Runs /\ handler = "walk" /\ last_client # Null
  /\ open' = open \ {last_client} /\ Uses(last_client)
  /\ tmp' = last_client
  /\ handler' = IF before[last_client] = Null THEN "done" ELSE "free"
  /\ last_client' = IF before[last_client] = Null THEN last_client
                    ELSE before[last_client]
  /\ UNCHANGED <<inputs, next, before, heap, main, mine, thr>>

HFree ==
  /\ Runs /\ handler = "free"
  /\ Free(tmp)
  /\ handler' = "walk"
  /\ UNCHANGED <<inputs, last_client, open, main, mine, thr, tmp>>

\* The oldest element is freed, or there was none: exit.
HExit ==
  /\ Runs
  /\ \/ handler = "done" /\ Free(tmp)
     \/ /\ handler = "walk" /\ last_client = Null
        /\ UNCHANGED <<next, before, heap, misuse>>
  /\ handler' = "gone"
  /\ UNCHANGED <<inputs, last_client, open, main, mine, thr, tmp>>

-----------------------------------------------------------------------------
Handler == HTake \/ HFree \/ HExit

Next ==
  \/ MMalloc \/ MAccept \/ MLink \/ MLast \/ MCreate
  \/ \E c \in Cells : TClose(c) \/ TMiddle(c) \/ TMiddleBefore(c) \/ TLast(c)
                        \/ TLastNext(c) \/ TFirst(c) \/ TOnly(c) \/ TFree(c)
  \/ HBegin \/ HTake \/ HFree \/ HExit

Spec == Init /\ [][Next]_vars

\* The handler that has begun goes on.
FairSpec == Spec /\ WF_vars(Handler)

-----------------------------------------------------------------------------
\* The elements found from newest on, along prev, the newest first.
WalkFrom(newest, prev) ==
  LET step[n \in 0..Cardinality(Cells)] ==
        IF n = 0 THEN newest
        ELSE IF step[n - 1] = Null THEN Null ELSE prev[step[n - 1]]
  IN  [i \in 1..Cardinality({n \in DOMAIN step : step[n] # Null}) |-> step[i - 1]]

\* The elements signal_handler would find.
Walk == WalkFrom(last_client, before)

\* Clients whose thread has not begun to end.
Living == {c \in Cells : thr[c] = "run"}

(***************************************************************************)
(* What holds whatever overlaps and whoever ends.                          *)
(***************************************************************************)
\* An element is given back only after its sockets were closed, and by its
\* own thread or by signal_handler: no thread finds its own element gone,
\* and no connection stays open without an element (server.c, 139-152 and
\* 170-186).
ClosedBeforeFreed ==
  /\ open \subseteq heap
  /\ handler = "idle" => \A c \in Cells : thr[c] # "none" => c \in heap

(***************************************************************************)
(* What holds if operations on the list do not overlap and whoever ends is *)
(* the oldest or the newest: false in other runs, for there is no lock, and*)
(* for the branch of a middle thread see EmptyWhenAllExited.               *)
(***************************************************************************)
\* Between operations the list holds exactly the living clients, each once,
\* and is linked in both directions (server.c, 560-568 and 168-186).
ListsTheLiving ==
  Quiet =>
    /\ {Walk[i] : i \in 1..Len(Walk)} = Living
    /\ Len(Walk) = Cardinality(Living)
    /\ \A i \in 1..Len(Walk) :
         next[Walk[i]] = IF i = 1 THEN Null ELSE Walk[i - 1]

\* Nobody reads, writes or frees an element that is free, wherever main is
\* when the signal comes (server.c, 560-567 and 139-152).
NoMisuse == ~misuse

\* The client main has in hand and has not put into the list.
InHand == IF main = "create" THEN {} ELSE {mine} \cap Cells

\* When signal_handler exits it has closed every client's sockets and freed
\* every element, but for a client that main was about to put into the list
\* (server.c, 139-153).
NothingLeftOpen == handler = "gone" => heap \subseteq InHand /\ open \subseteq InHand

\* signal_handler comes to an end: the break after the oldest element
\* (server.c, 146-149).
HandlerExits == handler = "walk" ~> handler = "gone"

\* The list changes as Roster says, each operation in one step, and
\* signal_handler takes one element after the other (server.c, 139-153,
\* 173-183 and 560-567).
ListOf == INSTANCE Roster WITH Members <- Cells, roster <- Walk
ChangesLikeARoster == ListOf!Spec

\* "all threads exited" (server.c, 181): no thread is left, no client listed.
EmptyWhenAllExited ==
  Quiet /\ Living = {} => last_client = Null
=============================================================================
