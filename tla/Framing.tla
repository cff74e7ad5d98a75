------------------------------ MODULE Framing -------------------------------
(***************************************************************************)
(* What libs/libllncp.c makes of a stream of bytes, in one direction of    *)
(* one connection: messages (send_message, receive_message), chunks of a   *)
(* known length (send_bytes_check_message, recv_bytes), or paths, headers  *)
(* (send_bytes, recv_bytes).                                               *)
(* send and recv take as many bytes as they like, return 0 at the end, and *)
(* -1 after a failure; the sums they are added to are unsigned long longs, *)
(* and the length of a message is one byte.                                *)
(*                                                                         *)
(* Transfer builds on this: there a message arrives whole or not at all,   *)
(* and a failure may pass for a success.                                   *)
(***************************************************************************)
EXTENDS Naturals, Sequences

CONSTANTS
  ByteMod,   \* 2^8
  SizeMod,   \* 2^64
  Count,     \* messages or chunks to be sent
  Texts,     \* lengths of messages
  Chunks,    \* lengths of chunks
  Capacity   \* bytes in flight before a send to a non-blocking socket waits

MESSAGE_BUFFERSIZE == ByteMod - 1
HeaderLen == 2

\* Longer texts do not fit into send_message's buffer.
ASSUME FramingAssumption ==
  /\ Texts \subseteq 0..(MESSAGE_BUFFERSIZE - HeaderLen - 1)
  /\ Chunks \subseteq 1..(SizeMod - 2)
  /\ {ByteMod, SizeMod, Count, Capacity} \subseteq Nat \ {0}
  /\ ByteMod <= SizeMod

VARIABLES
  kind,      \* input: what the connection carries; "paths" stands for all
             \* that send_bytes sends
  size,      \* input: the length of each text or chunk
  \* the sender
  piece,     \* the one being sent; Count + 1: all are sent
  sent,      \* sent_bytes
  \* the connection
  wire,      \* bytes in flight
  link,      \* at the receiver: "up", ended ("fin"), failed ("rst") or
             \* failed and reported ("lost")
  dead,      \* at the sender: send returns -1
  \* the receiver
  call,      \* which recv_bytes it is in: "header", "text", "chunk"
  received,  \* received_bytes
  buffer,    \* what this recv_bytes has filled in
  header,    \* the message's header
  returned,  \* what was received with EXIT_SUCCESS
  closed     \* SOCKET_CLOSED was returned

inputs   == <<kind, size>>
sender   == <<piece, sent>>
receiver == <<call, received, buffer, header, returned, closed>>
vars == <<inputs, sender, wire, link, dead, receiver>>

Least(a, b) == IF a < b THEN a ELSE b

\* A byte: where it is in which piece.
Byte == [of: 1..Count, at: 1..SizeMod]
Untouched == [of |-> 0, at |-> 0]
Bytes(i, n) == [j \in 1..n |-> [of |-> i, at |-> j]]

TypeOK ==
  /\ kind \in {"messages", "chunks", "paths"}
  /\ size \in [1..Count -> Texts \cup Chunks]
  /\ piece \in 1..(Count + 1)
  /\ sent \in 0..(SizeMod - 1)
  /\ wire \in Seq(Byte)
  /\ link \in {"up", "fin", "rst", "lost"} /\ dead \in BOOLEAN
  /\ call \in {"header", "text", "chunk"}
  /\ received \in 0..(SizeMod - 1)
  /\ buffer \in Seq(Byte \cup {Untouched})
  /\ header \in Seq(Byte \cup {Untouched})
  /\ returned \in Seq([flag: Byte \cup {Untouched},
                       body: Seq(Byte \cup {Untouched})])
  /\ closed \in BOOLEAN

-----------------------------------------------------------------------------
(***************************************************************************)
(* Messages: length, flag, and the text with its '\0' if there is one.     *)
(***************************************************************************)
MessageLen(i) == IF size[i] = 0 THEN HeaderLen ELSE size[i] + 3

LengthByteOfText(i) == (MessageLen(i) - HeaderLen) % ByteMod \* mutant
LengthByte(i) == MessageLen(i) % ByteMod

\* The value of a byte taken for a length.  An untouched header is 0.
Value(b) == CASE b = Untouched -> 0
              [] b.at = 1 -> LengthByte(b.of)
              [] OTHER -> ByteMod - 1

\* What is left to receive after the header h.
TextLenWhole(h) == Value(h[1]) \* mutant
TextLen(h) == IF Value(h[1]) > HeaderLen THEN Value(h[1]) - HeaderLen ELSE 0

-----------------------------------------------------------------------------
\* A call of recv_bytes for n bytes begins.
Blank(n) == [j \in 1..n |-> Untouched]

Asks(which, n) == call' = which /\ received' = 0 /\ buffer' = Blank(n)

Init ==
  /\ \/ kind = "messages" /\ size \in [1..Count -> Texts] /\ call = "header"
        /\ buffer = Blank(HeaderLen)
     \/ kind \in {"chunks", "paths"} /\ size \in [1..Count -> Chunks]
        /\ call = "chunk" /\ buffer = Blank(size[1])
  /\ piece = 1 /\ sent = 0
  /\ wire = <<>> /\ link = "up" /\ dead = FALSE
  /\ received = 0 /\ header = Blank(HeaderLen)
  /\ returned = <<>> /\ closed = FALSE

-----------------------------------------------------------------------------
(***************************************************************************)
(* The sender.                                                             *)
(***************************************************************************)
\* One send to a blocking socket; its result is only compared with -1.
SendMessage ==
  /\ kind = "messages" /\ piece <= Count
  /\ IF link = "up"
     THEN piece' = piece + 1 /\ wire' = wire \o Bytes(piece, MessageLen(piece))
     ELSE piece' \in {piece + 1, Count + 1} /\ UNCHANGED wire
  /\ UNCHANGED <<inputs, sent, link, dead, receiver>>

Sending == kind # "messages" /\ piece <= Count

\* The head of the loop: sent_bytes < bytes?
Loop(n) ==
  IF n < size[piece] THEN sent' = n /\ UNCHANGED piece
                     ELSE sent' = 0 /\ piece' = piece + 1

SendSome ==
  /\ Sending /\ link = "up" /\ Len(wire) < Capacity
  /\ \E n \in 1..Least(size[piece] - sent, Capacity - Len(wire)) :
       /\ wire' = wire \o SubSeq(Bytes(piece, size[piece]), sent + 1, sent + n)
       /\ Loop((sent + n) % SizeMod)
  /\ UNCHANGED <<inputs, link, dead, receiver>>

\* The first send after the peer has gone still succeeds.
SendVoid ==
  /\ Sending /\ link # "up" /\ ~dead
  /\ \E n \in 1..(size[piece] - sent) : Loop((sent + n) % SizeMod)
  /\ dead' = TRUE
  /\ UNCHANGED <<inputs, wire, link, receiver>>

\* Mutant: as if the failure were EWOULDBLOCK.
SendFailsRetries ==
  /\ kind = "chunks" /\ Sending /\ dead
  /\ Loop(sent)
  /\ UNCHANGED <<inputs, wire, link, dead, receiver>>

\* Mutant: a signed sent_bytes.
SendFailsSigned ==
  /\ kind = "chunks" /\ Sending /\ dead
  /\ sent' = sent - 1
  /\ UNCHANGED <<inputs, piece, wire, link, dead, receiver>>

\* send_bytes_check_message: n < 1 is false for an unsigned -1, which is
\* added as any other count.  So would be the -1 of EWOULDBLOCK; a socket that
\* select has found writable takes at least a byte and does not answer so.
SendFails ==
  /\ kind = "chunks" /\ Sending /\ dead
  /\ Loop((sent + SizeMod - 1) % SizeMod)
  /\ UNCHANGED <<inputs, wire, link, dead, receiver>>

\* send_bytes: n == -1 is true for it, and SOCKET_CLOSED is returned.
SendGivesUp ==
  /\ kind = "paths" /\ Sending /\ dead
  /\ piece' = Count + 1 /\ sent' = 0
  /\ UNCHANGED <<inputs, wire, link, dead, receiver>>

-----------------------------------------------------------------------------
(***************************************************************************)
(* The receiver.                                                           *)
(***************************************************************************)
Listening == ~closed /\ Len(returned) < Count

\* EXIT_SUCCESS, and what the caller asks for next.
Return(flag, body) ==
  /\ returned' = Append(returned, [flag |-> flag, body |-> body])
  /\ IF kind = "messages" THEN Asks("header", HeaderLen)
     ELSE Asks("chunk", IF Len(returned) + 1 < Count THEN size[Len(returned) + 2]
                                                     ELSE 0)
  /\ UNCHANGED closed

\* recv_bytes has returned EXIT_SUCCESS with b.
Received(b) ==
  CASE call = "header" /\ Value(b[1]) = 0 ->
         closed' = TRUE /\ UNCHANGED <<call, received, buffer, header, returned>>
    [] call = "header" /\ Value(b[1]) > 0 /\ TextLen(b) = 0 ->
         Return(b[2], <<>>) /\ header' = b
    [] call = "header" /\ Value(b[1]) > 0 /\ TextLen(b) > 0 ->
         /\ Asks("text", TextLen(b)) /\ header' = b
         /\ UNCHANGED <<returned, closed>>
    [] call = "text" -> Return(header[2], b) /\ UNCHANGED header
    [] call = "chunk" -> Return(Untouched, b) /\ UNCHANGED header

\* The head of recv_bytes' loop, with n bytes received.
Counted(n, b) ==
  IF n < Len(b)
  THEN received' = n /\ buffer' = b /\ UNCHANGED <<call, header, returned, closed>>
  ELSE Received(b)

\* n bytes come in behind what was received so far.
FilledFromStart(n) == \* mutant
  [j \in 1..Len(buffer) |-> IF j <= n THEN wire[j] ELSE buffer[j]]
Filled(n) ==
  [j \in 1..Len(buffer) |->
     IF received < j /\ j <= received + n THEN wire[j - received] ELSE buffer[j]]

RecvSome ==
  /\ Listening /\ wire # <<>>
  /\ \E n \in 1..Least(Len(buffer) - received, Len(wire)) :
       /\ wire' = SubSeq(wire, n + 1, Len(wire))
       /\ Counted((received + n) % SizeMod, Filled(n))
  /\ UNCHANGED <<inputs, sender, link, dead>>

\* recv returns 0.
RecvEnd ==
  /\ Listening /\ wire = <<>> /\ link \in {"fin", "lost"}
  /\ closed' = TRUE
  /\ UNCHANGED <<inputs, sender, wire, link, dead, call, received, buffer,
                 header, returned>>

\* recv returns -1, once: n < 0 is never true, and received_bytes is huge, or
\* one less.
RecvFails ==
  /\ Listening /\ wire = <<>> /\ link = "rst"
  /\ link' = "lost"
  /\ Counted((received + SizeMod - 1) % SizeMod, buffer)
  /\ UNCHANGED <<inputs, sender, wire, dead>>

-----------------------------------------------------------------------------
\* The connection breaks, and any end of what was in flight is lost.
Break ==
  /\ link = "up"
  /\ link' \in {"fin", "rst"} /\ dead' \in BOOLEAN
  /\ \E n \in 0..Len(wire) : wire' = SubSeq(wire, 1, n)
  /\ UNCHANGED <<inputs, sender, receiver>>

Sender == SendMessage \/ SendSome \/ SendVoid \/ SendFails \/ SendGivesUp
Receiver == RecvSome \/ RecvEnd \/ RecvFails

Next ==
  \/ SendMessage \/ SendSome \/ SendVoid \/ SendFails \/ SendGivesUp
  \/ RecvSome \/ RecvEnd \/ RecvFails
  \/ Break

Spec == Init /\ [][Next]_vars
FairSpec == Spec /\ WF_vars(Sender) /\ WF_vars(Receiver)

-----------------------------------------------------------------------------
Whole(i) == IF kind = "messages"
            THEN [flag |-> [of |-> i, at |-> 2],
                  body |-> SubSeq(Bytes(i, MessageLen(i)), 3, MessageLen(i))]
            ELSE [flag |-> Untouched, body |-> Bytes(i, size[i])]

\* What is received successfully is what was sent, in the same order, however
\* send and recv divide it.  A failed recv can spoil only the last of it, and
\* never a message's flag (libllncp.c, 41-57 and 180-189).
AsSent ==
  \A i \in 1..Len(returned) :
    \/ returned[i] = Whole(i)
    \/ /\ link = "lost" /\ i = Len(returned)
       /\ returned[i].flag = Whole(i).flag

\* SOCKET_CLOSED is only reported of a connection that is gone, after
\* everything that has arrived was looked at (libllncp.c, 186-188).
ClosedWhenGone == closed => link # "up" /\ wire = <<>>

\* The loop over send comes to its end even on a dead connection, though it
\* takes send's -1 for a number of bytes (client_daemon.c, 347-357).
EverySendEnds == \A i \in 1..Count : piece = i ~> piece > i

\* If the connection lasts, everything arrives.
EverythingArrives == [](link = "up") => <>(Len(returned) = Count)
=============================================================================
