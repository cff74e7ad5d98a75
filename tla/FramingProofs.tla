--------------------------- MODULE FramingProofs ----------------------------
(***************************************************************************)
(* What is received is what was sent, however send and recv divide it:     *)
(* Framing's safety properties, proved for all widths, lengths and numbers *)
(* of pieces.                                                              *)
(***************************************************************************)
EXTENDS Framing, SequenceTheorems, TLAPS

\* The length of each piece on the wire.
Length == [i \in 1..Count |-> IF kind = "messages" THEN MessageLen(i) ELSE size[i]]

\* The piece being received, and how much of it has been.
Piece == Len(returned) + 1
Place == IF call = "text" THEN HeaderLen + received ELSE received

Pos(i, n) == [of |-> i, at |-> n]

Following(b) == IF b.at < Length[b.of] THEN Pos(b.of, b.at + 1) ELSE Pos(b.of + 1, 1)

\* What the connection carries does not change.
Inputs ==
  \/ kind = "messages" /\ size \in [1..Count -> Texts]
  \/ kind \in {"chunks", "paths"} /\ size \in [1..Count -> Chunks]

\* The sender has not run past the end of a piece.
InPiece == /\ kind = "messages" \/ piece > Count => sent = 0
           /\ piece <= Count => sent < Length[piece]

\* The bytes around a byte on the wire are its neighbours in its piece, and
\* behind the last byte of a piece comes the first of the next one.
InARow ==
  /\ \A j \in 1..Len(wire) : wire[j].at <= Length[wire[j].of]
  /\ \A j, k \in 1..Len(wire) :
       /\ 1 <= wire[j].at + k - j
       /\ wire[j].at + k - j <= Length[wire[j].of]
       => wire[k] = Pos(wire[j].of, wire[j].at + k - j)
  /\ \A j \in 1..(Len(wire) - 1) :
       wire[j].at = Length[wire[j].of] => wire[j + 1] = Pos(wire[j].of + 1, 1)

\* The wire begins where the receiver is, and ends where the sender is.
Connects ==
  /\ wire # <<>> => wire[1] = Pos(Piece, Place + 1)
  /\ link = "up" =>
       Pos(piece, sent + 1) = IF wire = <<>> THEN Pos(Piece, Place + 1)
                              ELSE Following(wire[Len(wire)])

\* The receiver has asked for what comes, and filled in what it has.
Expects ==
  /\ call = "chunk" <=> kind # "messages"
  /\ Piece <= Count =>
       /\ call = "header" => Len(buffer) = HeaderLen
       /\ call = "text" => Len(buffer) = Length[Piece] - HeaderLen
                           /\ header[2] = Pos(Piece, 2)
       /\ call = "chunk" => Len(buffer) = Length[Piece]
       /\ received < Len(buffer)
       /\ \A j \in 1..Len(buffer) :
            buffer[j] = IF j <= received THEN Pos(Piece, Place - received + j)
                                         ELSE Untouched
  /\ Piece > Count => Piece = Count + 1 /\ received = 0 /\ call # "text"

AllWhole == \A i \in 1..Len(returned) : returned[i] = Whole(i)

\* Until recv has failed, everything is as it should be; then only the end
\* can be told.
Good == InARow /\ Connects /\ Expects /\ AllWhole
Spoilt == wire = <<>> /\ AsSent

Sound == /\ TypeOK /\ Inputs /\ InPiece /\ ClosedWhenGone
         /\ dead => link # "up"
         /\ IF link = "lost" THEN Spoilt ELSE closed \/ Good
         /\ AsSent

-----------------------------------------------------------------------------
(***************************************************************************)
(* Lengths.                                                                *)
(***************************************************************************)
LEMMA Widths ==
  /\ Count \in Nat \ {0} /\ Capacity \in Nat
  /\ SizeMod \in Nat \ {0} /\ ByteMod \in Nat \ {0} /\ ByteMod <= SizeMod
  /\ \A n \in Texts : n \in Nat /\ n + 4 <= ByteMod
  /\ \A n \in Chunks : n \in Nat \ {0} /\ n + 2 <= SizeMod
BY FramingAssumption DEF FramingAssumption, MESSAGE_BUFFERSIZE, HeaderLen

LEMMA Modulo ==
  ASSUME NEW m \in Nat \ {0}, NEW x \in Nat
  PROVE  x % m \in 0..(m - 1) /\ (x < m => x % m = x)
BY SMT

LEMMA ModuloPlus ==
  ASSUME NEW m \in Nat \ {0}, NEW x \in Nat, x < m
  PROVE  (x + m) % m = x
BY SMT

\* A message, its length byte included, fits into what a byte can say.
LEMMA Lengths ==
  ASSUME Inputs, NEW i \in 1..Count
  PROVE  /\ Length[i] \in Nat \ {0} /\ Length[i] < SizeMod
         /\ kind = "messages" => /\ Length[i] = MessageLen(i)
                                 /\ Length[i] >= HeaderLen
                                 /\ Length[i] < ByteMod
                                 /\ LengthByte(i) = Length[i]
         /\ kind # "messages" => Length[i] = size[i] /\ Length[i] + 1 < SizeMod
<1>1. CASE kind = "messages"
  <2>1. size[i] \in Texts
    BY <1>1 DEF Inputs
  <2>2. /\ MessageLen(i) \in Nat /\ MessageLen(i) >= HeaderLen
        /\ MessageLen(i) < ByteMod
    BY <2>1, Widths DEF MessageLen, HeaderLen
  <2>3. LengthByte(i) = MessageLen(i)
    BY <2>2, Widths, Modulo DEF LengthByte
  <2>4. QED BY <1>1, <2>2, <2>3, Widths DEF Length, HeaderLen
<1>2. CASE kind # "messages"
  <2>1. size[i] \in Chunks
    BY <1>2 DEF Inputs
  <2>2. QED BY <1>2, <2>1, Widths DEF Length
<1>3. QED BY <1>1, <1>2

LEMMA BytesOf ==
  ASSUME NEW i, NEW n \in Nat
  PROVE  /\ Len(Bytes(i, n)) = n
         /\ \A j \in 1..n : Bytes(i, n)[j] = Pos(i, j)
         /\ i \in 1..Count /\ n <= SizeMod => Bytes(i, n) \in Seq(Byte)
BY Widths DEF Bytes, Pos, Byte

LEMMA Fields ==
  /\ \A i, n : Pos(i, n).of = i /\ Pos(i, n).at = n
  /\ \A b \in Byte : /\ b = Pos(b.of, b.at) /\ b.of \in 1..Count
                     /\ b.at \in Nat \ {0}
BY Widths DEF Byte, Pos

LEMMA Blanks ==
  ASSUME NEW n \in Nat
  PROVE  /\ Blank(n) \in Seq(Byte \cup {Untouched})
         /\ Len(Blank(n)) = n
         /\ \A j \in 1..n : Blank(n)[j] = Untouched
BY DEF Blank

LEMMA Values ==
  ASSUME TypeOK, NEW b \in Byte \cup {Untouched}
  PROVE  Value(b) \in Nat /\ Value(Untouched) = 0
<1>1. Value(Untouched) = 0
  BY DEF Value, Untouched
<1>2. CASE b \in Byte
  <2>1. b.of \in 1..Count /\ b.at \in Nat /\ b # Untouched
    BY <1>2, Widths DEF Byte, Untouched
  <2>2. size[b.of] \in Nat
    BY <2>1, Widths DEF TypeOK
  <2>3. MessageLen(b.of) \in Nat
    BY <2>2 DEF MessageLen, HeaderLen
  <2>4. LengthByte(b.of) \in Nat
    BY <2>3, Widths, Modulo DEF LengthByte
  <2>5. ByteMod - 1 \in Nat
    BY Widths
  <2>6. CASE b.at = 1
    BY <1>1, <2>1, <2>4, <2>6 DEF Value
  <2>7. CASE b.at # 1
    BY <1>1, <2>1, <2>5, <2>7 DEF Value
  <2>8. QED BY <2>6, <2>7
<1>3. QED BY <1>1, <1>2

\* What the header of message i says.
LEMMA Headers ==
  ASSUME Inputs, kind = "messages", NEW i \in 1..Count
  PROVE  /\ Value(Pos(i, 1)) = Length[i]
         /\ \A h : h[1] = Pos(i, 1) => TextLen(h) = Length[i] - HeaderLen
<1>1. Pos(i, 1) # Untouched /\ Pos(i, 1).at = 1 /\ Pos(i, 1).of = i
  BY DEF Pos, Untouched
<1>2. Value(Pos(i, 1)) = LengthByte(i)
  BY <1>1 DEF Value
<1>3. QED BY <1>2, Lengths DEF TextLen, HeaderLen

-----------------------------------------------------------------------------
(***************************************************************************)
(* The sender.                                                             *)
(***************************************************************************)
LEMMA LoopTyped ==
  ASSUME TypeOK, Inputs, Sending, NEW n \in 0..(SizeMod - 1), Loop(n),
         UNCHANGED inputs
  PROVE  piece' \in 1..(Count + 1) /\ sent' \in 0..(SizeMod - 1) /\ InPiece'
<1>1. /\ piece \in 1..Count /\ kind # "messages" /\ size[piece] = Length[piece]
      /\ Length' = Length
  BY Lengths, Widths DEF Sending, TypeOK, inputs, Length, MessageLen
<1>2. CASE n < size[piece]
  BY <1>1, <1>2, Widths DEF Loop, InPiece, TypeOK, inputs
<1>3. CASE ~(n < size[piece])
  <2>1. piece' = piece + 1 /\ sent' = 0
    BY <1>3 DEF Loop
  <2>2. piece' \in 1..Count => Length[piece'] > 0
    BY <1>1, Lengths
  <2>3. QED BY <1>1, <2>1, <2>2, Widths DEF InPiece, TypeOK, inputs
<1>4. QED BY <1>2, <1>3

\* A sender whose bytes are lost.
LEMMA SenderAlone ==
  ASSUME Sound, SendVoid \/ SendFails \/ SendGivesUp \/ (SendMessage /\ link # "up")
  PROVE  Sound'
<1>1. /\ UNCHANGED <<inputs, wire, link, receiver>> /\ link # "up"
      /\ dead' \in BOOLEAN /\ TypeOK
  <2>1. CASE SendVoid
    BY <2>1 DEF Sound, SendVoid
  <2>2. CASE SendFails \/ SendGivesUp
    BY <2>2 DEF Sound, TypeOK, SendFails, SendGivesUp
  <2>3. CASE SendMessage /\ link # "up"
    BY <2>3 DEF Sound, TypeOK, SendMessage
  <2>4. QED BY <2>1, <2>2, <2>3
<1>2. piece' \in 1..(Count + 1) /\ sent' \in 0..(SizeMod - 1) /\ InPiece'
  <2>1. CASE SendVoid
    <3>1. PICK n \in 1..(size[piece] - sent) : Loop((sent + n) % SizeMod)
      BY <2>1 DEF SendVoid
    <3>2. sent + n \in Nat
      BY <2>1, Lengths DEF SendVoid, Sending, Sound, TypeOK
    <3>3. (sent + n) % SizeMod \in 0..(SizeMod - 1)
      BY <3>2, Widths, Modulo
    <3>4. QED BY <1>1, <2>1, <3>1, <3>3, LoopTyped DEF SendVoid, Sound
  <2>2. CASE SendFails
    <3>1. sent + SizeMod - 1 \in Nat
      BY Widths DEF Sound, TypeOK
    <3>2. (sent + SizeMod - 1) % SizeMod \in 0..(SizeMod - 1)
      BY <3>1, Widths, Modulo
    <3>3. QED BY <1>1, <2>2, <3>2, LoopTyped DEF SendFails, Sound
  <2>3. CASE SendGivesUp
    BY <2>3, Widths DEF SendGivesUp, InPiece, inputs
  <2>4. CASE SendMessage
    <3>1. /\ piece' \in 1..(Count + 1) /\ sent' = sent /\ sent = 0
          /\ kind' = "messages" /\ kind = "messages"
      BY <1>1, <2>4, Widths DEF SendMessage, Sound, TypeOK, InPiece, inputs
    <3>2. piece' \in 1..Count => Length[piece'] > 0
      BY <1>1, <3>1, Lengths DEF Sound, inputs, Length, MessageLen
    <3>3. Length' = Length
      BY <1>1 DEF inputs, Length, MessageLen
    <3>4. QED BY <3>1, <3>2, <3>3, Widths DEF InPiece
  <2>5. QED BY <2>1, <2>2, <2>3, <2>4
<1>3. TypeOK' /\ Inputs' /\ ClosedWhenGone'
  BY <1>1, <1>2 DEF Sound, TypeOK, Inputs, ClosedWhenGone, inputs, receiver
<1>4. InARow' = InARow /\ Expects' = Expects /\ AllWhole' = AllWhole /\ AsSent' = AsSent
  BY <1>1 DEF InARow, Expects, AllWhole, AsSent, Whole, Length, MessageLen, Piece,
              Place, inputs, receiver
<1>5. Connects => Connects'
  BY <1>1 DEF Connects, Piece, Place, inputs, receiver
<1>6. (closed \/ Good) => (closed \/ Good)'
  BY <1>1, <1>4, <1>5 DEF Good, receiver
<1>7. Spoilt => Spoilt'
  BY <1>1, <1>4 DEF Spoilt
<1>8. QED BY <1>1, <1>2, <1>3, <1>4, <1>6, <1>7 DEF Sound

\* What is sent joins what is on the wire.
LEMMA Appended ==
  ASSUME TypeOK, Inputs, InPiece, Good, link = "up", piece <= Count,
         NEW n \in 1..(Length[piece] - sent), NEW w \in Seq(Byte), Len(w) = n,
         \A m \in 1..n : w[m] = Pos(piece, sent + m),
         wire' = wire \o w, UNCHANGED <<inputs, link, receiver>>,
         Pos(piece', sent' + 1) = Following(Pos(piece, sent + n))
  PROVE  Good'
<1> DEFINE N == Len(wire)
<1>2. /\ Length' = Length
      /\ Piece' = Piece /\ Place' = Place /\ piece \in 1..Count
      /\ sent \in Nat /\ Length[piece] \in Nat /\ sent + n <= Length[piece]
      /\ n \in Nat \ {0}
  <2>1. Length' = Length /\ Piece' = Piece /\ Place' = Place
    BY DEF inputs, receiver, Length, MessageLen, Piece, Place
  <2>2. piece \in 1..Count /\ sent \in Nat
    BY Widths DEF TypeOK
  <2>3. Length[piece] \in Nat
    BY <2>2, Lengths
  <2>4. sent + n <= Length[piece] /\ n \in Nat \ {0}
    BY <2>2, <2>3
  <2>5. QED BY <2>1, <2>2, <2>3, <2>4
<1>1. /\ wire' \in Seq(Byte) /\ N \in Nat /\ Len(wire') = N + n /\ n \in Nat \ {0}
      /\ \A j \in 1..N : wire'[j] = wire[j] /\ wire[j] \in Byte
      /\ \A j \in (N + 1)..(N + n) : wire'[j] = Pos(piece, sent + (j - N))
  <2>1. wire \in Seq(Byte) /\ wire' = wire \o w
    BY DEF TypeOK
  <2>2. /\ wire' \in Seq(Byte) /\ N \in Nat /\ Len(wire') = N + n
        /\ \A j \in 1..N : wire'[j] = wire[j] /\ wire[j] \in Byte
        /\ \A j \in (N + 1)..(N + n) : wire'[j] = w[j - N]
    <3>1. N \in Nat /\ Len(w) \in Nat /\ Len(w) = n
      BY <2>1
    <3>2. wire' \in Seq(Byte) /\ Len(wire') = N + n
      BY <2>1, <3>1, ConcatProperties
    <3>3. \A j \in 1..(N + n) : wire'[j] = IF j <= N THEN wire[j] ELSE w[j - N]
      BY <2>1, <3>1, ConcatProperties
    <3>4. \A j \in 1..N : j \in 1..(N + n) /\ j <= N /\ wire[j] \in Byte
      BY <2>1, <3>1
    <3>5. \A j \in (N + 1)..(N + n) : j \in 1..(N + n) /\ ~(j <= N)
      BY <3>1
    <3> HIDE DEF N
    <3>6. QED BY <3>1, <3>2, <3>3, <3>4, <3>5
  <2>3. \A j \in (N + 1)..(N + n) : j - N \in 1..n
    BY <1>2, <2>2
  <2>4. QED BY <1>2, <2>2, <2>3
<1>n. /\ N \in Nat /\ n \in Nat \ {0} /\ sent \in Nat /\ Length[piece] \in Nat
      /\ sent + n <= Length[piece] /\ Len(wire') = N + n
  BY <1>1, <1>2
<1>r. \A j \in 1..Len(wire') : j \in 1..N \/ j \in (N + 1)..(N + n)
  BY <1>n
<1>3. ASSUME NEW j \in 1..N
      PROVE  \E i \in 1..Count, m \in Nat \ {0} :
               wire[j] = Pos(i, m) /\ m <= Length[i] /\ Length[i] \in Nat
  <2>1. wire[j] \in Byte /\ wire[j].at <= Length[wire[j].of]
    BY <1>1 DEF Good, InARow
  <2>2. QED BY <2>1, Fields, Lengths
<1>4. ASSUME N > 0
      PROVE  \/ sent > 0 /\ wire[N] = Pos(piece, sent)
             \/ /\ sent = 0 /\ piece - 1 \in 1..Count
                /\ wire[N] = Pos(piece - 1, Length[piece - 1])
  <2>1. PICK i \in 1..Count, m \in Nat \ {0} :
          wire[N] = Pos(i, m) /\ m <= Length[i] /\ Length[i] \in Nat
    BY <1>1, <1>3, <1>4
  <2>2. Pos(piece, sent + 1) = IF m < Length[i] THEN Pos(i, m + 1) ELSE Pos(i + 1, 1)
    BY <1>1, <1>4, <2>1, Fields DEF Good, Connects, Following
  <2>3. CASE m < Length[i]
    <3>1. piece = i /\ sent + 1 = m + 1
      <4>1. Pos(piece, sent + 1) = Pos(i, m + 1)
        BY <2>2, <2>3
      <4>2. QED BY <4>1, Fields
    <3>2. sent = m /\ sent > 0
      BY <1>n, <3>1
    <3>3. QED BY <2>1, <3>1, <3>2
  <2>4. CASE ~(m < Length[i])
    <3>1. piece = i + 1 /\ sent + 1 = 1
      <4>1. Pos(piece, sent + 1) = Pos(i + 1, 1)
        BY <2>2, <2>4
      <4>2. QED BY <4>1, Fields
    <3>2. piece - 1 = i /\ sent = 0
      BY <1>n, <3>1
    <3>3. m = Length[i]
      BY <2>1, <2>4
    <3>4. QED BY <2>1, <3>2, <3>3
  <2>5. QED BY <2>3, <2>4
<1> HIDE DEF N
<1>5. InARow'
  <2>1. ASSUME NEW j \in 1..Len(wire')
        PROVE  wire'[j].at <= Length[wire'[j].of]
    <3>1. CASE j \in 1..N
      BY <1>1, <1>3, <3>1, Fields
    <3>2. CASE j \in (N + 1)..(N + n)
      <4>1. wire'[j].of = piece /\ wire'[j].at = sent + (j - N)
        <5>1. wire'[j] = Pos(piece, sent + (j - N))
          BY <1>1, <3>2
        <5>2. QED BY <5>1, Fields
      <4>2. sent + (j - N) <= Length[piece]
        BY <1>n, <3>2
      <4>3. QED BY <4>1, <4>2
    <3>3. QED BY <1>r, <3>1, <3>2
  <2>2. ASSUME NEW j \in 1..Len(wire'), NEW k \in 1..Len(wire'),
               1 <= wire'[j].at + k - j, wire'[j].at + k - j <= Length[wire'[j].of]
        PROVE  wire'[k] = Pos(wire'[j].of, wire'[j].at + k - j)
    <3>1. CASE j \in 1..N
      <4>1. PICK i \in 1..Count, m \in Nat \ {0} :
              wire[j] = Pos(i, m) /\ m <= Length[i] /\ Length[i] \in Nat
        BY <1>3, <3>1
      <4>2. /\ wire'[j].of = i /\ wire'[j].at = m
            /\ 1 <= m + k - j /\ m + k - j <= Length[i]
        <5>1. wire'[j] = Pos(i, m)
          BY <1>1, <3>1, <4>1
        <5>2. wire'[j].of = i /\ wire'[j].at = m
          BY <5>1, Fields
        <5>3. QED BY <2>2, <5>2
      <4>3. ASSUME NEW l \in 1..N, 1 <= m + l - j, m + l - j <= Length[i]
            PROVE  wire[l] = Pos(i, m + l - j)
        <5>1. wire[j].of = i /\ wire[j].at = m
          BY <4>1, Fields
        <5>2. j \in 1..Len(wire) /\ l \in 1..Len(wire)
          BY <3>1 DEF N
        <5>3. QED BY <4>3, <5>1, <5>2 DEF Good, InARow
      <4>4. CASE k \in 1..N
        BY <1>1, <4>2, <4>3, <4>4
      <4>5. CASE k \in (N + 1)..(N + n)
        <5>1. N \in 1..N /\ 1 <= m + N - j /\ m + N - j < Length[i]
          BY <1>n, <3>1, <4>1, <4>2, <4>5
        <5>2. wire[N] = Pos(i, m + N - j)
          BY <1>n, <3>1, <4>1, <4>3, <5>1
        <5>3. i = piece /\ m + N - j = sent
          <6>1. CASE wire[N] = Pos(piece, sent)
            <7>1. Pos(i, m + N - j) = Pos(piece, sent)
              BY <5>2, <6>1
            <7>2. QED BY <7>1, Fields
          <6>2. CASE wire[N] = Pos(piece - 1, Length[piece - 1])
            <7>1. Pos(i, m + N - j) = Pos(piece - 1, Length[piece - 1])
              BY <5>2, <6>2
            <7>2. m + N - j = Length[i]
              BY <7>1, Fields
            <7>3. QED BY <1>n, <3>1, <4>1, <5>1, <7>2
          <6>3. QED BY <1>1, <1>4, <5>1, <6>1, <6>2
        <5>4. m + k - j = sent + (k - N)
          <6>1. m \in Nat /\ k \in Nat /\ j \in Nat
            BY <1>n, <3>1, <4>1, <4>5
          <6>2. m + k - j = (m + N - j) + (k - N)
            BY <1>n, <6>1
          <6>3. QED BY <5>3, <6>2
        <5>5. wire'[k] = Pos(piece, sent + (k - N))
          BY <1>1, <4>5
        <5>6. QED BY <4>2, <5>3, <5>4, <5>5
      <4>6. QED BY <1>r, <4>4, <4>5
    <3>2. CASE j \in (N + 1)..(N + n)
      <4>1. wire'[j].of = piece /\ wire'[j].at = sent + (j - N)
        <5>1. wire'[j] = Pos(piece, sent + (j - N))
          BY <1>1, <3>2
        <5>2. QED BY <5>1, Fields
      <4>2. /\ sent + (j - N) + k - j = sent + (k - N)
            /\ 1 <= sent + (k - N) /\ sent + (k - N) <= Length[piece]
        <5>1. k \in 1..(N + n)
          BY <1>1
        <5>2. sent + (j - N) + k - j = sent + (k - N)
          BY <1>n, <3>2, <5>1
        <5>3. /\ 1 <= sent + (j - N) + k - j
              /\ sent + (j - N) + k - j <= Length[piece]
          BY <2>2, <4>1
        <5>4. QED BY <5>2, <5>3
      <4>3. CASE k \in 1..N
        <5>1. N > 0 /\ N \in 1..N /\ sent > 0
          BY <1>n, <4>2, <4>3
        <5>2. wire[N] = Pos(piece, sent)
          BY <1>4, <5>1
        <5>3. 1 <= sent + k - N /\ sent + k - N <= Length[piece]
          BY <1>n, <4>2, <4>3
        <5>4. wire[k] = Pos(piece, sent + k - N)
          <6>1. wire[N].of = piece /\ wire[N].at = sent
            BY <5>2, Fields
          <6>2. N \in 1..Len(wire) /\ k \in 1..Len(wire)
            BY <4>3, <5>1 DEF N
          <6>3. QED BY <5>3, <6>1, <6>2 DEF Good, InARow
        <5>5. sent + k - N = sent + (k - N)
          BY <1>n, <4>3
        <5>6. wire'[k] = wire[k]
          BY <1>1, <4>3
        <5>7. QED BY <4>1, <4>2, <5>4, <5>5, <5>6
      <4>4. CASE k \in (N + 1)..(N + n)
        BY <1>1, <4>1, <4>2, <4>4
      <4>5. QED BY <1>r, <4>3, <4>4
    <3>3. QED BY <1>r, <3>1, <3>2
  <2>3. ASSUME NEW j \in 1..(Len(wire') - 1), wire'[j].at = Length[wire'[j].of]
        PROVE  wire'[j + 1] = Pos(wire'[j].of + 1, 1)
    <3>1. CASE j < N
      <4>1. j \in 1..(N - 1) /\ j \in 1..N /\ j + 1 \in 1..N
        BY <1>1, <3>1
      <4>2. wire'[j] = wire[j] /\ wire'[j + 1] = wire[j + 1]
        BY <1>1, <4>1
      <4>3. QED BY <2>3, <4>1, <4>2 DEF Good, InARow, N
    <3>2. CASE j = N
      <4>1. wire'[N] = wire[N] /\ wire'[N + 1] = Pos(piece, sent + 1)
        BY <1>1, <1>2, <3>2
      <4>2. CASE sent > 0 /\ wire[N] = Pos(piece, sent)
        <5>1. sent = Length[piece]
          BY <2>3, <3>2, <4>1, <4>2, Fields
        <5>2. QED BY <1>n, <5>1
      <4>3. CASE sent = 0 /\ wire[N] = Pos(piece - 1, Length[piece - 1])
        <5>1. wire'[N].of = piece - 1 /\ piece - 1 + 1 = piece /\ sent + 1 = 1
          BY <1>2, <4>1, <4>3, Fields
        <5>2. QED BY <3>2, <4>1, <5>1
      <4>4. N > 0
        BY <1>1, <3>2
      <4>5. QED BY <1>4, <4>2, <4>3, <4>4
    <3>3. CASE j > N
      <4>1. j \in (N + 1)..(N + n) /\ j < N + n
        BY <1>1, <3>3
      <4>2. wire'[j].of = piece /\ wire'[j].at = sent + (j - N)
        <5>1. wire'[j] = Pos(piece, sent + (j - N))
          BY <1>1, <4>1
        <5>2. QED BY <5>1, Fields
      <4>3. sent + (j - N) # Length[piece]
        BY <1>n, <4>1
      <4>4. QED BY <2>3, <4>2, <4>3
    <3>4. j < N \/ j = N \/ j > N
      BY <1>n
    <3>5. QED BY <3>1, <3>2, <3>3, <3>4
  <2>4. Length' = Length
    BY <1>2
  <2>5. QED BY <2>1, <2>2, <2>3, <2>4 DEF InARow
<1>6. Connects'
  <2>1. wire' # <<>> /\ wire'[Len(wire')] = Pos(piece, sent + n)
    BY <1>1
  <2>2. wire'[1] = Pos(Piece, Place + 1)
    <3>1. CASE wire = <<>>
      BY <1>1, <1>2, <3>1 DEF Good, Connects
    <3>2. CASE wire # <<>>
      BY <1>1, <3>2 DEF Good, Connects
    <3>3. QED BY <3>1, <3>2
  <2>3. QED BY <1>2, <2>1, <2>2 DEF Connects, Following, Pos
<1>7. Expects' /\ AllWhole'
  BY <1>2 DEF Good, Expects, AllWhole, Whole, MessageLen, Piece, Place, inputs, receiver
<1>8. QED BY <1>5, <1>6, <1>7 DEF Good

LEMMA SenderSends ==
  ASSUME Sound, SendSome \/ (SendMessage /\ link = "up")
  PROVE  Sound'
<1>1. /\ UNCHANGED <<inputs, link, dead, receiver>> /\ link = "up" /\ piece \in 1..Count
      /\ TypeOK /\ Inputs /\ InPiece /\ Good /\ ~closed
      /\ Length' = Length /\ Length[piece] \in Nat \ {0} /\ sent \in Nat
  <2>1. UNCHANGED <<inputs, link, dead, receiver>> /\ link = "up" /\ piece <= Count
    BY DEF SendSome, SendMessage, Sending
  <2>2. ~closed
    BY <2>1 DEF Sound, ClosedWhenGone
  <2>3. Length' = Length
    BY <2>1 DEF inputs, Length, MessageLen
  <2>4. piece \in 1..Count /\ sent \in Nat
    BY <2>1, Widths DEF Sound, TypeOK
  <2>5. QED BY <2>1, <2>2, <2>3, <2>4, Lengths DEF Sound
<1>2. \E n \in 1..(Length[piece] - sent), w \in Seq(Byte) :
        /\ Len(w) = n /\ \A m \in 1..n : w[m] = Pos(piece, sent + m)
        /\ wire' = wire \o w
        /\ Pos(piece', sent' + 1) = Following(Pos(piece, sent + n))
        /\ piece' \in 1..(Count + 1) /\ sent' \in 0..(SizeMod - 1) /\ InPiece'
  <2>1. CASE SendSome
    <3>1. PICK n \in 1..(Length[piece] - sent) :
            /\ wire' = wire \o SubSeq(Bytes(piece, size[piece]), sent + 1, sent + n)
            /\ Loop((sent + n) % SizeMod)
      <4>1. size[piece] = Length[piece] /\ Len(wire) \in Nat
        BY <1>1, <2>1, Lengths DEF SendSome, Sending, TypeOK
      <4>2. PICK n \in 1..Least(size[piece] - sent, Capacity - Len(wire)) :
              /\ wire' = wire \o SubSeq(Bytes(piece, size[piece]), sent + 1, sent + n)
              /\ Loop((sent + n) % SizeMod)
        BY <2>1 DEF SendSome
      <4>3. n \in 1..(Length[piece] - sent)
        BY <1>1, <4>1, Widths DEF Least
      <4>4. QED BY <4>2, <4>3
    <3>2. /\ size[piece] = Length[piece] /\ Length[piece] < SizeMod
          /\ n \in Nat \ {0} /\ sent + n <= Length[piece]
      BY <1>1, <2>1, Lengths DEF SendSome, Sending
    <3>3. (sent + n) % SizeMod = sent + n /\ sent + n \in 0..(SizeMod - 1)
      <4>1. sent + n \in Nat /\ sent + n < SizeMod
        BY <1>1, <3>2, Widths
      <4>2. QED BY <4>1, Widths, Modulo
    <3>4. piece' \in 1..(Count + 1) /\ sent' \in 0..(SizeMod - 1) /\ InPiece'
      BY <1>1, <2>1, <3>1, <3>3, LoopTyped DEF SendSome
    <3> DEFINE b == Bytes(piece, size[piece])
               w == SubSeq(b, sent + 1, sent + n)
    <3>5. /\ b \in Seq(Byte) /\ Len(b) = Length[piece]
          /\ \A j \in 1..Length[piece] : b[j] = Pos(piece, j)
      <4>1. size[piece] \in Nat /\ size[piece] <= SizeMod
        BY <1>1, <3>2, Widths
      <4>2. QED BY <1>1, <3>2, <4>1, BytesOf
    <3> HIDE DEF b
    <3>6. w \in Seq(Byte) /\ Len(w) = n /\ \A m \in 1..n : w[m] = b[sent + m]
      <4>1. /\ sent + 1 \in 1..(Len(b) + 1) /\ sent + n \in 0..Len(b)
            /\ sent + 1 <= sent + n + 1 /\ (sent + n) - (sent + 1) + 1 = n
            /\ \A m \in 1..n : sent + 1 + m - 1 = sent + m
        BY <1>1, <3>2, <3>5
      <4>2. QED BY <1>1, <3>2, <3>5, <4>1, SubSeqProperties
    <3>7. \A m \in 1..n : w[m] = Pos(piece, sent + m)
      <4>1. \A m \in 1..n : sent + m \in 1..Length[piece]
        BY <1>1, <3>2
      <4>2. QED BY <3>5, <3>6, <4>1
    <3>8. Pos(piece', sent' + 1) = Following(Pos(piece, sent + n))
      <4>1. Following(Pos(piece, sent + n)) =
              IF sent + n < Length[piece] THEN Pos(piece, sent + n + 1) ELSE Pos(piece + 1, 1)
        BY Fields DEF Following
      <4>2. QED BY <1>1, <3>1, <3>2, <3>3, <4>1 DEF Loop
    <3>9. wire' = wire \o w
      BY <3>1 DEF b
    <3> HIDE DEF w
    <3>10. QED BY <3>4, <3>6, <3>7, <3>8, <3>9
  <2>2. CASE SendMessage /\ link = "up"
    <3>1. /\ kind = "messages" /\ piece' = piece + 1 /\ sent' = sent /\ sent = 0
          /\ wire' = wire \o Bytes(piece, MessageLen(piece))
      BY <1>1, <2>2 DEF SendMessage, InPiece
    <3>2. MessageLen(piece) = Length[piece] /\ Length[piece] < SizeMod
      BY <1>1, <3>1, Lengths
    <3> DEFINE w == Bytes(piece, MessageLen(piece))
    <3>3. /\ w \in Seq(Byte) /\ Len(w) = Length[piece]
          /\ \A j \in 1..Length[piece] : w[j] = Pos(piece, j)
      BY <1>1, <3>2, Widths, BytesOf
    <3>4. Pos(piece', sent' + 1) = Following(Pos(piece, sent + Length[piece]))
      BY <1>1, <3>1, Fields DEF Following
    <3>5. piece' \in 1..(Count + 1) /\ sent' \in 0..(SizeMod - 1)
      BY <1>1, <3>1, Widths
    <3>6. piece' \in 1..Count => Length[piece'] > 0
      BY <1>1, Lengths
    <3>7. InPiece'
      BY <1>1, <3>1, <3>5, <3>6, Widths DEF InPiece, inputs
    <3> HIDE DEF w
    <3>8. \A m \in 1..Length[piece] : w[m] = Pos(piece, sent + m)
      BY <1>1, <3>1, <3>3
    <3>9. wire' = wire \o w
      BY <3>1 DEF w
    <3>10. Length[piece] \in 1..(Length[piece] - sent)
      BY <1>1, <3>1
    <3>11. QED BY <3>3, <3>4, <3>5, <3>7, <3>8, <3>9, <3>10
  <2>3. QED BY <2>1, <2>2
<1>3. Good'
  <2>1. PICK n \in 1..(Length[piece] - sent), w \in Seq(Byte) :
          /\ Len(w) = n /\ \A m \in 1..n : w[m] = Pos(piece, sent + m)
          /\ wire' = wire \o w
          /\ Pos(piece', sent' + 1) = Following(Pos(piece, sent + n))
    BY <1>2
  <2>2. piece <= Count
    BY <1>1
  <2>3. QED BY <1>1, <2>1, <2>2, Appended
<1>4. wire' \in Seq(Byte)
  BY <1>1, <1>2 DEF TypeOK
<1>5. TypeOK' /\ Inputs' /\ ClosedWhenGone'
  BY <1>1, <1>2, <1>4 DEF TypeOK, Inputs, ClosedWhenGone, inputs, receiver
<1>6. AsSent'
  BY <1>1 DEF Sound, AsSent, Whole, MessageLen, inputs, receiver
<1>7. QED BY <1>1, <1>2, <1>3, <1>5, <1>6 DEF Sound

-----------------------------------------------------------------------------
(***************************************************************************)
(* The receiver.                                                           *)
(***************************************************************************)
\* The next n bytes on the wire are what was asked for.
LEMMA Front ==
  ASSUME TypeOK, Inputs, Good, Listening, wire # <<>>,
         NEW n \in 1..Least(Len(buffer) - received, Len(wire))
  PROVE  /\ Piece \in 1..Count /\ Place \in Nat /\ Place + n <= Length[Piece]
         /\ n \in 1..Len(wire) /\ received + n <= Len(buffer)
         /\ \A j \in 1..n : wire[j] = Pos(Piece, Place + j)
         /\ n < Len(wire) => wire[n + 1] = Following(Pos(Piece, Place + n))
         /\ (received + n) % SizeMod = received + n
         /\ Len(buffer) - received + Place <= Length[Piece]
         /\ Length[Piece] \in Nat /\ Length[Piece] < SizeMod
<1>1. /\ Piece \in 1..Count /\ Place \in Nat /\ received \in Nat
      /\ Len(wire) \in Nat \ {0} /\ Len(buffer) \in Nat /\ received < Len(buffer)
  BY Widths DEF Listening, TypeOK, Good, Expects, Piece, Place, HeaderLen
<1>2. n \in 1..Len(wire) /\ received + n <= Len(buffer)
  BY <1>1 DEF Least
<1>3. /\ Length[Piece] \in Nat /\ Length[Piece] < SizeMod
      /\ kind = "messages" => Length[Piece] >= HeaderLen
  BY <1>1, Lengths
<1>4. Len(buffer) - received + Place <= Length[Piece]
  <2>1. CASE call = "header"
    BY <1>1, <1>3, <2>1 DEF Good, Expects, Place
  <2>2. CASE call = "text"
    BY <1>1, <1>3, <2>2 DEF Good, Expects, Place, HeaderLen
  <2>3. CASE call = "chunk"
    BY <1>1, <1>3, <2>3 DEF Good, Expects, Place
  <2>4. QED BY <2>1, <2>2, <2>3 DEF TypeOK
<1>5. Place + n <= Length[Piece] /\ received <= Place
  BY <1>1, <1>2, <1>3, <1>4 DEF Place, HeaderLen
<1>6. wire[1] = Pos(Piece, Place + 1)
  BY DEF Good, Connects
<1>7. ASSUME NEW j \in 1..Len(wire), Place + j <= Length[Piece]
      PROVE  wire[j] = Pos(Piece, Place + j)
  <2>1. wire[1].of = Piece /\ wire[1].at = Place + 1
    BY <1>6, Fields
  <2>2. Place + 1 + j - 1 = Place + j /\ 1 <= Place + j /\ 1 \in 1..Len(wire)
    BY <1>1
  <2>3. QED BY <1>7, <2>1, <2>2 DEF Good, InARow
<1>8. \A j \in 1..n : wire[j] = Pos(Piece, Place + j)
  BY <1>1, <1>2, <1>3, <1>5, <1>7
<1>9. ASSUME n < Len(wire)
      PROVE  wire[n + 1] = Following(Pos(Piece, Place + n))
  <2>1. Following(Pos(Piece, Place + n)) =
          IF Place + n < Length[Piece] THEN Pos(Piece, Place + n + 1) ELSE Pos(Piece + 1, 1)
    BY Fields DEF Following
  <2>2. CASE Place + n < Length[Piece]
    <3>1. /\ n + 1 \in 1..Len(wire) /\ Place + (n + 1) <= Length[Piece]
          /\ Place + (n + 1) = Place + n + 1
      BY <1>1, <1>2, <1>3, <1>9, <2>2
    <3>2. QED BY <1>7, <2>1, <2>2, <3>1
  <2>3. CASE ~(Place + n < Length[Piece])
    <3>1. wire[n].of = Piece /\ wire[n].at = Place + n
      BY <1>2, <1>8, Fields
    <3>2. Place + n = Length[Piece] /\ n \in 1..(Len(wire) - 1)
      BY <1>1, <1>2, <1>3, <1>5, <1>9, <2>3
    <3>3. QED BY <2>1, <2>3, <3>1, <3>2 DEF Good, InARow
  <2>4. QED BY <2>2, <2>3
<1>10. (received + n) % SizeMod = received + n
  <2>1. received + n \in Nat /\ received + n < SizeMod
    BY <1>1, <1>2, <1>3, <1>5, Widths
  <2>2. QED BY <2>1, Widths, Modulo
<1>11. QED BY <1>1, <1>2, <1>3, <1>4, <1>5, <1>8, <1>9, <1>10

\* They are taken from the wire, and the receiver goes on behind them.
LEMMA Taken ==
  ASSUME TypeOK, Good, NEW n \in 1..Len(wire), Place \in Nat,
         wire[n] = Pos(Piece, Place + n),
         n < Len(wire) => wire[n + 1] = Following(Pos(Piece, Place + n)),
         wire' = SubSeq(wire, n + 1, Len(wire)),
         UNCHANGED <<inputs, sender, link>>,
         Pos(Piece', Place' + 1) = Following(Pos(Piece, Place + n))
  PROVE  wire' \in Seq(Byte) /\ InARow' /\ Connects'
<1> DEFINE N == Len(wire)
<1>1. /\ N \in Nat /\ n \in Nat \ {0} /\ n <= N /\ wire \in Seq(Byte)
      /\ wire' \in Seq(Byte) /\ Len(wire') = N - n
      /\ \A j \in 1..(N - n) : wire'[j] = wire[n + j]
  <2>1. wire \in Seq(Byte) /\ N \in Nat /\ n \in Nat \ {0} /\ n <= N
    BY DEF TypeOK
  <2> HIDE DEF N
  <2>2. /\ n + 1 \in 1..(N + 1) /\ N \in n..N
        /\ \A j \in 1..(N - n) : n + 1 + j - 1 = n + j
    BY <2>1
  <2>3. wire' = SubSeq(wire, n + 1, N) /\ N = Len(wire)
    BY DEF N
  <2>4. wire' \in Seq(Byte) /\ Len(wire') = N - n
    BY <2>1, <2>2, <2>3, SubSeqProperties
  <2>5. \A j \in 1..(N - n) : wire'[j] = wire[n + 1 + j - 1]
    BY <2>1, <2>2, <2>3, SubSeqProperties
  <2>6. QED BY <2>1, <2>2, <2>4, <2>5
<1>2. /\ Length' = Length /\ piece' = piece /\ sent' = sent /\ link' = link
  BY DEF inputs, sender, Length, MessageLen
<1> HIDE DEF N
<1>3. \A j \in 1..(N - n) : n + j \in 1..N /\ wire'[j] \in Byte
  BY <1>1
<1>4. InARow'
  <2>1. ASSUME NEW j \in 1..Len(wire')
        PROVE  wire'[j].at <= Length[wire'[j].of]
    BY <1>1, <1>3 DEF Good, InARow, N
  <2>2. ASSUME NEW j \in 1..Len(wire'), NEW k \in 1..Len(wire'),
               1 <= wire'[j].at + k - j, wire'[j].at + k - j <= Length[wire'[j].of]
        PROVE  wire'[k] = Pos(wire'[j].of, wire'[j].at + k - j)
    <3>1. PICK m \in Nat : m = wire[n + j].at
      <4>1. wire[n + j] \in Byte
        BY <1>1, <1>3
      <4>2. QED BY <4>1, Fields
    <3>2. /\ wire'[j] = wire[n + j] /\ wire'[k] = wire[n + k]
          /\ n + j \in 1..Len(wire) /\ n + k \in 1..Len(wire)
          /\ j \in Nat /\ k \in Nat
      BY <1>1, <1>3 DEF N
    <3>3. m + (n + k) - (n + j) = m + k - j
      BY <1>1, <3>1, <3>2
    <3>4. 1 <= m + (n + k) - (n + j) /\ m + (n + k) - (n + j) <= Length[wire[n + j].of]
      BY <2>2, <3>1, <3>2, <3>3
    <3>5. wire[n + k] = Pos(wire[n + j].of, m + (n + k) - (n + j))
      BY <3>1, <3>2, <3>4 DEF Good, InARow
    <3>6. QED BY <3>1, <3>2, <3>3, <3>5
  <2>3. ASSUME NEW j \in 1..(Len(wire') - 1), wire'[j].at = Length[wire'[j].of]
        PROVE  wire'[j + 1] = Pos(wire'[j].of + 1, 1)
    <3>1. /\ j \in 1..(N - n) /\ j + 1 \in 1..(N - n)
          /\ n + j \in 1..(N - 1) /\ n + (j + 1) = (n + j) + 1
      <4>1. N \in Nat /\ n \in Nat /\ n <= N /\ Len(wire') = N - n
        BY <1>1
      <4>2. j \in Nat /\ 1 <= j /\ j <= N - n - 1
        BY <4>1
      <4>3. j + 1 <= N - n /\ n + j <= N - 1 /\ n + (j + 1) = (n + j) + 1
        BY <4>1, <4>2
      <4>4. QED BY <4>1, <4>2, <4>3
    <3>2. wire'[j] = wire[n + j] /\ wire'[j + 1] = wire[(n + j) + 1]
      BY <1>1, <3>1
    <3>3. QED BY <2>3, <3>1, <3>2 DEF Good, InARow, N
  <2>4. QED BY <1>2, <2>1, <2>2, <2>3 DEF InARow
<1>5. CASE n < N
  <2>1. /\ 1 \in 1..(N - n) /\ N - n \in 1..(N - n) /\ n + (N - n) = N /\ N # 0
    <3>1. N \in Nat /\ n \in Nat
      BY <1>1
    <3>2. QED BY <1>5, <3>1
  <2>2. wire' # <<>> /\ wire # <<>>
    <3>1. Len(wire') # 0 /\ Len(wire) # 0
      BY <1>1, <1>5 DEF N
    <3>2. Len(<<>>) = 0
      OBVIOUS
    <3>3. QED BY <3>1, <3>2
  <2>3. wire'[1] = Pos(Piece', Place' + 1)
    BY <1>1, <1>5, <2>1 DEF N
  <2>4. wire'[Len(wire')] = wire[Len(wire)]
    <3>1. Len(wire') = N - n
      BY <1>1
    <3>2. wire'[N - n] = wire[N]
      BY <1>1, <2>1
    <3>3. QED BY <3>1, <3>2 DEF N
  <2>5. link = "up" => Pos(piece, sent + 1) = Following(wire[Len(wire)])
    BY <2>2 DEF Good, Connects
  <2>6. link' = "up" => Pos(piece', sent' + 1) = Following(wire'[Len(wire')])
    BY <1>2, <2>4, <2>5
  <2>7. Connects' <=> /\ wire' # <<>> => wire'[1] = Pos(Piece', Place' + 1)
                      /\ link' = "up" =>
                           Pos(piece', sent' + 1) =
                             IF wire' = <<>> THEN Pos(Piece', Place' + 1)
                             ELSE Following(wire'[Len(wire')])
    BY <1>2 DEF Connects, Following
  <2>8. QED BY <1>1, <1>4, <2>2, <2>3, <2>6, <2>7
<1>6. CASE n = N
  <2>1. wire' = <<>> /\ wire # <<>>
    BY <1>1, <1>6
  <2>2. link' = "up" => Pos(piece, sent + 1) = Following(wire[Len(wire)])
    BY <1>2, <2>1 DEF Good, Connects
  <2>3. wire[Len(wire)] = Pos(Piece, Place + n)
    BY <1>6 DEF N
  <2>4. link' = "up" => Pos(piece', sent' + 1) = Pos(Piece', Place' + 1)
    BY <1>2, <2>2, <2>3
  <2>5. QED BY <1>1, <1>4, <2>1, <2>4 DEF Connects
<1>7. QED BY <1>1, <1>5, <1>6

\* recv_bytes' buffer after them.
LEMMA FilledIn ==
  ASSUME TypeOK, Inputs, Good, Listening, wire # <<>>,
         NEW n \in 1..Least(Len(buffer) - received, Len(wire))
  PROVE  /\ Filled(n) \in Seq(Byte \cup {Untouched}) /\ Len(Filled(n)) = Len(buffer)
         /\ \A j \in 1..Len(buffer) :
              Filled(n)[j] = IF j <= received + n
                             THEN Pos(Piece, Place - received + j) ELSE Untouched
<1>1. /\ Piece \in 1..Count /\ Place \in Nat /\ received \in Nat /\ n \in Nat \ {0}
      /\ n \in 1..Len(wire) /\ received + n <= Len(buffer) /\ Len(buffer) \in Nat
      /\ Len(wire) \in Nat
      /\ \A j \in 1..n : wire[j] = Pos(Piece, Place + j)
  <2>1. received \in Nat /\ Len(buffer) \in Nat /\ Len(wire) \in Nat
    BY Widths DEF TypeOK
  <2>2. /\ Piece \in 1..Count /\ Place \in Nat /\ n \in 1..Len(wire)
        /\ received + n <= Len(buffer)
        /\ \A j \in 1..n : wire[j] = Pos(Piece, Place + j)
    BY Front
  <2>3. n \in Nat \ {0}
    BY <2>1, <2>2
  <2>4. QED BY <2>1, <2>2, <2>3
<1>2. /\ wire \in Seq(Byte) /\ buffer \in Seq(Byte \cup {Untouched})
      /\ \A j \in 1..Len(buffer) :
            buffer[j] = IF j <= received THEN Pos(Piece, Place - received + j)
                                         ELSE Untouched
  BY <1>1, Widths DEF TypeOK, Good, Expects
<1>3. ASSUME NEW j \in 1..Len(buffer)
      PROVE  /\ Filled(n)[j] \in Byte \cup {Untouched}
             /\ Filled(n)[j] = IF j <= received + n
                               THEN Pos(Piece, Place - received + j) ELSE Untouched
  <2>1. Filled(n)[j] = IF received < j /\ j <= received + n
                       THEN wire[j - received] ELSE buffer[j]
    BY DEF Filled
  <2>2. CASE received < j /\ j <= received + n
    <3>1. /\ j - received \in 1..n /\ j - received \in 1..Len(wire)
          /\ Place + (j - received) = Place - received + j
      BY <1>1, <2>2
    <3>2. QED BY <1>1, <1>2, <2>1, <2>2, <3>1
  <2>3. CASE j <= received
    BY <1>1, <1>2, <2>1, <2>3
  <2>4. CASE received + n < j
    BY <1>1, <1>2, <2>1, <2>4
  <2>5. QED BY <1>1, <2>2, <2>3, <2>4
<1>4. Filled(n) = [j \in 1..Len(buffer) |-> Filled(n)[j]]
  BY DEF Filled
<1>5. QED BY <1>1, <1>3, <1>4

\* Whatever is returned, the receiver goes on with an empty buffer.
LEMMA ReturnTyped ==
  ASSUME TypeOK, Inputs, Listening,
         NEW flag \in Byte \cup {Untouched}, NEW body \in Seq(Byte \cup {Untouched}),
         Return(flag, body)
  PROVE  /\ call' \in {"header", "text", "chunk"} /\ received' = 0
         /\ buffer' \in Seq(Byte \cup {Untouched}) /\ closed' = closed
         /\ returned' \in Seq([flag: Byte \cup {Untouched},
                              body: Seq(Byte \cup {Untouched})])
         /\ returned' = Append(returned, [flag |-> flag, body |-> body])
         /\ Len(returned') = Len(returned) + 1
<1> DEFINE Part == [flag: Byte \cup {Untouched}, body: Seq(Byte \cup {Untouched})]
           new == [flag |-> flag, body |-> body]
<1>1. returned \in Seq(Part) /\ new \in Part
  BY DEF TypeOK
<1>2. returned' = Append(returned, new) /\ closed' = closed
  BY DEF Return
<1> HIDE DEF new, Part
<1>3. returned' \in Seq(Part) /\ Len(returned') = Len(returned) + 1
  BY <1>1, <1>2
<1>4. PICK m \in Nat : buffer' = Blank(m) /\ received' = 0 /\ call' \in {"header", "chunk"}
  <2>1. CASE kind = "messages"
    BY <2>1 DEF Return, Asks, HeaderLen
  <2>2. CASE kind # "messages"
    <3>1. ASSUME Len(returned) + 1 < Count
          PROVE  size[Len(returned) + 2] \in Nat
      <4>1. Len(returned) + 2 \in 1..Count
        BY <1>1, <3>1, Widths
      <4>2. QED BY <2>2, <4>1, Widths DEF Inputs
    <3>2. QED BY <2>2, <3>1 DEF Return, Asks
  <2>3. QED BY <2>1, <2>2
<1>5. buffer' \in Seq(Byte \cup {Untouched})
  BY <1>4, Blanks
<1>6. QED BY <1>2, <1>3, <1>4, <1>5 DEF new, Part

\* A piece has been received.
LEMMA Returned ==
  ASSUME TypeOK, Inputs, Good, Listening, UNCHANGED inputs,
         NEW flag \in Byte \cup {Untouched}, NEW body \in Seq(Byte \cup {Untouched}),
         Return(flag, body), Whole(Piece) = [flag |-> flag, body |-> body]
  PROVE  /\ Expects' /\ AllWhole' /\ closed' = closed
         /\ Piece' = Piece + 1 /\ Place' = 0
         /\ call' \in {"header", "text", "chunk"} /\ received' \in 0..(SizeMod - 1)
         /\ buffer' \in Seq(Byte \cup {Untouched})
         /\ returned' \in Seq([flag: Byte \cup {Untouched},
                              body: Seq(Byte \cup {Untouched})])
<1> DEFINE Part == [flag: Byte \cup {Untouched}, body: Seq(Byte \cup {Untouched})]
           new == [flag |-> flag, body |-> body]
<1>1. /\ returned \in Seq(Part) /\ new \in Part /\ Len(returned) \in Nat
      /\ Len(returned) < Count
      /\ call = "chunk" <=> kind # "messages"
      /\ \A i \in 1..Len(returned) : returned[i] = Whole(i)
  BY DEF TypeOK, Listening, Good, Expects, AllWhole
<1>2. returned' = Append(returned, new) /\ closed' = closed
  BY DEF Return
<1>3. Whole(Piece) = new
  OBVIOUS
<1> HIDE DEF new, Part
<1>4. /\ returned' \in Seq(Part) /\ Len(returned') = Len(returned) + 1
      /\ \A i \in 1..Len(returned) : returned'[i] = returned[i]
      /\ returned'[Len(returned) + 1] = new
  BY <1>1, <1>2
<1>5. Piece' = Piece + 1 /\ Piece = Len(returned) + 1
  BY <1>1, <1>4 DEF Piece
<1>6. AllWhole'
  <2>1. \A i \in 1..Len(returned') : returned'[i] = Whole(i)
    BY <1>1, <1>3, <1>4, <1>5
  <2>2. QED BY <2>1 DEF AllWhole, Whole, MessageLen, inputs
<1>7. /\ Length' = Length /\ kind' = kind
      /\ Piece' \in 1..Count => Length[Piece'] \in Nat \ {0}
      /\ kind # "messages" /\ Piece' \in 1..Count => size[Piece'] = Length[Piece']
      /\ kind = "messages" /\ Piece' \in 1..Count => HeaderLen <= Length[Piece']
  BY Lengths DEF inputs, Length, MessageLen
<1>8. CASE kind = "messages"
  <2>1. call' = "header" /\ received' = 0 /\ buffer' = Blank(HeaderLen)
    BY <1>8 DEF Return, Asks
  <2>2. /\ buffer' \in Seq(Byte \cup {Untouched}) /\ Len(buffer') = HeaderLen
        /\ \A j \in 1..HeaderLen : buffer'[j] = Untouched
    BY <2>1, Blanks DEF HeaderLen
  <2>3. Expects'
    <3>1. ASSUME Piece' <= Count
          PROVE  /\ received' < Len(buffer')
                 /\ \A j \in 1..Len(buffer') :
                      buffer'[j] = IF j <= received'
                                   THEN Pos(Piece', Place' - received' + j)
                                   ELSE Untouched
      BY <2>1, <2>2 DEF HeaderLen
    <3>2. /\ call' # "chunk" /\ call' # "text" /\ kind' = "messages"
          /\ Len(buffer') = HeaderLen
      BY <1>7, <1>8, <2>1, <2>2
    <3>3. Piece' > Count => Piece' = Count + 1
      BY <1>1, <1>5, Widths
    <3>4. QED BY <2>1, <3>1, <3>2, <3>3 DEF Expects
  <2>4. QED
    BY <1>2, <1>4, <1>5, <1>6, <2>1, <2>2, <2>3, Widths DEF Place, Part
<1>9. CASE kind # "messages"
  <2> DEFINE m == IF Len(returned) + 1 < Count THEN size[Len(returned) + 2] ELSE 0
  <2>1. call' = "chunk" /\ received' = 0 /\ buffer' = Blank(m)
    BY <1>9 DEF Return, Asks
  <2>2. m \in Nat /\ (Piece' <= Count => m = Length[Piece'])
    <3>1. /\ Len(returned) + 1 < Count <=> Piece' <= Count
          /\ Piece' = Len(returned) + 2 /\ Piece' \in Nat \ {0}
      <4>1. Len(returned) \in Nat /\ Piece' = Len(returned) + 2 /\ Count \in Nat
        BY <1>1, <1>5, Widths
      <4>2. QED BY <4>1
    <3>2. QED BY <1>7, <1>9, <3>1, Widths
  <2> HIDE DEF m
  <2>3. /\ buffer' \in Seq(Byte \cup {Untouched}) /\ Len(buffer') = m
        /\ \A j \in 1..m : buffer'[j] = Untouched
    BY <2>1, <2>2, Blanks
  <2>4. Expects'
    <3>1. Piece' \in Nat \ {0} /\ (Piece' > Count => Piece' = Count + 1)
      <4>1. /\ Len(returned) \in Nat /\ Len(returned) < Count /\ Count \in Nat
            /\ Piece' = Len(returned) + 2
        BY <1>1, <1>5, Widths
      <4>2. QED BY <4>1
    <3>2. ASSUME Piece' <= Count
          PROVE  /\ received' < Len(buffer') /\ Len(buffer') = Length[Piece']
                 /\ \A j \in 1..Len(buffer') :
                      buffer'[j] = IF j <= received'
                                   THEN Pos(Piece', Place' - received' + j)
                                   ELSE Untouched
      <4>1. m = Length[Piece'] /\ m \in Nat \ {0}
        BY <1>7, <2>2, <3>1, <3>2, Widths
      <4>2. QED BY <2>1, <2>3, <4>1
    <3>3. call' = "chunk" /\ kind' # "messages" /\ received' = 0
      BY <1>7, <1>9, <2>1
    <3>4. QED BY <1>7, <3>1, <3>2, <3>3 DEF Expects
  <2>5. QED
    BY <1>2, <1>4, <1>5, <1>6, <2>1, <2>3, <2>4, Widths DEF Place, Part
<1>10. QED BY <1>8, <1>9

\* A call of recv_bytes has filled its buffer.
LEMMA CallDone ==
  ASSUME TypeOK, Inputs, Good, Listening, UNCHANGED inputs,
         NEW b \in Seq(Byte \cup {Untouched}), Len(b) = Len(buffer),
         \A j \in 1..Len(b) : b[j] = Pos(Piece, Place - received + j),
         Received(b)
  PROVE  /\ Expects' /\ AllWhole' /\ closed' = closed
         /\ Pos(Piece', Place' + 1) = Following(Pos(Piece, Place - received + Len(b)))
         /\ call' \in {"header", "text", "chunk"} /\ received' \in 0..(SizeMod - 1)
         /\ buffer' \in Seq(Byte \cup {Untouched})
         /\ header' \in Seq(Byte \cup {Untouched})
         /\ returned' \in Seq([flag: Byte \cup {Untouched},
                              body: Seq(Byte \cup {Untouched})])
<1> DEFINE Goal == /\ Expects' /\ AllWhole' /\ closed' = closed
                   /\ call' \in {"header", "text", "chunk"}
                   /\ received' \in 0..(SizeMod - 1)
                   /\ buffer' \in Seq(Byte \cup {Untouched})
                   /\ returned' \in Seq([flag: Byte \cup {Untouched},
                                        body: Seq(Byte \cup {Untouched})])
           next == Following(Pos(Piece, Place - received + Len(b)))
<1>1. /\ Piece \in 1..Count /\ received \in Nat
      /\ call = "chunk" <=> kind # "messages"
      /\ call \in {"header", "text", "chunk"}
      /\ Len(b) \in Nat /\ received < Len(b)
      /\ call = "header" => Len(b) = HeaderLen
      /\ call = "text" => Len(b) = Length[Piece] - HeaderLen /\ header[2] = Pos(Piece, 2)
      /\ call = "chunk" => Len(b) = Length[Piece]
  BY Widths DEF Listening, TypeOK, Good, Expects, Piece
<1>2. /\ Place - received = IF call = "text" THEN HeaderLen ELSE 0
      /\ Length[Piece] \in Nat \ {0}
      /\ Length[Piece] < SizeMod /\ Length' = Length
      /\ kind # "messages" => Length[Piece] = size[Piece]
      /\ kind = "messages" => Length[Piece] = MessageLen(Piece) /\ HeaderLen <= Length[Piece]
  BY <1>1, Lengths DEF Place, inputs, Length, MessageLen, HeaderLen
<1>3. next = IF Place - received + Len(b) < Length[Piece]
             THEN Pos(Piece, Place - received + Len(b) + 1) ELSE Pos(Piece + 1, 1)
  BY Fields DEF Following
<1>4. CASE call = "header"
  <2>1. /\ kind = "messages" /\ Len(b) = HeaderLen
        /\ b[1] = Pos(Piece, 1) /\ b[2] = Pos(Piece, 2)
    BY <1>1, <1>2, <1>4 DEF HeaderLen
  <2>2. Value(b[1]) = Length[Piece] /\ TextLen(b) = Length[Piece] - HeaderLen
    BY <1>1, <2>1, Headers
  <2>3. CASE Length[Piece] = HeaderLen
    <3>1. Return(b[2], <<>>) /\ header' = b
      BY <1>4, <2>2, <2>3 DEF Received, HeaderLen
    <3>2. Whole(Piece) = [flag |-> b[2], body |-> <<>>]
      <4>1. SubSeq(Bytes(Piece, HeaderLen), 3, HeaderLen) = <<>>
        BY SubSeqEmpty DEF HeaderLen
      <4>2. Whole(Piece) = [flag |-> [of |-> Piece, at |-> 2],
                            body |-> SubSeq(Bytes(Piece, HeaderLen), 3, HeaderLen)]
        BY <1>2, <2>1, <2>3 DEF Whole
      <4>3. QED BY <2>1, <4>1, <4>2 DEF Pos
    <3>3. b[2] \in Byte \cup {Untouched} /\ <<>> \in Seq(Byte \cup {Untouched})
      <4>1. 2 \in 1..Len(b)
        BY <2>1 DEF HeaderLen
      <4>2. b[2] \in Byte \cup {Untouched}
        BY <4>1, ElementOfSeq
      <4>3. QED BY <4>2
    <3>4. Goal /\ Piece' = Piece + 1 /\ Place' = 0
      BY <3>1, <3>2, <3>3, Returned
    <3>5. Pos(Piece', Place' + 1) = next
      BY <1>2, <1>3, <1>4, <2>1, <2>3, <3>4 DEF HeaderLen
    <3>6. QED BY <3>1, <3>4, <3>5
  <2>4. CASE Length[Piece] # HeaderLen
    <3>1. /\ Asks("text", Length[Piece] - HeaderLen) /\ header' = b
          /\ UNCHANGED <<returned, closed>>
      <4>1. /\ Value(b[1]) # 0 /\ Value(b[1]) > 0
            /\ TextLen(b) # 0 /\ TextLen(b) > 0
        BY <1>2, <2>1, <2>2, <2>4 DEF HeaderLen
      <4>2. /\ Asks("text", TextLen(b)) /\ header' = b
            /\ UNCHANGED <<returned, closed>>
        BY <1>4, <4>1 DEF Received
      <4>3. QED BY <2>2, <4>2
    <3>2. Length[Piece] - HeaderLen \in Nat \ {0}
      BY <1>2, <2>1, <2>4 DEF HeaderLen
    <3>3. /\ buffer' \in Seq(Byte \cup {Untouched})
          /\ Len(buffer') = Length[Piece] - HeaderLen
          /\ \A j \in 1..Len(buffer') : buffer'[j] = Untouched
          /\ call' = "text" /\ received' = 0
      BY <3>1, <3>2, Blanks DEF Asks
    <3>4. Piece' = Piece /\ Place' = HeaderLen
      BY <3>1, <3>3 DEF Piece, Place, HeaderLen
    <3>5. AllWhole'
      BY <3>1 DEF Good, AllWhole, Whole, MessageLen, inputs
    <3>6. Expects'
      <4>1. Piece' <= Count /\ ~(Piece' > Count)
        BY <1>1, <3>4, Widths
      <4>2. /\ kind' = "messages" /\ header'[2] = Pos(Piece', 2)
            /\ Len(buffer') = Length'[Piece'] - HeaderLen
        BY <1>2, <2>1, <3>1, <3>3, <3>4 DEF inputs
      <4>3. /\ received' < Len(buffer')
            /\ \A j \in 1..Len(buffer') :
                 buffer'[j] = IF j <= received'
                              THEN Pos(Piece', Place' - received' + j)
                              ELSE Untouched
        BY <3>2, <3>3
      <4>4. QED BY <3>3, <4>1, <4>2, <4>3 DEF Expects
    <3>7. Pos(Piece', Place' + 1) = next
      BY <1>2, <1>3, <1>4, <2>1, <2>4, <3>4 DEF HeaderLen
    <3>8. QED BY <3>1, <3>3, <3>5, <3>6, <3>7, Widths DEF TypeOK
  <2>5. QED BY <2>3, <2>4
<1>5. CASE call = "text"
  <2>1. Return(header[2], b) /\ header' = header
    BY <1>5 DEF Received
  <2>2. kind = "messages" /\ header[2] = Pos(Piece, 2) /\ Length[Piece] < ByteMod
    BY <1>1, <1>5, Lengths
  <2> DEFINE text == SubSeq(Bytes(Piece, Length[Piece]), 3, Length[Piece])
  <2>3. b = text
    <3> DEFINE all == Bytes(Piece, Length[Piece])
    <3>1. /\ all \in Seq(Byte) /\ Len(all) = Length[Piece]
          /\ \A j \in 1..Length[Piece] : all[j] = Pos(Piece, j)
      BY <1>1, <1>2, BytesOf, Widths
    <3> HIDE DEF all
    <3>2. /\ Len(text) = Len(b)
          /\ \A j \in 1..Len(b) : text[j] = all[3 + j - 1]
      <4>1. /\ 3 \in Int /\ Length[Piece] \in Int
            /\ \A j \in 3..Length[Piece] : all[j] \in Byte
            /\ Len(b) = Length[Piece] - 2 /\ Len(b) = Length[Piece] - 3 + 1
            /\ 3 <= Length[Piece]
        BY <1>1, <1>2, <1>5, <3>1 DEF HeaderLen
      <4>2. QED BY <4>1, SubSeqProperties DEF all
    <3>3. text \in Seq(Byte \cup {Untouched})
      <4>1. \A j \in 3..Length[Piece] : all[j] \in Byte \cup {Untouched}
        BY <1>2, <3>1
      <4>2. QED BY <1>2, <4>1, SubSeqProperties DEF all
    <3>4. \A j \in 1..Len(b) : text[j] = b[j]
      <4>1. ASSUME NEW j \in 1..Len(b) PROVE text[j] = b[j]
        <5>1. 3 + j - 1 \in 1..Length[Piece] /\ 3 + j - 1 = Place - received + j
          BY <1>1, <1>2, <1>5 DEF HeaderLen
        <5>2. QED BY <3>1, <3>2, <5>1
      <4>2. QED BY <4>1
    <3> HIDE DEF text
    <3>5. QED BY <3>2, <3>3, <3>4, SeqEqual
  <2>4. Whole(Piece) = [flag |-> header[2], body |-> b]
    BY <1>2, <2>2, <2>3 DEF Whole, Pos
  <2>5. header[2] \in Byte \cup {Untouched}
    BY <1>1, <1>2, <2>2, Widths DEF Pos, Byte, HeaderLen
  <2>6. Goal /\ Piece' = Piece + 1 /\ Place' = 0
    BY <2>1, <2>4, <2>5, Returned
  <2>7. Pos(Piece', Place' + 1) = next
    BY <1>1, <1>2, <1>3, <1>5, <2>6 DEF HeaderLen
  <2>8. QED BY <2>1, <2>6, <2>7 DEF TypeOK
<1>6. CASE call = "chunk"
  <2>1. Return(Untouched, b) /\ header' = header
    BY <1>6 DEF Received
  <2>2. b = Bytes(Piece, size[Piece])
    <3> DEFINE all == Bytes(Piece, size[Piece])
    <3>1. size[Piece] = Length[Piece] /\ Len(b) = size[Piece] /\ Place - received = 0
      BY <1>1, <1>2, <1>6
    <3>2. /\ all \in Seq(Byte) /\ Len(all) = Len(b)
          /\ \A j \in 1..Len(b) : all[j] = Pos(Piece, j)
      BY <1>1, <1>2, <3>1, BytesOf, Widths
    <3>3. \A j \in 1..Len(b) : all[j] = b[j]
      BY <1>1, <3>1, <3>2
    <3> HIDE DEF all
    <3>4. all \in Seq(Byte \cup {Untouched})
      BY <3>2
    <3>5. QED BY <3>2, <3>3, <3>4, SeqEqual DEF all
  <2>3. Whole(Piece) = [flag |-> Untouched, body |-> b]
    BY <1>1, <1>6, <2>2 DEF Whole
  <2>4. Goal /\ Piece' = Piece + 1 /\ Place' = 0
    BY <2>1, <2>3, Returned
  <2>5. Pos(Piece', Place' + 1) = next
    BY <1>1, <1>2, <1>3, <1>6, <2>4
  <2>6. QED BY <2>1, <2>4, <2>5 DEF TypeOK
<1>7. QED BY <1>1, <1>4, <1>5, <1>6

LEMMA RecvSomeKeeps ==
  ASSUME Sound, RecvSome
  PROVE  Sound'
<1>1. /\ TypeOK /\ Inputs /\ InPiece /\ Good /\ Listening /\ wire # <<>>
      /\ UNCHANGED <<inputs, sender, link, dead>> /\ ~closed /\ link # "lost"
  BY DEF Sound, Spoilt, RecvSome, Listening
<1>2. PICK n \in 1..Least(Len(buffer) - received, Len(wire)) :
        /\ wire' = SubSeq(wire, n + 1, Len(wire))
        /\ Counted((received + n) % SizeMod, Filled(n))
  BY DEF RecvSome
<1>3. /\ Piece \in 1..Count /\ Place \in Nat /\ Place + n <= Length[Piece]
      /\ n \in 1..Len(wire) /\ n \in Nat \ {0} /\ received + n <= Len(buffer)
      /\ wire[n] = Pos(Piece, Place + n)
      /\ n < Len(wire) => wire[n + 1] = Following(Pos(Piece, Place + n))
      /\ (received + n) % SizeMod = received + n
      /\ received \in Nat /\ Len(buffer) \in Nat
      /\ Len(buffer) - received + Place <= Length[Piece]
      /\ Length[Piece] \in Nat /\ Length[Piece] < SizeMod
  <2>1. received \in Nat /\ Len(buffer) \in Nat /\ Len(wire) \in Nat
    BY <1>1, Widths DEF TypeOK
  <2>2. \A j \in 1..n : wire[j] = Pos(Piece, Place + j)
    BY <1>1, Front
  <2>3. n \in 1..n /\ n \in Nat \ {0}
    BY <2>1
  <2>4. QED BY <1>1, <2>1, <2>2, <2>3, Front
<1> DEFINE b == Filled(n)
<1>4. /\ b \in Seq(Byte \cup {Untouched}) /\ Len(b) = Len(buffer)
      /\ \A j \in 1..Len(buffer) :
           b[j] = IF j <= received + n THEN Pos(Piece, Place - received + j)
                                       ELSE Untouched
  BY <1>1, FilledIn
<1> HIDE DEF b
<1>5. Counted(received + n, b)
  BY <1>2, <1>3 DEF b
<1>6. /\ Expects' /\ AllWhole' /\ closed' = closed
      /\ Pos(Piece', Place' + 1) = Following(Pos(Piece, Place + n))
      /\ call' \in {"header", "text", "chunk"} /\ received' \in 0..(SizeMod - 1)
      /\ buffer' \in Seq(Byte \cup {Untouched})
      /\ header' \in Seq(Byte \cup {Untouched})
      /\ returned' \in Seq([flag: Byte \cup {Untouched},
                           body: Seq(Byte \cup {Untouched})])
  <2>1. CASE received + n < Len(b)
    <3>1. /\ received' = received + n /\ buffer' = b
          /\ UNCHANGED <<call, header, returned, closed>>
      BY <1>5, <2>1 DEF Counted
    <3>2. /\ Piece' = Piece /\ Place' = Place + n /\ Place' - received' = Place - received
          /\ Length' = Length /\ kind' = kind
      BY <1>1, <1>3, <3>1 DEF Piece, Place, HeaderLen, inputs, Length, MessageLen
    <3>3. AllWhole'
      BY <1>1, <3>1 DEF Good, AllWhole, Whole, MessageLen, inputs
    <3>4. Expects'
      <4>1. /\ received' < Len(buffer') /\ Len(buffer') = Len(buffer)
            /\ \A j \in 1..Len(buffer') :
                 buffer'[j] = IF j <= received'
                              THEN Pos(Piece', Place' - received' + j)
                              ELSE Untouched
        BY <1>4, <2>1, <3>1, <3>2
      <4>2. Piece' <= Count /\ ~(Piece' > Count)
        BY <1>3, <3>2, Widths
      <4>3. QED BY <1>1, <3>1, <3>2, <4>1, <4>2 DEF Good, Expects
    <3>5. Place + n < Length[Piece]
      BY <1>3, <1>4, <2>1
    <3>6. Pos(Piece', Place' + 1) = Following(Pos(Piece, Place + n))
      BY <3>2, <3>5, Fields DEF Following
    <3>7. received' \in 0..(SizeMod - 1)
      BY <1>3, <3>1, <3>5, Widths DEF Place, HeaderLen
    <3>8. QED BY <1>1, <1>4, <3>1, <3>3, <3>4, <3>6, <3>7 DEF TypeOK
  <2>2. CASE received + n = Len(b)
    <3>1. Received(b)
      BY <1>3, <1>4, <1>5, <2>2 DEF Counted
    <3>2. \A j \in 1..Len(b) : b[j] = Pos(Piece, Place - received + j)
      <4>1. Len(b) = Len(buffer)
        BY <1>4
      <4>2. \A j \in 1..Len(b) : j <= received + n
        BY <2>2
      <4>3. QED BY <1>4, <4>1, <4>2
    <3>3. Place - received + Len(b) = Place + n
      <4>1. received \in Nat /\ Place \in Nat /\ n \in Nat
        BY <1>3
      <4>2. Place - received + (received + n) = Place + n
        BY <4>1
      <4>3. QED BY <2>2, <4>2
    <3>4. UNCHANGED inputs
      BY <1>1
    <3>5. QED BY <1>1, <1>4, <3>1, <3>2, <3>3, <3>4, CallDone
  <2>3. QED BY <1>3, <1>4, <2>1, <2>2
<1>7. wire' \in Seq(Byte) /\ InARow' /\ Connects'
  BY <1>1, <1>2, <1>3, <1>6, Taken
<1>8. Good' /\ TypeOK' /\ Inputs' /\ ClosedWhenGone' /\ (dead' => link' # "up")
  BY <1>1, <1>6, <1>7 DEF Sound, Good, TypeOK, Inputs, ClosedWhenGone, inputs, sender
<1>9. InPiece'
  BY <1>1 DEF InPiece, inputs, sender, Length, MessageLen
<1>10. AsSent'
  BY <1>6 DEF AllWhole, AsSent
<1>11. QED BY <1>1, <1>8, <1>9, <1>10 DEF Sound

\* recv has ended, or failed: nothing more will come.
LEMMA RecvEndKeeps ==
  ASSUME Sound, RecvEnd
  PROVE  Sound'
<1>1. /\ UNCHANGED <<inputs, sender, wire, link, dead, call, received, buffer, header,
                     returned>>
      /\ closed' = TRUE /\ wire = <<>> /\ link # "up"
  BY DEF RecvEnd
<1>2. /\ TypeOK' /\ Inputs' /\ InPiece' /\ AsSent' /\ ClosedWhenGone'
      /\ (dead' => link' # "up")
  BY <1>1 DEF Sound, TypeOK, Inputs, InPiece, AsSent, Whole, MessageLen, Length,
              ClosedWhenGone, inputs, sender
<1>3. QED BY <1>1, <1>2 DEF Sound, Spoilt

\* Minus one, added to received_bytes.
LEMMA MinusOne ==
  ASSUME TypeOK
  PROVE  (received + SizeMod - 1) % SizeMod =
           IF received = 0 THEN SizeMod - 1 ELSE received - 1
<1>1. received \in 0..(SizeMod - 1) /\ SizeMod \in Nat \ {0}
  BY Widths DEF TypeOK
<1>2. CASE received = 0
  <2>1. received + SizeMod - 1 = SizeMod - 1 /\ SizeMod - 1 \in Nat /\ SizeMod - 1 < SizeMod
    BY <1>1, <1>2
  <2>2. (SizeMod - 1) % SizeMod = SizeMod - 1
    BY <1>1, <2>1, Modulo
  <2>3. QED BY <1>2, <2>1, <2>2
<1>3. CASE received # 0
  <2>1. PICK r \in Nat : r = received - 1 /\ r < SizeMod
    BY <1>1, <1>3
  <2>2. (r + SizeMod) % SizeMod = r
    BY <1>1, <2>1, ModuloPlus
  <2>3. received + SizeMod - 1 = r + SizeMod
    BY <1>1, <2>1
  <2>4. QED BY <1>3, <2>1, <2>2, <2>3
<1>4. QED BY <1>2, <1>3

LEMMA RecvFailsKeeps ==
  ASSUME Sound, RecvFails
  PROVE  Sound'
<1>1. /\ TypeOK /\ Inputs /\ InPiece /\ Good /\ Listening /\ AsSent
      /\ UNCHANGED <<inputs, sender, wire, dead>> /\ wire = <<>> /\ link = "rst"
      /\ link' = "lost" /\ ~closed
      /\ Counted((received + SizeMod - 1) % SizeMod, buffer)
  BY DEF Sound, RecvFails, Listening
<1>2. /\ Piece \in 1..Count /\ received \in Nat /\ received < Len(buffer)
      /\ Len(buffer) \in Nat /\ Len(buffer) < SizeMod /\ SizeMod \in Nat
  <2>1. Piece \in 1..Count /\ received \in Nat /\ Len(buffer) \in Nat
    BY <1>1, Widths DEF Listening, TypeOK, Piece
  <2>2. /\ Length[Piece] \in Nat /\ Length[Piece] < SizeMod
        /\ kind = "messages" => HeaderLen <= Length[Piece]
    BY <1>1, <2>1, Lengths
  <2>3. received < Len(buffer) /\ Len(buffer) <= Length[Piece]
    <3>1. Piece <= Count /\ Expects
      BY <1>1, <2>1, Widths DEF Good
    <3>2. CASE call = "header"
      BY <2>1, <2>2, <3>1, <3>2 DEF Expects
    <3>3. CASE call = "text"
      BY <2>1, <2>2, <3>1, <3>3 DEF Expects, HeaderLen
    <3>4. CASE call = "chunk"
      BY <2>1, <2>2, <3>1, <3>4 DEF Expects
    <3>5. QED BY <1>1, <3>2, <3>3, <3>4 DEF TypeOK
  <2>4. QED BY <2>1, <2>2, <2>3, Widths
<1>3. (received + SizeMod - 1) % SizeMod =
        IF received = 0 THEN SizeMod - 1 ELSE received - 1
  BY <1>1, MinusOne
<1>4. /\ AsSent' /\ closed' \in BOOLEAN
      /\ call' \in {"header", "text", "chunk"} /\ received' \in 0..(SizeMod - 1)
      /\ buffer' \in Seq(Byte \cup {Untouched})
      /\ header' \in Seq(Byte \cup {Untouched})
      /\ returned' \in Seq([flag: Byte \cup {Untouched},
                           body: Seq(Byte \cup {Untouched})])
  <2>1. CASE received # 0
    <3>1. /\ received' = received - 1 /\ buffer' = buffer
          /\ UNCHANGED <<call, header, returned, closed>>
      BY <1>1, <1>2, <1>3, <2>1 DEF Counted
    <3>2. AsSent'
      BY <1>1, <3>1 DEF AsSent, Whole, MessageLen, inputs
    <3>3. QED BY <1>1, <1>2, <2>1, <3>1, <3>2, Widths DEF TypeOK
  <2>2. CASE received = 0
    <3>1. Received(buffer)
      BY <1>1, <1>2, <1>3, <2>2 DEF Counted
    <3>2. /\ \A j \in 1..Len(buffer) : buffer[j] = Untouched
          /\ call = "text" => header[2] = Pos(Piece, 2)
          /\ call = "header" => Len(buffer) = HeaderLen
          /\ call = "chunk" <=> kind # "messages"
      BY <1>1, <1>2, <2>2 DEF Good, Expects
    <3>3. CASE call = "header"
      <4>1. Value(buffer[1]) = 0
        BY <1>1, <3>2, <3>3, Values DEF HeaderLen
      <4>2. closed' = TRUE /\ UNCHANGED <<call, received, buffer, header, returned>>
        BY <3>1, <3>3, <4>1 DEF Received
      <4>3. AsSent'
        BY <1>1, <4>2 DEF AsSent, Whole, MessageLen, inputs
      <4>4. QED BY <1>1, <4>2, <4>3 DEF TypeOK
    <3>4. CASE call # "header"
      <4>1. PICK flag \in Byte \cup {Untouched} :
              Return(flag, buffer) /\ header' = header /\ flag = Whole(Piece).flag
        <5>1. CASE call = "text"
          <6>1. header[2] \in Byte \cup {Untouched}
            BY <1>2, <3>2, <5>1, Lengths, Widths, <1>1 DEF Pos, Byte
          <6>2. header[2] = Whole(Piece).flag
            BY <3>2, <5>1 DEF Whole, Pos
          <6>3. QED BY <3>1, <5>1, <6>1, <6>2 DEF Received
        <5>2. CASE call = "chunk"
          BY <3>1, <3>2, <5>2 DEF Received, Whole
        <5>3. QED BY <1>1, <3>4, <5>1, <5>2 DEF TypeOK
      <4>2. /\ call' \in {"header", "text", "chunk"} /\ received' = 0
            /\ buffer' \in Seq(Byte \cup {Untouched}) /\ closed' = closed
            /\ returned' \in Seq([flag: Byte \cup {Untouched},
                                 body: Seq(Byte \cup {Untouched})])
            /\ returned' = Append(returned, [flag |-> flag, body |-> buffer])
            /\ Len(returned') = Len(returned) + 1
        <5>1. buffer \in Seq(Byte \cup {Untouched})
          BY <1>1 DEF TypeOK
        <5>2. QED BY <1>1, <4>1, <5>1, ReturnTyped
      <4>3. AsSent'
        <5>1. /\ Len(returned) \in Nat
              /\ \A i \in 1..Len(returned) : returned'[i] = returned[i]
              /\ returned'[Len(returned) + 1] = [flag |-> flag, body |-> buffer]
          BY <1>1, <4>2 DEF TypeOK
        <5>2. \A i \in 1..Len(returned) : returned'[i] = Whole(i)
          BY <1>1, <5>1 DEF Good, AllWhole
        <5>3. returned'[Len(returned')].flag = Whole(Piece).flag /\ Piece = Len(returned')
          BY <4>1, <4>2, <5>1 DEF Piece
        <5>4. ASSUME NEW i \in 1..Len(returned')
              PROVE  \/ returned'[i] = Whole(i)
                     \/ i = Len(returned') /\ returned'[i].flag = Whole(i).flag
          <6>1. i \in 1..Len(returned) \/ i = Len(returned')
            BY <4>2, <5>1
          <6>2. QED BY <5>2, <5>3, <6>1
        <5>5. QED BY <1>1, <5>4 DEF AsSent, Whole, MessageLen, inputs
      <4>4. QED BY <1>1, <4>1, <4>2, <4>3, Widths DEF TypeOK
    <3>5. QED BY <3>3, <3>4
  <2>3. QED BY <2>1, <2>2
<1>5. /\ TypeOK' /\ Inputs' /\ InPiece' /\ ClosedWhenGone' /\ (dead' => link' # "up")
  BY <1>1, <1>4 DEF TypeOK, Inputs, InPiece, ClosedWhenGone, Length, MessageLen,
                    inputs, sender
<1>6. QED BY <1>1, <1>4, <1>5 DEF Sound, Spoilt

-----------------------------------------------------------------------------
(***************************************************************************)
(* The connection, and the theorems.                                       *)
(***************************************************************************)
\* What is left of the bytes in flight still follows what was received.
LEMMA BreakKeeps ==
  ASSUME Sound, Break
  PROVE  Sound'
<1>1. /\ TypeOK /\ Inputs /\ InPiece /\ Good /\ AsSent /\ ~closed
      /\ UNCHANGED <<inputs, sender, receiver>>
      /\ link' \in {"fin", "rst"} /\ dead' \in BOOLEAN
  BY DEF Sound, Break, ClosedWhenGone
<1>2. PICK n \in 0..Len(wire) : wire' = SubSeq(wire, 1, n)
  BY DEF Break
<1>3. /\ n \in Nat /\ Len(wire) \in Nat /\ n <= Len(wire)
      /\ wire' \in Seq(Byte) /\ Len(wire') = n
      /\ \A j \in 1..n : wire'[j] = wire[j] /\ j \in 1..Len(wire)
  <2>1. wire \in Seq(Byte) /\ n \in Nat /\ Len(wire) \in Nat /\ n <= Len(wire)
    BY <1>1 DEF TypeOK
  <2>2. \A j \in 1..n : j \in 1..Len(wire)
    BY <2>1
  <2>3. QED BY <1>2, <2>1, <2>2
<1>4. /\ Length' = Length /\ Piece' = Piece /\ Place' = Place
      /\ Expects' /\ AllWhole'
  BY <1>1 DEF Good, Expects, AllWhole, Whole, Length, MessageLen, Piece, Place,
              inputs, receiver
<1>5. InARow'
  <2>1. ASSUME NEW j \in 1..n
        PROVE  wire'[j].at <= Length[wire'[j].of]
    BY <1>1, <1>3 DEF Good, InARow
  <2>2. ASSUME NEW j \in 1..n, NEW k \in 1..n,
               1 <= wire'[j].at + k - j, wire'[j].at + k - j <= Length[wire'[j].of]
        PROVE  wire'[k] = Pos(wire'[j].of, wire'[j].at + k - j)
    BY <1>1, <1>3, <2>2 DEF Good, InARow
  <2>3. ASSUME NEW j \in 1..(n - 1), wire'[j].at = Length[wire'[j].of]
        PROVE  wire'[j + 1] = Pos(wire'[j].of + 1, 1)
    <3>1. j \in 1..n /\ j + 1 \in 1..n /\ j \in 1..(Len(wire) - 1)
      BY <1>3
    <3>2. QED BY <1>1, <1>3, <2>3, <3>1 DEF Good, InARow
  <2>4. QED BY <1>3, <1>4, <2>1, <2>2, <2>3 DEF InARow
<1>6. Connects'
  <2>1. ASSUME wire' # <<>>
        PROVE  wire'[1] = Pos(Piece', Place' + 1)
    <3>1. 1 \in 1..n
      BY <1>3, <2>1
    <3>2. wire # <<>> /\ wire'[1] = wire[1]
      BY <1>3, <3>1
    <3>3. QED BY <1>1, <1>4, <3>2 DEF Good, Connects
  <2>2. link' # "up"
    BY <1>1
  <2>3. QED BY <2>1, <2>2 DEF Connects
<1>7. TypeOK' /\ Inputs' /\ InPiece' /\ ClosedWhenGone' /\ AsSent'
  <2>1. TypeOK' /\ Inputs' /\ ClosedWhenGone'
    BY <1>1, <1>3 DEF TypeOK, Inputs, ClosedWhenGone, inputs, sender, receiver
  <2>2. InPiece'
    BY <1>1, <1>4 DEF InPiece, inputs, sender
  <2>3. AsSent'
    BY <1>4 DEF AllWhole, AsSent
  <2>4. QED BY <2>1, <2>2, <2>3
<1>8. QED BY <1>1, <1>4, <1>5, <1>6, <1>7 DEF Sound, Good

LEMMA SoundInit ==
  ASSUME Init
  PROVE  Sound
<1>1. /\ Inputs /\ piece = 1 /\ sent = 0 /\ wire = <<>> /\ link = "up" /\ dead = FALSE
      /\ received = 0 /\ header = Blank(HeaderLen) /\ returned = <<>> /\ closed = FALSE
      /\ kind \in {"messages", "chunks", "paths"}
  BY DEF Init, Inputs
<1>2. /\ Piece = 1 /\ 1 \in 1..Count /\ Count \in Nat \ {0}
      /\ Length[1] \in Nat \ {0} /\ (kind # "messages" => Length[1] = size[1])
  BY <1>1, Lengths, Widths DEF Piece
<1>3. PICK m \in Nat \ {0} :
        /\ buffer = Blank(m)
        /\ \/ kind = "messages" /\ call = "header" /\ m = HeaderLen
           \/ kind # "messages" /\ call = "chunk" /\ m = Length[1]
  BY <1>2 DEF Init, HeaderLen
<1>4. /\ buffer \in Seq(Byte \cup {Untouched}) /\ Len(buffer) = m
      /\ \A j \in 1..m : buffer[j] = Untouched
  BY <1>3, Blanks
<1>5. TypeOK
  <2>1. header \in Seq(Byte \cup {Untouched})
    BY <1>1, Blanks DEF HeaderLen
  <2>2. size \in [1..Count -> Texts \cup Chunks]
    BY <1>1 DEF Inputs
  <2>3. piece \in 1..(Count + 1) /\ sent \in 0..(SizeMod - 1) /\ received \in 0..(SizeMod - 1)
    BY <1>1, <1>2, Widths
  <2>4. /\ wire \in Seq(Byte)
        /\ returned \in Seq([flag: Byte \cup {Untouched}, body: Seq(Byte \cup {Untouched})])
    BY <1>1
  <2>5. call \in {"header", "text", "chunk"}
    BY <1>3
  <2>6. QED BY <1>1, <1>4, <2>1, <2>2, <2>3, <2>4, <2>5 DEF TypeOK
<1>6. Place = 0
  BY <1>1, <1>3 DEF Place
<1>7. InARow /\ Connects /\ AllWhole /\ AsSent /\ ClosedWhenGone
  BY <1>1, <1>2, <1>6 DEF InARow, Connects, AllWhole, AsSent, ClosedWhenGone
<1>8. Expects
  <2>1. received < Len(buffer)
    BY <1>1, <1>3, <1>4
  <2>2. \A j \in 1..Len(buffer) : ~(j <= received) /\ buffer[j] = Untouched
    BY <1>1, <1>3, <1>4
  <2>3. QED BY <1>1, <1>2, <1>3, <1>4, <2>1, <2>2 DEF Expects
<1>9. InPiece
  BY <1>1, <1>2 DEF InPiece
<1>10. QED BY <1>1, <1>5, <1>7, <1>8, <1>9 DEF Sound, Good

LEMMA SoundNext ==
  ASSUME Sound, [Next]_vars
  PROVE  Sound'
<1>1. CASE SendMessage
  BY <1>1, SenderAlone, SenderSends
<1>2. CASE SendSome
  BY <1>2, SenderSends
<1>3. CASE SendVoid \/ SendFails \/ SendGivesUp
  BY <1>3, SenderAlone
<1>4. CASE RecvSome
  BY <1>4, RecvSomeKeeps
<1>5. CASE RecvEnd
  BY <1>5, RecvEndKeeps
<1>6. CASE RecvFails
  BY <1>6, RecvFailsKeeps
<1>7. CASE Break
  BY <1>7, BreakKeeps
<1>8. CASE UNCHANGED vars
  <2>1. UNCHANGED <<inputs, sender, wire, link, dead, receiver>> /\ Length' = Length
        /\ Piece' = Piece /\ Place' = Place
    BY <1>8 DEF vars, inputs, sender, receiver, Length, MessageLen, Piece, Place
  <2>2. (TypeOK /\ Inputs /\ ClosedWhenGone) => (TypeOK /\ Inputs /\ ClosedWhenGone)'
    BY <2>1 DEF TypeOK, Inputs, ClosedWhenGone, inputs, sender, receiver
  <2>3. (InPiece => InPiece') /\ (InARow => InARow') /\ (Connects => Connects')
    BY <2>1 DEF InPiece, InARow, Connects, Following, inputs, sender
  <2>4. (Expects => Expects') /\ (AllWhole => AllWhole') /\ (AsSent => AsSent')
    BY <2>1 DEF Expects, AllWhole, AsSent, Whole, MessageLen, inputs, receiver
  <2>5. (Good => Good') /\ (Spoilt => Spoilt') /\ link' = link /\ closed' = closed
        /\ dead' = dead
    BY <2>1, <2>3, <2>4 DEF Good, Spoilt, receiver
  <2>6. QED BY <2>2, <2>3, <2>4, <2>5 DEF Sound
<1>9. QED BY <1>1, <1>2, <1>3, <1>4, <1>5, <1>6, <1>7, <1>8 DEF Next

\* Sound is an invariant of Framing: of every way in which send and recv may
\* divide the bytes, and of every moment at which the connection may break.
THEOREM Sounds == Spec => []Sound
<1>1. Init => Sound
  BY SoundInit
<1>2. Sound /\ [Next]_vars => Sound'
  BY SoundNext
<1>3. QED BY <1>1, <1>2, PTL DEF Spec

\* The counters of send_bytes and recv_bytes never leave their width, whatever
\* is added to them (client_daemon.c, 347-357; libllncp.c, 41-83).
THEOREM FramesTyped == Spec => []TypeOK
<1>1. Sound => TypeOK
  BY DEF Sound
<1>2. QED BY <1>1, Sounds, PTL

\* What a call of recv_bytes or receive_message returns with EXIT_SUCCESS is
\* what was sent, piece for piece; a failure of recv that passes for a success
\* spoils at most the last piece, and not its flag (libllncp.c, 41-57, 180-189).
THEOREM ReceivedAsSent == Spec => []AsSent
<1>1. Sound => AsSent
  BY DEF Sound
<1>2. QED BY <1>1, Sounds, PTL

\* SOCKET_CLOSED is returned only at the end of the connection, when no byte
\* that arrived is left unread (libllncp.c, 186-188).
THEOREM EndAtTheEnd == Spec => []ClosedWhenGone
<1>1. Sound => ClosedWhenGone
  BY DEF Sound
<1>2. QED BY <1>1, Sounds, PTL
=============================================================================
