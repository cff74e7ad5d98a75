--------------------------- MODULE TransferProofs ---------------------------
(***************************************************************************)
(* Proofs about Transfer, for any number of clients, any files, buffers    *)
(* and faults.                                                             *)
(***************************************************************************)
EXTENDS Transfer, SequenceTheorems, TLAPS

-----------------------------------------------------------------------------
(***************************************************************************)
(* Types.  TypeOK is not inductive: it needs NoOverrun, or a length might  *)
(* become negative and SubSeq might leave its sequence.                    *)
(***************************************************************************)
Typed == TypeOK /\ NoOverrun

-----------------------------------------------------------------------------
(***************************************************************************)
(* Chunks.  What / and % of BUFFERSIZE make of a length n: as long as the  *)
(* bytes handled are a multiple of BUFFERSIZE, the chunk is whole or all   *)
(* that is left, and there is another one just when bytes are left.        *)
(***************************************************************************)
LEMMA Division ==
  ASSUME NEW n \in Nat, NEW B \in Nat \ {0}
  PROVE  n \div B \in Nat /\ n % B \in 0..(B - 1) /\ n = B * (n \div B) + (n % B)
BY SMT

LEMMA Multiples ==
  ASSUME NEW B \in Nat \ {0}, NEW i \in Nat, NEW k \in Nat
  PROVE  /\ B * i \in Nat /\ B * (i + 1) = B * i + B
         /\ (B * i) \div B = i /\ (B * i) % B = 0
         /\ i < k => B * i + B <= B * k
BY SMT

LEMMA ChunkTypes ==
  ASSUME NEW n \in Nat, NEW at \in Nat
  PROVE  ChunkAt(n, at) \in Nat /\ ChunkAt(n, at) <= BUFFERSIZE
<1>1. BUFFERSIZE \in Nat \ {0}
  BY TransferAssumption DEF TransferAssumption
<1>2. n % BUFFERSIZE \in 0..(BUFFERSIZE - 1)
  BY <1>1, Division
<1> QED
  BY <1>1, <1>2 DEF ChunkAt

LEMMA NoChunks ==
  ASSUME NEW n \in Nat
  PROVE  MoreChunks(n, 0) <=> n > 0
<1>1. BUFFERSIZE \in Nat \ {0}
  BY TransferAssumption DEF TransferAssumption
<1> DEFINE q == n \div BUFFERSIZE
           r == n % BUFFERSIZE
<1>2. q \in Nat /\ r \in 0..(BUFFERSIZE - 1) /\ n = BUFFERSIZE * q + r
  BY <1>1, Division
<1>3. 0 \div BUFFERSIZE = 0 /\ BUFFERSIZE * 0 = 0
      /\ (0 < q => BUFFERSIZE <= BUFFERSIZE * q)
  BY <1>1, <1>2, Multiples
<1> QED
  BY <1>1, <1>2, <1>3 DEF MoreChunks

LEMMA Chunks ==
  ASSUME NEW n \in Nat, NEW at \in Nat, at % BUFFERSIZE = 0, at < n
  PROVE  /\ ChunkAt(n, at) \in 1..BUFFERSIZE
         /\ at + ChunkAt(n, at) <= n
         /\ ChunkAt(n, at) = BUFFERSIZE \/ at + ChunkAt(n, at) = n
         /\ MoreChunks(n, at + ChunkAt(n, at)) <=> at + ChunkAt(n, at) < n
         /\ MoreChunks(n, at + ChunkAt(n, at)) =>
              (at + ChunkAt(n, at)) % BUFFERSIZE = 0
<1>1. BUFFERSIZE \in Nat \ {0}
  BY TransferAssumption DEF TransferAssumption
<1> DEFINE i == at \div BUFFERSIZE
           q == n \div BUFFERSIZE
           r == n % BUFFERSIZE
<1>2. q \in Nat /\ r \in 0..(BUFFERSIZE - 1) /\ n = BUFFERSIZE * q + r
  BY <1>1, Division
<1>3. i \in Nat /\ at = BUFFERSIZE * i
  BY <1>1, Division
<1>4. /\ BUFFERSIZE * q \in Nat /\ BUFFERSIZE * (i + 1) = BUFFERSIZE * i + BUFFERSIZE
      /\ i < q => BUFFERSIZE * i + BUFFERSIZE <= BUFFERSIZE * q
      /\ q < i => BUFFERSIZE * q + BUFFERSIZE <= BUFFERSIZE * i
      /\ i + 1 < q => BUFFERSIZE * (i + 1) + BUFFERSIZE <= BUFFERSIZE * q
  BY <1>1, <1>2, <1>3, Multiples
<1> HIDE DEF i, q, r
<1>5. CASE i < q
  <2>1. ChunkAt(n, at) = BUFFERSIZE
    BY <1>5 DEF ChunkAt, i, q
  <2>2. (at + BUFFERSIZE) \div BUFFERSIZE = i + 1 /\ (at + BUFFERSIZE) % BUFFERSIZE = 0
    <3>1. at + BUFFERSIZE = BUFFERSIZE * (i + 1) /\ i + 1 \in Nat
      BY <1>3, <1>4
    <3>2. /\ (BUFFERSIZE * (i + 1)) \div BUFFERSIZE = i + 1
          /\ (BUFFERSIZE * (i + 1)) % BUFFERSIZE = 0
      BY <1>1, <3>1, Multiples
    <3> QED
      BY <3>1, <3>2, Zenon
  <2>3. MoreChunks(n, at + BUFFERSIZE)
          <=> i + 1 < q \/ (r # 0 /\ at + BUFFERSIZE = BUFFERSIZE * q)
    BY <2>2 DEF MoreChunks, q, r
  <2>4. i + 1 = q \/ i + 1 < q
    BY <1>2, <1>3, <1>5
  <2>5. at + BUFFERSIZE <= BUFFERSIZE * q
    BY <1>3, <1>4, <1>5
  <2>6. i + 1 = q => at + BUFFERSIZE = BUFFERSIZE * q
    BY <1>3, <1>4
  <2>7. i + 1 < q => at + BUFFERSIZE < BUFFERSIZE * q
    BY <1>1, <1>3, <1>4
  <2>8. at + BUFFERSIZE < n <=> i + 1 < q \/ (r # 0 /\ at + BUFFERSIZE = BUFFERSIZE * q)
    BY <1>1, <1>2, <1>4, <2>4, <2>5, <2>6, <2>7
  <2>9. at + BUFFERSIZE <= n
    BY <1>1, <1>2, <1>4, <2>5
  <2> QED
    BY <1>1, <2>1, <2>2, <2>3, <2>8, <2>9
<1>6. CASE ~(i < q)
  <2>1. i = q
    BY <1>1, <1>2, <1>3, <1>4, <1>6
  <2>2. ChunkAt(n, at) = r
    BY <1>6 DEF ChunkAt, i, q, r
  <2>3. at + r = n /\ r # 0
    BY <1>2, <1>3, <2>1
  <2>4. ~MoreChunks(n, n)
    <3>1. n # BUFFERSIZE * q
      BY <1>2, <1>4, <2>3
    <3> QED
      BY <1>2, <3>1 DEF MoreChunks, q
  <2> QED
    BY <1>1, <1>2, <2>2, <2>3, <2>4
<1> QED
  BY <1>5, <1>6

\* Byte for byte: the last byte of the last chunk is the last of the length.
LEMMA LastByte ==
  ASSUME NEW n \in Nat, NEW at \in Nat, at < n
  PROVE  /\ (at % BUFFERSIZE) + 1 = ChunkAt(n, at) /\ ~MoreChunks(n, at + 1)
         <=> at + 1 = n
<1>1. BUFFERSIZE \in Nat \ {0}
  BY TransferAssumption DEF TransferAssumption
<1> DEFINE i == at \div BUFFERSIZE
           s == at % BUFFERSIZE
           q == n \div BUFFERSIZE
           r == n % BUFFERSIZE
<1>2. q \in Nat /\ r \in 0..(BUFFERSIZE - 1) /\ n = BUFFERSIZE * q + r
  BY <1>1, Division
<1>3. i \in Nat /\ s \in 0..(BUFFERSIZE - 1) /\ at = BUFFERSIZE * i + s
  BY <1>1, Division
<1>4. /\ BUFFERSIZE * q \in Nat /\ BUFFERSIZE * i \in Nat
      /\ BUFFERSIZE * (i + 1) = BUFFERSIZE * i + BUFFERSIZE
      /\ i < q => BUFFERSIZE * i + BUFFERSIZE <= BUFFERSIZE * q
      /\ q < i => BUFFERSIZE * q + BUFFERSIZE <= BUFFERSIZE * i
      /\ i + 1 < q => BUFFERSIZE * (i + 1) + BUFFERSIZE <= BUFFERSIZE * q
  BY <1>1, <1>2, <1>3, Multiples
<1> HIDE DEF i, q, r, s
<1>5. CASE i < q
  <2>1. ChunkAt(n, at) = BUFFERSIZE
    BY <1>5 DEF ChunkAt, i, q
  <2>2. CASE s + 1 = BUFFERSIZE
    <3>1. at + 1 = BUFFERSIZE * (i + 1) /\ i + 1 \in Nat
      BY <1>1, <1>3, <1>4, <2>2
    <3>2. (at + 1) \div BUFFERSIZE = i + 1
      BY <1>1, <3>1, Multiples
    <3>3. MoreChunks(n, at + 1)
            <=> i + 1 < q \/ (r # 0 /\ at + 1 = BUFFERSIZE * q)
      BY <3>2 DEF MoreChunks, q, r
    <3>4. i + 1 = q \/ i + 1 < q
      BY <1>2, <1>3, <1>5
    <3>5. i + 1 = q => at + 1 = BUFFERSIZE * q
      BY <3>1
    <3>6. i + 1 < q => at + 1 < BUFFERSIZE * q
      BY <1>1, <1>3, <1>4, <3>1
    <3>7. at + 1 = n <=> ~(i + 1 < q \/ (r # 0 /\ at + 1 = BUFFERSIZE * q))
      BY <1>2, <1>4, <3>4, <3>5, <3>6
    <3> QED
      BY <2>1, <2>2, <3>3, <3>7 DEF s
  <2>3. CASE s + 1 # BUFFERSIZE
    <3>1. at + 1 < n
      BY <1>1, <1>2, <1>3, <1>4, <1>5, <2>3
    <3> QED
      BY <2>1, <2>3, <3>1 DEF s
  <2> QED
    BY <2>2, <2>3
<1>6. CASE ~(i < q)
  <2>1. i = q
    BY <1>1, <1>2, <1>3, <1>4, <1>6
  <2>2. ChunkAt(n, at) = r
    BY <1>6 DEF ChunkAt, i, q, r
  <2>3. s + 1 = r <=> at + 1 = n
    BY <1>2, <1>3, <1>4, <2>1
  <2>4. ~MoreChunks(n, n)
    <3>1. r # 0
      BY <1>2, <1>3, <1>4, <2>1
    <3>2. n # BUFFERSIZE * q
      BY <1>2, <1>4, <3>1
    <3> QED
      BY <1>2, <3>2 DEF MoreChunks, q
  <2> QED
    BY <2>2, <2>3, <2>4 DEF s
<1> QED
  BY <1>5, <1>6

LEMMA InitTyped == Init => Typed
<1> USE TransferAssumption
<1> SUFFICES ASSUME Init PROVE Typed
  OBVIOUS
<1>0. 1 \in Epochs
  BY DEF Epochs
<1>1. TypeClients
  BY DEF Init, TypeClients, RequestSent, Results
<1>2. TypeDaemon
  BY <1>0 DEF Init, TypeDaemon, Headers, NoHeader
<1>3. TypeNet
  BY DEF Init, TypeNet
<1>4. TypeThreads
  BY DEF Init, TypeThreads, Headers, NoHeader
<1>5. TypeDisk
  BY DEF Init, TypeDisk, FileStates, Absent
<1>6. NoOverrun
  BY DEF Init, NoOverrun, DaemonWithin, ThreadWithin
<1> QED
  BY <1>1, <1>2, <1>3, <1>4, <1>5, <1>6 DEF Typed, TypeOK

(***************************************************************************)
(* The invariant is kept by each component's steps.  USE DEF opens the     *)
(* tuples of variables that UNCHANGED speaks of, and the invariant.        *)
(***************************************************************************)
LEMMA CommandTyped ==
  ASSUME Typed, NEW c \in Clients,
         ClientConnect(c) \/ ClientSend(c) \/ ClientReceive(c) \/ ClientEof(c)
           \/ ClientInterrupt(c)
  PROVE  Typed'
<1> USE DEF Typed, TypeOK, othersThanClient, fileVars, attrVars, netVars, thrVars,
            diskVars
<1>1. TypeDaemon' /\ TypeNet' /\ TypeThreads' /\ TypeDisk'
  BY DEF ClientConnect, ClientSend, ClientReceive, ClientEof, ClientInterrupt,
         TypeDaemon, TypeNet, TypeThreads, TypeDisk
<1>2. NoOverrun'
  BY DEF ClientConnect, ClientSend, ClientReceive, ClientEof, ClientInterrupt,
         NoOverrun, DaemonWithin, ThreadWithin, WriteLen, ChunkLen
<1>3. TypeClients'
  <2>1. CASE ClientConnect(c)
    BY <2>1 DEF ClientConnect, TypeClients, Connected, RequestSent
  <2>2. CASE ClientSend(c)
    BY <2>2 DEF ClientSend, TypeClients, Connected, SourceSent, RequestSent
  <2>3. CASE ClientReceive(c) \/ ClientEof(c) \/ ClientInterrupt(c)
    BY <2>3 DEF ClientReceive, ClientEof, ClientInterrupt, TypeClients, Results
  <2> QED
    BY <2>1, <2>2, <2>3
<1> QED
  BY <1>1, <1>2, <1>3

LEMMA DaemonTyped == ASSUME Typed, Daemon PROVE Typed'
<1> USE TransferAssumption
    DEF Typed, TypeOK, NoOverrun, serverSide, clientVars, fileVars, attrVars,
    netVars,
        thrVars, diskVars
<1> DEFINE LinkTyped == link' \in [Epochs -> {"none", "up", "fin", "rst"}]
           Ending == /\ pc' \in {"top", "connect"} /\ resend' \in BOOLEAN
                     /\ closed' \subseteq Clients \cup {None} /\ LinkTyped
           Retrying == /\ pc' = "connect" /\ resend' \in BOOLEAN /\ discard' \in Nat
                       /\ LinkTyped
           Kept == TypeDisk' /\ TypeThreads' /\ \A e \in Epochs : ThreadWithin(e)'
<1> HIDE DEF LinkTyped, Ending, Retrying
<1>a. HangUp => LinkTyped
  BY DEF HangUp, LinkTyped, TypeNet, TypeDaemon
<1>b. CatchForced => Ending
  BY <1>a DEF CatchForced, Ending, TypeDaemon
<1>c. CatchClosed => Retrying
  <2>1. CatchClosed => resend' \in BOOLEAN
    BY Zenon DEF CatchClosed
  <2> QED
    BY <1>a, <2>1 DEF CatchClosed, Retrying
<1>h. CatchClosed => LinkTyped
  BY <1>a DEF CatchClosed
<1>d. CloseClient => Ending
  BY DEF CloseClient, Ending, LinkTyped, TypeNet, TypeDaemon
<1>e. \A flag : ReplyAndClose(flag) => Ending
  BY <1>b, <1>d DEF ReplyAndClose
<1>f. ReplyAndForce => Ending
  BY <1>b DEF ReplyAndForce
<1> DEFINE InChunk == /\ off' \in Nat /\ cnt' \in Nat /\ pc' \in {"data", "await"}
                      /\ pc' = "data" => /\ off' % BUFFERSIZE = 0 /\ cnt' < ChunkLen'
                                         /\ off' + ChunkLen' <= hdr'.len
                      /\ pc' = "await" /\ hdr'.cmd = "file" => off' = hdr'.len
<1> HIDE DEF InChunk
<1>t. BUFFERSIZE \in Nat \ {0} /\ hdr.len \in Nat /\ off \in Nat /\ cnt \in Nat
  BY DEF TransferAssumption, TypeDaemon, Headers
<1>g. pc = "data" => /\ ChunkLen \in Nat /\ off + ChunkLen \in Nat /\ cnt < ChunkLen
                     /\ off + ChunkLen <= hdr.len /\ off < hdr.len
                     /\ off % BUFFERSIZE = 0
  <2>1. ChunkLen \in Nat
    BY <1>t, ChunkTypes DEF ChunkLen
  <2>2. pc = "data" => /\ cnt < ChunkLen /\ off + ChunkLen <= hdr.len
                       /\ off % BUFFERSIZE = 0
    BY DEF DaemonWithin
  <2> QED
    BY <1>t, <2>1, <2>2
<1>q. pc = "data" /\ NextChunk /\ hdr' = hdr => InChunk
  <2> SUFFICES ASSUME pc = "data", NextChunk, hdr' = hdr PROVE InChunk
    OBVIOUS
  <2> DEFINE at == off + ChunkLen
  <2>1. /\ MoreChunks(hdr.len, at) <=> at < hdr.len
        /\ MoreChunks(hdr.len, at) => at % BUFFERSIZE = 0
        /\ at \in Nat /\ at <= hdr.len
    BY <1>t, <1>g, Chunks DEF ChunkLen
  <2>2. /\ off' = at /\ cnt' = 0
        /\ pc' = IF MoreChunks(hdr.len, at) THEN "data" ELSE "await"
    BY DEF NextChunk
  <2> HIDE DEF at
  <2>3. CASE MoreChunks(hdr.len, at)
    <3>1. ChunkAt(hdr.len, at) \in 1..BUFFERSIZE /\ at + ChunkAt(hdr.len, at) <= hdr.len
      BY <1>t, <2>1, <2>3, Chunks
    <3>2. ChunkLen' = ChunkAt(hdr.len, at)
      BY <2>2 DEF ChunkLen
    <3> QED
      BY <1>t, <2>1, <2>2, <2>3, <3>1, <3>2 DEF InChunk
  <2>4. CASE ~MoreChunks(hdr.len, at)
    BY <1>t, <2>1, <2>2, <2>4 DEF InChunk
  <2> QED
    BY <2>3, <2>4
<1>p. AfterPath /\ hdr' = hdr => InChunk
  <2> SUFFICES ASSUME AfterPath, hdr' = hdr PROVE InChunk
    OBVIOUS
  <2>1. /\ off' = 0 /\ cnt' = 0
        /\ pc' = IF hdr.cmd = "file" /\ MoreChunks(hdr.len, 0) THEN "data" ELSE "await"
    BY DEF AfterPath
  <2>2. MoreChunks(hdr.len, 0) <=> hdr.len > 0
    BY <1>t, NoChunks
  <2>3. CASE hdr.cmd = "file" /\ MoreChunks(hdr.len, 0)
    <3>0. 0 % BUFFERSIZE = 0
      BY <1>t
    <3>1. ChunkAt(hdr.len, 0) \in 1..BUFFERSIZE /\ 0 + ChunkAt(hdr.len, 0) <= hdr.len
      BY <1>t, <2>2, <2>3, <3>0, Chunks
    <3>2. ChunkLen' = ChunkAt(hdr.len, 0)
      BY <2>1 DEF ChunkLen
    <3> QED
      BY <1>t, <2>1, <2>3, <3>0, <3>1, <3>2 DEF InChunk
  <2>4. CASE ~(hdr.cmd = "file" /\ MoreChunks(hdr.len, 0))
    BY <1>t, <2>1, <2>2, <2>4 DEF InChunk
  <2> QED
    BY <2>3, <2>4
<1>j. pc = "stat" => job[cur] \in [dest: Paths, kind: Kinds, size: Nat]
  BY DEF TransferAssumption, TypeClients, DaemonWithin
<1>k. ASSUME NEW unit \in Units,
             data' = [data EXCEPT ![epoch] = Append(@, unit)], rd' = rd,
             UNCHANGED thrVars, TypeNet, TypeDaemon
      PROVE  /\ data' \in [Epochs -> Seq(Units)]
             /\ \A e \in Epochs : ThreadWithin(e)'
  <2>1. data' \in [Epochs -> Seq(Units)]
    BY <1>k DEF TypeNet, TypeDaemon
  <2>2. ASSUME NEW e \in Epochs PROVE Len(data'[e]) >= Len(data[e])
    BY <1>k DEF TypeNet, TypeDaemon
  <2>3. ASSUME NEW e \in Epochs PROVE ThreadWithin(e)'
    BY <1>k, <2>1, <2>2 DEF ThreadWithin, WriteLen, TypeNet, thrVars
  <2> QED
    BY <2>1, <2>3
<1>l. /\ PathUnit(dst) \in Units
      /\ pc = "data" => ByteUnit(src, off + cnt + 1) \in Units
  BY DEF Units, PathUnit, ByteUnit, TypeDaemon
<1>m. down[epoch] # <<>> => Tail(down[epoch]) \in Seq(Flags)
  BY DEF TypeNet, TypeDaemon
<1>n. Append(up[epoch], hdr) \in Seq(Headers)
  BY DEF TypeNet, TypeDaemon
<1>1. CASE DAccept
  <2>1. TypeClients'
    BY <1>1 DEF DAccept, TypeClients
  <2>2. TypeDaemon' /\ DaemonWithin'
    BY <1>1 DEF DAccept, TypeClients, TypeDaemon, DaemonWithin
  <2>3. TypeNet'
    BY <1>1 DEF DAccept, TypeNet, TypeDaemon
  <2>4. Kept
    BY <1>1 DEF DAccept, TypeThreads, TypeDisk, TypeNet, TypeDaemon,
       ThreadWithin, WriteLen
  <2> QED
    BY <2>1, <2>2, <2>3, <2>4
<1>2. CASE DResend
  <2>1. TypeClients'
    BY <1>2 DEF DResend, TypeClients
  <2>2. TypeDaemon' /\ DaemonWithin'
    BY <1>2 DEF DResend, TypeClients, TypeDaemon, DaemonWithin
  <2>3. TypeNet'
    BY <1>2 DEF DResend, TypeNet, TypeDaemon
  <2>4. Kept
    BY <1>2 DEF DResend, TypeThreads, TypeDisk, TypeNet, TypeDaemon,
       ThreadWithin, WriteLen
  <2> QED
    BY <2>1, <2>2, <2>3, <2>4
<1>3. CASE DLoadAttrs
  <2>1. TypeClients'
    BY <1>3 DEF DLoadAttrs, TypeClients
  <2>2. TypeDaemon' /\ DaemonWithin'
    BY <1>3, <1>c DEF DLoadAttrs, TypeClients, TypeDaemon, DaemonWithin,
       Retrying
  <2>3. TypeNet'
    BY <1>3, <1>h DEF DLoadAttrs, TypeNet, TypeDaemon, LinkTyped
  <2>4. Kept
    BY <1>3 DEF DLoadAttrs, TypeThreads, TypeDisk, TypeNet, TypeDaemon,
       ThreadWithin, WriteLen
  <2> QED
    BY <2>1, <2>2, <2>3, <2>4
<1>4. CASE DLoadSource
  <2>1. TypeClients'
    BY <1>4 DEF DLoadSource, TypeClients
  <2>2. TypeDaemon' /\ DaemonWithin'
    BY <1>4, <1>b DEF DLoadSource, TypeClients, TypeDaemon, DaemonWithin,
       Ending
  <2>3. TypeNet'
    BY <1>4, <1>b DEF DLoadSource, TypeNet, TypeDaemon, LinkTyped, Ending
  <2>4. Kept
    BY <1>4 DEF DLoadSource, TypeThreads, TypeDisk, TypeNet, TypeDaemon,
       ThreadWithin, WriteLen
  <2> QED
    BY <2>1, <2>2, <2>3, <2>4
<1>5. CASE DLoadDest
  <2>1. TypeClients'
    BY <1>5 DEF DLoadDest, TypeClients
  <2>2. TypeDaemon' /\ DaemonWithin'
    BY <1>5, <1>b DEF DLoadDest, TypeClients, TypeDaemon, DaemonWithin, Ending
  <2>3. TypeNet'
    BY <1>5, <1>b DEF DLoadDest, TypeNet, TypeDaemon, LinkTyped, Ending
  <2>4. Kept
    BY <1>5 DEF DLoadDest, TypeThreads, TypeDisk, TypeNet, TypeDaemon,
       ThreadWithin, WriteLen
  <2> QED
    BY <2>1, <2>2, <2>3, <2>4
<1>6. CASE DStat
  <2>1. TypeClients'
    BY <1>6 DEF DStat, TypeClients, TypeDaemon
  <2>2. TypeDaemon' /\ DaemonWithin'
    BY <1>6, <1>b, <1>j DEF DStat, TypeClients, TypeDaemon, DaemonWithin,
       Ending, NewHeader, Headers, Kinds
  <2>3. TypeNet'
    BY <1>6, <1>b DEF DStat, TypeNet, TypeDaemon, LinkTyped, Ending
  <2>4. Kept
    BY <1>6 DEF DStat, TypeThreads, TypeDisk, TypeNet, TypeDaemon,
       ThreadWithin, WriteLen
  <2> QED
    BY <2>1, <2>2, <2>3, <2>4
<1>7. CASE DOpenFails
  <2>1. TypeClients'
    BY <1>7 DEF DOpenFails, TypeClients, ReplyAndClose, CloseClient,
       CatchForced
  <2>2. TypeDaemon' /\ DaemonWithin'
    BY <1>7, <1>e DEF DOpenFails, TypeClients, TypeDaemon, DaemonWithin, Ending
  <2>3. TypeNet'
    BY <1>7, <1>e DEF DOpenFails, TypeNet, TypeDaemon, LinkTyped, Ending
  <2>4. Kept
    BY <1>7 DEF DOpenFails, TypeThreads, TypeDisk, TypeNet, TypeDaemon,
       ThreadWithin, WriteLen
  <2> QED
    BY <2>1, <2>2, <2>3, <2>4
<1>8. CASE DSendHeader
  <2>1. TypeClients'
    BY <1>8 DEF DSendHeader, TypeClients
  <2>2. TypeDaemon' /\ DaemonWithin'
    BY <1>8, <1>c DEF DSendHeader, TypeClients, TypeDaemon, DaemonWithin,
       Retrying
  <2>3. TypeNet'
    <3>1. up' \in [Epochs -> Seq(Headers)]
      BY <1>8, <1>n DEF DSendHeader, TypeNet
    <3>2. LinkTyped
      BY <1>8, <1>h DEF DSendHeader, TypeNet, LinkTyped
    <3> QED
      BY <1>8, <3>1, <3>2 DEF DSendHeader, TypeNet, LinkTyped
  <2>4. Kept
    BY <1>8 DEF DSendHeader, TypeThreads, TypeDisk, TypeNet, TypeDaemon,
       ThreadWithin, WriteLen
  <2> QED
    BY <2>1, <2>2, <2>3, <2>4
<1>9. CASE DSendPath
  <2>1. TypeClients'
    BY <1>9 DEF DSendPath, TypeClients
  <2>2. TypeDaemon' /\ DaemonWithin'
    <3>1. CASE CatchClosed /\ UNCHANGED fileVars
      BY <1>9, <1>c, <3>1 DEF DSendPath, TypeDaemon, DaemonWithin, Retrying
    <3>2. CASE AfterPath
      <4>1. /\ InChunk /\ discard' \in Nat /\ tot' \in Nat /\ UNCHANGED resend
        BY <1>9, <1>p, <3>2 DEF DSendPath, AfterPath, TypeDaemon
      <4> QED
        BY <1>9, <4>1 DEF DSendPath, TypeDaemon, DaemonWithin, InChunk
    <3> QED
      BY <1>9, <3>1, <3>2 DEF DSendPath
  <2>3. TypeNet'
    BY <1>9, <1>h, <1>k, <1>l DEF DSendPath, TypeNet, TypeDaemon, LinkTyped,
       AfterPath, Units, PathUnit
  <2>4. Kept
    BY <1>9, <1>k, <1>l DEF DSendPath, TypeThreads, TypeDisk, TypeNet,
       TypeDaemon, ThreadWithin, WriteLen
  <2> QED
    BY <2>1, <2>2, <2>3, <2>4
<1>10. CASE DSendData
  <2>1. TypeClients'
    BY <1>10 DEF DSendData, TypeClients
  <2>2. TypeDaemon' /\ DaemonWithin'
    <3>1. CASE cnt + 1 = ChunkLen
      <4>1. NextChunk /\ tot' = tot + ChunkLen /\ pc = "data"
        BY <1>10, <3>1 DEF DSendData
      <4> QED
        BY <1>10, <1>g, <1>q, <1>t, <4>1 DEF DSendData, TypeDaemon, DaemonWithin,
           InChunk
    <3>2. CASE cnt + 1 # ChunkLen
      <4>1. /\ cnt' = cnt + 1 /\ UNCHANGED <<pc, off, tot, hdr>>
            /\ pc = "data" /\ ChunkLen' = ChunkLen
        BY <1>10, <3>2 DEF DSendData, ChunkLen
      <4>2. cnt + 1 \in Nat /\ cnt + 1 < ChunkLen
        BY <1>g, <1>t, <3>2, <4>1
      <4> QED
        BY <1>10, <4>1, <4>2 DEF DSendData, TypeDaemon, DaemonWithin
    <3> QED
      BY <3>1, <3>2
  <2>3. TypeNet'
    BY <1>10, <1>k, <1>l DEF DSendData, TypeNet, TypeDaemon, NextChunk,
       Units, ByteUnit
  <2>4. Kept
    BY <1>10, <1>k, <1>l DEF DSendData, TypeThreads, TypeDisk, TypeNet,
       TypeDaemon, ThreadWithin, WriteLen
  <2> QED
    BY <2>1, <2>2, <2>3, <2>4
<1>11. CASE DSendDead
  <2>1. TypeClients'
    BY <1>11 DEF DSendDead, TypeClients
  <2>2. TypeDaemon' /\ DaemonWithin'
    BY <1>11, <1>q DEF DSendDead, TypeDaemon, DaemonWithin, InChunk
  <2>3. TypeNet'
    BY <1>11 DEF DSendDead, TypeNet, TypeDaemon
  <2>4. Kept
    BY <1>11 DEF DSendDead, TypeThreads, TypeDisk, TypeNet, TypeDaemon,
       ThreadWithin, WriteLen
  <2> QED
    BY <2>1, <2>2, <2>3, <2>4
<1>12. CASE DSendAnswered
  <2>1. TypeClients'
    BY <1>12 DEF DSendAnswered, TypeClients, ReplyAndClose, ReplyAndForce,
       CloseClient, CatchForced, CanReply
  <2>2. TypeDaemon' /\ DaemonWithin'
    <3>1. CASE ReplyAndClose("ERR") /\ discard' = tot + cnt /\ UNCHANGED fileVars
      BY <1>12, <1>e, <3>1 DEF DSendAnswered, TypeDaemon, DaemonWithin, Ending
    <3>2. CASE ReplyAndForce /\ UNCHANGED <<discard, fileVars>>
      BY <1>12, <1>f, <3>2 DEF DSendAnswered, TypeDaemon, DaemonWithin, Ending
    <3>3. CASE NextChunk /\ tot' = tot + cnt /\ UNCHANGED <<discard, closed,
    resend>>
      BY <1>12, <1>q, <3>3 DEF DSendAnswered, TypeDaemon, DaemonWithin, InChunk
    <3> QED
      BY <1>12, <3>1, <3>2, <3>3 DEF DSendAnswered
  <2>3. TypeNet'
    BY <1>12, <1>e, <1>f DEF DSendAnswered, TypeNet, TypeDaemon, LinkTyped,
       Ending
  <2>4. Kept
    BY <1>12 DEF DSendAnswered, TypeThreads, TypeDisk, TypeNet, TypeDaemon,
       ThreadWithin, WriteLen
  <2> QED
    BY <2>1, <2>2, <2>3, <2>4
<1>13. CASE DSendInterrupted
  <2>1. TypeClients'
    BY <1>13 DEF DSendInterrupted, TypeClients
  <2>2. TypeDaemon' /\ DaemonWithin'
    BY <1>13, <1>b DEF DSendInterrupted, TypeClients, TypeDaemon,
       DaemonWithin, Ending
  <2>3. TypeNet'
    BY <1>13, <1>b DEF DSendInterrupted, TypeNet, TypeDaemon, LinkTyped, Ending
  <2>4. Kept
    BY <1>13 DEF DSendInterrupted, TypeThreads, TypeDisk, TypeNet,
       TypeDaemon, ThreadWithin, WriteLen
  <2> QED
    BY <2>1, <2>2, <2>3, <2>4
<1>14. CASE DReadError
  <2>1. TypeClients'
    BY <1>14 DEF DReadError, TypeClients
  <2>2. TypeDaemon' /\ DaemonWithin'
    BY <1>14, <1>d DEF DReadError, TypeClients, TypeDaemon, DaemonWithin,
       Ending
  <2>3. TypeNet'
    BY <1>14, <1>d DEF DReadError, TypeNet, TypeDaemon, LinkTyped, Ending
  <2>4. Kept
    BY <1>14 DEF DReadError, TypeThreads, TypeDisk, TypeNet, TypeDaemon,
       ThreadWithin, WriteLen
  <2> QED
    BY <2>1, <2>2, <2>3, <2>4
<1>15. CASE DAwait
  <2>1. TypeClients'
    BY <1>15 DEF DAwait, TypeClients, ReplyAndClose, ReplyAndForce,
       CloseClient, CatchForced, CanReply
  <2>2. TypeDaemon' /\ DaemonWithin'
    BY <1>15, <1>c, <1>e, <1>f DEF DAwait, TypeClients, TypeDaemon,
       DaemonWithin, Headers, Ending, Retrying
  <2>3. TypeNet'
    <3>1. down' \in [Epochs -> Seq(Flags)]
      BY <1>15, <1>m DEF DAwait, TypeNet
    <3>2. LinkTyped
      BY <1>15, <1>h, <1>e, <1>f DEF DAwait, Ending, TypeNet, LinkTyped
    <3> QED
      BY <1>15, <3>1, <3>2 DEF DAwait, TypeNet, LinkTyped
  <2>4. Kept
    BY <1>15 DEF DAwait, TypeThreads, TypeDisk, TypeNet, TypeDaemon,
       ThreadWithin, WriteLen
  <2> QED
    BY <2>1, <2>2, <2>3, <2>4
<1>16. CASE DConnect
  <2>1. TypeClients'
    BY <1>16 DEF DConnect, TypeClients
  <2>2. TypeDaemon' /\ DaemonWithin'
    BY <1>16 DEF DConnect, TypeClients, TypeDaemon, DaemonWithin, Epochs
  <2>3. TypeNet'
    BY <1>16 DEF DConnect, TypeNet, TypeDaemon, Epochs
  <2>4. Kept
    BY <1>16 DEF DConnect, TypeThreads, TypeDisk, TypeNet, TypeDaemon,
       ThreadWithin, WriteLen, Epochs
  <2> QED
    BY <2>1, <2>2, <2>3, <2>4
<1>17. CASE DAuthenticate
  <2>1. TypeClients'
    BY <1>17 DEF DAuthenticate, TypeClients
  <2>2. TypeDaemon' /\ DaemonWithin'
    BY <1>17, <1>c DEF DAuthenticate, TypeClients, TypeDaemon, DaemonWithin,
       Retrying
  <2>3. TypeNet'
    <3>1. down' \in [Epochs -> Seq(Flags)]
      BY <1>17, <1>m DEF DAuthenticate, TypeNet
    <3>2. LinkTyped
      BY <1>17, <1>h DEF DAuthenticate, Ending, TypeNet, LinkTyped
    <3> QED
      BY <1>17, <3>1, <3>2 DEF DAuthenticate, TypeNet, LinkTyped
  <2>4. Kept
    BY <1>17 DEF DAuthenticate, TypeThreads, TypeDisk, TypeNet, TypeDaemon,
       ThreadWithin, WriteLen
  <2> QED
    BY <2>1, <2>2, <2>3, <2>4
<1> QED
  BY <1>1, <1>2, <1>3, <1>4, <1>5, <1>6, <1>7, <1>8, <1>9, <1>10, <1>11,
     <1>12, <1>13, <1>14, <1>15, <1>16, <1>17 DEF Daemon

LEMMA WriteAtTyped ==
  ASSUME NEW bytes \in Seq(Units), NEW at \in Int, NEW units \in Seq(Units)
  PROVE  WriteAt(bytes, at, units) \in Seq(Units)
<1>1. Hole \in Units
  BY DEF Hole, ByteUnit, Units
<1> DEFINE n == IF Len(bytes) > at + Len(units) THEN Len(bytes)
                                              ELSE at + Len(units)
<1>2. n \in Nat
  OBVIOUS
<1>3. WriteAt(bytes, at, units) \in [1..n -> Units]
  BY <1>1 DEF WriteAt
<1> QED
  BY <1>2, <1>3

LEMMA ServerTyped ==
  ASSUME Typed, NEW e \in Epochs, SrvThread(e) \/ SrvEnding(e)
  PROVE  Typed'
<1> USE TransferAssumption
    DEF Typed, TypeOK, NoOverrun, daemonSide, clientVars, fileVars, attrVars,
            netVars, diskVars
<1> DEFINE Rest == TypeClients' /\ TypeDaemon' /\ DaemonWithin'
           Within == \A f \in Epochs : ThreadWithin(f)'
           LinkTyped == link' \in [Epochs -> {"none", "up", "fin", "rst"}]
           DownTyped == down' \in [Epochs -> Seq(Flags)]
<1> HIDE DEF LinkTyped, DownTyped
<1>a. \A flag \in Flags : \A next : Send(e, flag, next) => LinkTyped /\ DownTyped
  <2>1. ASSUME NEW flag \in Flags PROVE Append(down[e], flag) \in Seq(Flags)
    BY DEF TypeNet
  <2> QED
    BY <2>1 DEF Send, LinkTyped, DownTyped, TypeNet
<1>c. \A flag : \A next : Send(e, flag, next) =>
                               st' \in {[st EXCEPT ![e] = next], [st EXCEPT ![e] = "dead"]}
  BY DEF Send
<1>d. BUFFERSIZE \in Nat \ {0} /\ \A f \in Epochs : h[f].len \in Nat /\ h[f].discard \in Nat
  BY DEF TransferAssumption, TypeThreads, Headers
<1>g. \A f \in Epochs : got[f] \in Nat /\ rd[f] \in Nat /\ got[f] <= rd[f]
  BY DEF ThreadWithin, TypeThreads, TypeNet
<1>r. ASSUME Unread(e), rd' = [rd EXCEPT ![e] = @ + 1]
      PROVE  /\ rd' \in [Epochs -> Nat]
             /\ rd[e] + 1 \in 1..Len(data[e])
             /\ \A f \in Epochs : rd'[f] <= Len(data[f]) /\ rd[f] <= rd'[f]
  BY <1>r DEF Unread, TypeNet, ThreadWithin
<1>f. ASSUME NEW at \in Int, NEW units \in Seq(Units), Store(e, at, units)
      PROVE  files' \in [Paths \cup {Junk} -> FileStates]
  <2>1. path[e] \in Paths \cup {Junk}
    BY DEF TypeThreads
  <2>2. files[path[e]].bytes \in Seq(Units) /\ files[path[e]] \in FileStates
    BY <2>1 DEF TypeDisk, FileStates
  <2>3. WriteAt(files[path[e]].bytes, at, units) \in Seq(Units)
    BY <2>2, WriteAtTyped
  <2>4. [files[path[e]] EXCEPT !.bytes = WriteAt(files[path[e]].bytes, at,
  units)]
          \in FileStates
    BY <2>2, <2>3 DEF FileStates
  <2> QED
    BY <1>f, <2>1, <2>4 DEF Store, TypeDisk
<1>v. ASSUME NEW f \in Epochs
      PROVE  /\ WriteLen(f) \in Nat
             /\ st[f] = "write" => /\ got[f] < WriteLen(f) /\ 0 < WriteLen(f)
                                   /\ pos[f] + WriteLen(f) <= h[f].len
                                   /\ pos[f] < h[f].len /\ pos[f] % BUFFERSIZE = 0
             /\ st[f] = "discard" => /\ left[f] \in 1..h[f].discard
                                     /\ Discarded(f) \in Nat
                                     /\ Discarded(f) < h[f].discard
                                     /\ left[f] = h[f].discard - Discarded(f)
  <2>1. pos[f] \in Nat /\ left[f] \in Nat
    BY DEF TypeThreads
  <2>2. WriteLen(f) \in Nat
    BY <1>d, <2>1, ChunkTypes DEF WriteLen
  <2>3. /\ st[f] = "write" => /\ got[f] < WriteLen(f) /\ pos[f] % BUFFERSIZE = 0
                              /\ pos[f] + WriteLen(f) <= h[f].len
        /\ st[f] = "discard" => left[f] \in 1..h[f].discard
    BY DEF ThreadWithin
  <2>4. st[f] = "discard" => /\ Discarded(f) \in Nat /\ Discarded(f) < h[f].discard
                             /\ left[f] = h[f].discard - Discarded(f)
    BY <1>d, <2>1, <2>3 DEF Discarded
  <2>5. h[f].len \in Nat /\ got[f] \in Nat
    BY <1>d, <1>g
  <2>6. st[f] = "write" => 0 < WriteLen(f)
    BY ONLY <2>2, <2>3, <2>5
  <2>7. st[f] = "write" => pos[f] < h[f].len
    BY ONLY <2>1, <2>2, <2>3, <2>5, <2>6
  <2> QED
    BY <2>2, <2>3, <2>4, <2>6, <2>7
<1>o. ASSUME NEW f \in Epochs, ThreadWithin(f),
             pos'[f] = pos[f], got'[f] = got[f], h'[f] = h[f], left'[f] = left[f],
             st'[f] \in {"discard", "path", "write", "ack"} => st'[f] = st[f],
             rd'[f] <= Len(data'[f]), got[f] <= rd'[f]
      PROVE  ThreadWithin(f)'
  <2>1. WriteLen(f)' = WriteLen(f)
    BY <1>o DEF WriteLen
  <2> QED
    BY <1>o, <2>1 DEF ThreadWithin
<1>b. ASSUME NEW header \in Headers, BeginRequest(e, header)
      PROVE  /\ h' = [h EXCEPT ![e] = header]
             /\ left' = [left EXCEPT ![e] = header.discard]
             /\ st' = [st EXCEPT ![e] = IF header.discard > 0 THEN "discard"
                                                              ELSE "path"]
             /\ header.discard \in Nat
  <2>1. header.discard \in Nat
    BY <1>b DEF Headers
  <2> QED
    BY <1>b, <2>1, NoChunks DEF BeginRequest, ToDiscard
<1>w. ASSUME NEW units \in Seq(Units), WriteChunk(e, units), st[e] = "write",
             Len(units) = WriteLen(e), UNCHANGED <<h, path, left, data>>,
             rd' \in [Epochs -> Nat],
             \A f \in Epochs : rd'[f] <= Len(data[f]) /\ rd[f] <= rd'[f],
             seen' \in [Epochs -> SUBSET {"cmd", "data"}]
      PROVE  TypeThreads' /\ files' \in [Paths \cup {Junk} -> FileStates] /\ Within
  <2>1. Len(units) \in Nat /\ pos[e] + Len(units) <= h[e].len
    BY <1>w, <1>v
  <2>2. TypeThreads'
    <3>1. buf' \in [Epochs -> Seq(Units)]
      BY <1>w DEF WriteChunk, TypeThreads
    <3>2. pos' \in [Epochs -> Nat] /\ got' \in [Epochs -> Nat]
      BY <1>w, <2>1 DEF WriteChunk, TypeThreads
    <3>3. st' = [st EXCEPT ![e] = "ack"] \/ st' = [st EXCEPT ![e] = "write"]
      BY <1>w DEF WriteChunk
    <3> QED
      BY <1>w, <3>1, <3>2, <3>3 DEF TypeThreads
  <2>3. files' \in [Paths \cup {Junk} -> FileStates]
    <3>1. CASE Len(units) = BUFFERSIZE
      <4>1. Store(e, pos[e], units)
        BY <1>w, <3>1 DEF WriteChunk
      <4>2. pos[e] \in Int
        BY DEF TypeThreads
      <4> QED
        BY <1>w, <1>f, <4>1, <4>2
    <3>2. CASE Len(units) # BUFFERSIZE
      BY <1>w, <3>2 DEF WriteChunk, TypeDisk
    <3> QED
      BY <3>1, <3>2
  <2>4. ASSUME NEW f \in Epochs PROVE ThreadWithin(f)'
    <3>0. /\ pos' = [pos EXCEPT ![e] = @ + Len(units)]
          /\ got' = [got EXCEPT ![e] = 0]
          /\ st' = [st EXCEPT ![e] =
                      IF MoreChunks(h[e].len, pos[e] + Len(units))
                      THEN "write" ELSE "ack"]
      BY <1>w DEF WriteChunk
    <3>1. CASE f = e
      <4>1. rd'[e] <= Len(data'[e]) /\ got'[e] <= rd'[e]
        BY <1>w, <3>0 DEF TypeThreads
      <4> DEFINE at == pos[e] + WriteLen(e)
      <4>2. /\ at \in Nat /\ at <= h[e].len
            /\ MoreChunks(h[e].len, at) <=> at < h[e].len
            /\ MoreChunks(h[e].len, at) => at % BUFFERSIZE = 0
        <5>1. pos[e] \in Nat /\ h[e].len \in Nat /\ WriteLen(e) \in Nat
              /\ pos[e] < h[e].len /\ pos[e] % BUFFERSIZE = 0
              /\ WriteLen(e) = ChunkAt(h[e].len, pos[e])
          BY <1>w, <1>d, <1>v DEF TypeThreads, WriteLen
        <5> QED
          BY ONLY <5>1, Chunks
      <4>3. /\ pos'[e] = at /\ got'[e] = 0 /\ h'[e] = h[e] /\ left'[e] = left[e]
            /\ st'[e] = IF MoreChunks(h[e].len, at) THEN "write" ELSE "ack"
        BY <1>w, <3>0 DEF TypeThreads
      <4> HIDE DEF at
      <4>4. st'[e] = "write" => /\ pos'[e] % BUFFERSIZE = 0 /\ got'[e] < WriteLen(e)'
                                /\ pos'[e] + WriteLen(e)' <= h'[e].len
        <5> SUFFICES ASSUME st'[e] = "write"
                     PROVE  /\ pos'[e] % BUFFERSIZE = 0 /\ got'[e] < WriteLen(e)'
                            /\ pos'[e] + WriteLen(e)' <= h'[e].len
          OBVIOUS
        <5>1. MoreChunks(h[e].len, at)
          BY <4>3
        <5>2. ChunkAt(h[e].len, at) \in 1..BUFFERSIZE
              /\ at + ChunkAt(h[e].len, at) <= h[e].len
          BY <1>d, <4>2, <5>1, Chunks
        <5>3. WriteLen(e)' = ChunkAt(h[e].len, at)
          BY <4>3 DEF WriteLen
        <5> QED
          BY <1>d, <4>2, <4>3, <5>1, <5>2, <5>3
      <4>5. st'[e] = "ack" => pos'[e] = h'[e].len
        BY <1>d, <4>2, <4>3
      <4> QED
        BY <3>1, <4>1, <4>3, <4>4, <4>5 DEF ThreadWithin
    <3>2. CASE f # e
      <4>1. pos'[f] = pos[f] /\ got'[f] = got[f] /\ st'[f] = st[f]
        BY <3>0, <3>2 DEF TypeThreads
      <4>2. rd'[f] <= Len(data'[f]) /\ rd[f] <= rd'[f]
        BY <1>w
      <4>3. got[f] <= rd[f] /\ got[f] \in Nat /\ rd[f] \in Nat /\ rd'[f] \in Nat
        BY <1>w DEF ThreadWithin, TypeThreads, TypeNet
      <4>4. got[f] <= rd'[f]
        BY <4>2, <4>3
      <4> QED
        BY <1>w, <1>o, <4>1, <4>2, <4>4
    <3> QED
      BY <3>1, <3>2
  <2> QED
    BY <2>2, <2>3, <2>4
<1>1. CASE SrvAuth(e)
  <2>1. Rest
    BY <1>1 DEF SrvAuth, TypeClients, TypeDaemon, DaemonWithin, ChunkLen
  <2>2. TypeNet'
    <3>1. Append(down[e], "OK") \in Seq(Flags)
      BY DEF TypeNet, Flags
    <3> QED
      BY <1>1, <3>1 DEF SrvAuth, TypeNet
  <2>3. TypeThreads'
    BY <1>1 DEF SrvAuth, TypeThreads
  <2>4. TypeDisk'
    BY <1>1 DEF SrvAuth, TypeDisk
  <2>5. Within
    BY <1>1, SMTT(30) DEF SrvAuth, ThreadWithin, WriteLen, TypeNet, TypeThreads
  <2> QED
    BY <2>1, <2>2, <2>3, <2>4, <2>5
<1>2. CASE SrvHeader(e)
  <2>1. Rest
    BY <1>2 DEF SrvHeader, TypeClients, TypeDaemon, DaemonWithin, ChunkLen
  <2>2. TypeNet'
    BY <1>2 DEF SrvHeader, TypeNet
  <2>3. TypeThreads'
    <3>1. Head(up[e]) \in Headers
      BY <1>2 DEF SrvHeader, TypeNet
    <3>2. /\ h' = [h EXCEPT ![e] = Head(up[e])]
          /\ left' = [left EXCEPT ![e] = Head(up[e]).discard]
          /\ st' = [st EXCEPT ![e] = IF Head(up[e]).discard > 0 THEN "discard" ELSE "path"]
          /\ Head(up[e]).discard \in Nat
      BY <1>2, <1>b, <3>1 DEF SrvHeader
    <3> QED
      BY <1>2, <3>1, <3>2 DEF SrvHeader, TypeThreads
  <2>4. TypeDisk'
    BY <1>2 DEF SrvHeader, TypeDisk
  <2>5. Within
    <3>1. Head(up[e]) \in Headers
      BY <1>2 DEF SrvHeader, TypeNet
    <3>2. /\ h' = [h EXCEPT ![e] = Head(up[e])]
          /\ left' = [left EXCEPT ![e] = Head(up[e]).discard]
          /\ st' = [st EXCEPT ![e] = IF Head(up[e]).discard > 0 THEN "discard" ELSE "path"]
          /\ Head(up[e]).discard \in Nat
      BY <1>2, <1>b, <3>1 DEF SrvHeader
    <3> QED
      BY <1>2, <3>2 DEF SrvHeader, TypeThreads, TypeNet, ThreadWithin, WriteLen
  <2> QED
    BY <2>1, <2>2, <2>3, <2>4, <2>5
<1>3. CASE SrvDiscard(e)
  <2>1. Rest
    BY <1>3 DEF SrvDiscard, TypeClients, TypeDaemon, DaemonWithin, ChunkLen
  <2>2. TypeNet'
    BY <1>3 DEF SrvDiscard, TypeNet
  <2>0. left[e] \in 1..h[e].discard /\ (DiscardDone(e) <=> left[e] = 1)
    <3>1. DiscardDone(e) <=> Discarded(e) + 1 = h[e].discard
      BY <1>3, <1>d, <1>v, LastByte DEF SrvDiscard, DiscardDone
    <3> QED
      BY <1>3, <1>d, <1>v, <3>1 DEF SrvDiscard
  <2>3. TypeThreads'
    BY <1>3, <2>0 DEF SrvDiscard, TypeThreads
  <2>4. TypeDisk'
    BY <1>3 DEF SrvDiscard, TypeDisk
  <2>5. Within
    <3> SUFFICES ASSUME NEW f \in Epochs PROVE ThreadWithin(f)'
      OBVIOUS
    <3>1. /\ h' = h /\ pos' = pos /\ got' = got /\ data' = data
          /\ left' = [left EXCEPT ![e] = @ - 1]
          /\ st' = [st EXCEPT ![e] = IF left[e] = 1 THEN "path" ELSE "discard"]
      BY <1>3, <2>0 DEF SrvDiscard
    <3>2. rd'[f] <= Len(data[f]) /\ rd[f] <= rd'[f] /\ rd'[f] \in Nat
      BY <1>3, <1>r DEF SrvDiscard
    <3>3. got[f] <= rd'[f]
      BY <1>g, <3>2
    <3>4. CASE f = e
      <4>1. left[e] - 1 \in 0..h[e].discard
        BY <1>d, <2>0
      <4> QED
        BY <2>0, <3>1, <3>2, <3>3, <3>4, <4>1 DEF ThreadWithin, TypeThreads
    <3>5. CASE f # e
      BY <1>o, <3>1, <3>2, <3>3, <3>5 DEF TypeThreads
    <3> QED
      BY <3>4, <3>5
  <2> QED
    BY <2>1, <2>2, <2>3, <2>4, <2>5
<1>4. CASE SrvPath(e)
  <2>1. Rest
    BY <1>4 DEF SrvPath, TypeClients, TypeDaemon, DaemonWithin, ChunkLen
  <2>2. TypeNet'
    <3>1. LinkTyped /\ DownTyped
      <4>1. CASE path'[e] \in BadPaths
        BY <1>4, <1>a, <4>1 DEF SrvPath, Flags
      <4>2. CASE path'[e] \notin BadPaths
        BY <1>4, <4>2 DEF SrvPath, TypeNet, LinkTyped, DownTyped
      <4> QED
        BY <4>1, <4>2
    <3> QED
      BY <1>4, <1>r, <3>1 DEF SrvPath, TypeNet, LinkTyped, DownTyped
  <2>3. TypeThreads'
    <3>1. data[e][rd[e] + 1] \in Units
      BY <1>4, <1>r DEF SrvPath, TypeNet
    <3>2. PathIn(data[e][rd[e] + 1]) \in Paths \cup {Junk}
      BY <3>1, TransferAssumption
         DEF TransferAssumption, PathIn, Units, TypeClients
    <3> QED
      BY <1>4, <3>2 DEF SrvPath, Send, TypeThreads
  <2>4. TypeDisk'
    BY <1>4 DEF SrvPath, TypeDisk
  <2>5. Within
    <3> SUFFICES ASSUME NEW f \in Epochs PROVE ThreadWithin(f)'
      OBVIOUS
    <3>1. pos' = pos /\ got' = got /\ h' = h /\ left' = left /\ data' = data
      BY <1>4 DEF SrvPath
    <3>2. st' \in {[st EXCEPT ![e] = x] : x \in {"open", "exit", "dead"}}
      BY <1>4 DEF SrvPath, Send
    <3>3. st'[f] \in {"discard", "path", "write", "ack"} => st'[f] = st[f]
      BY <3>2 DEF TypeThreads
    <3>4. rd'[f] <= Len(data[f]) /\ rd[f] <= rd'[f] /\ rd'[f] \in Nat
      BY <1>4, <1>r DEF SrvPath
    <3>5. got[f] <= rd'[f]
      BY <1>g, <3>4
    <3> QED
      BY <1>o, <3>1, <3>3, <3>4, <3>5
  <2> QED
    BY <2>1, <2>2, <2>3, <2>4, <2>5
<1>5. CASE SrvOpen(e)
  <2>1. Rest
    BY <1>5 DEF SrvOpen, TypeClients, TypeDaemon, DaemonWithin, ChunkLen
  <2>2. TypeNet'
    BY <1>5 DEF SrvOpen, TypeNet
  <2>3. TypeThreads'
    BY <1>5 DEF SrvOpen, TypeThreads, FirstState
  <2>4. TypeDisk'
    <3>1. File(<<>>) \in FileStates
      BY DEF File, FileStates
    <3> QED
      BY <1>5, <3>1 DEF SrvOpen, TypeDisk
  <2>5. Within
    <3> SUFFICES ASSUME NEW f \in Epochs PROVE ThreadWithin(f)'
      OBVIOUS
    <3>1. CASE f = e
      <4>0. 0 % BUFFERSIZE = 0
        BY <1>d
      <4>1. /\ MoreChunks(h[e].len, 0) <=> h[e].len > 0
            /\ h[e].len > 0 => /\ ChunkAt(h[e].len, 0) \in 1..BUFFERSIZE
                              /\ 0 + ChunkAt(h[e].len, 0) <= h[e].len
        BY <1>d, <4>0, NoChunks, Chunks
      <4>2. /\ pos'[e] = 0 /\ got'[e] = 0 /\ h' = h /\ rd' = rd /\ data' = data
            /\ st'[e] = IF MoreChunks(h[e].len, 0) THEN "write" ELSE "ack"
        BY <1>5 DEF SrvOpen, FirstState, TypeThreads
      <4>3. WriteLen(e)' = ChunkAt(h[e].len, 0)
        BY <4>2 DEF WriteLen
      <4> QED
        BY <1>d, <1>g, <3>1, <4>0, <4>1, <4>2, <4>3 DEF ThreadWithin
    <3>2. CASE f # e
      BY <1>5, <3>2 DEF SrvOpen, ThreadWithin, WriteLen, TypeNet, TypeThreads
    <3> QED
      BY <3>1, <3>2
  <2> QED
    BY <2>1, <2>2, <2>3, <2>4, <2>5
<1>6. CASE SrvMkdir(e)
  <2>1. Rest
    BY <1>6 DEF SrvMkdir, TypeClients, TypeDaemon, DaemonWithin, ChunkLen
  <2>2. TypeNet'
    BY <1>6 DEF SrvMkdir, TypeNet
  <2>3. TypeThreads'
    BY <1>6 DEF SrvMkdir, TypeThreads
  <2>4. TypeDisk'
    BY <1>6 DEF SrvMkdir, TypeDisk, TypeThreads, FileStates, Directory, Headers
  <2>5. Within
    BY <1>6 DEF SrvMkdir, ThreadWithin, WriteLen, TypeNet, TypeThreads
  <2> QED
    BY <2>1, <2>2, <2>3, <2>4, <2>5
<1>7. CASE SrvRefuse(e)
  <2>1. Rest
    BY <1>7 DEF SrvRefuse, TypeClients, TypeDaemon, DaemonWithin, ChunkLen
  <2>2. TypeNet'
    BY <1>7, <1>a DEF SrvRefuse, TypeNet, LinkTyped, DownTyped, Flags
  <2>3. TypeThreads'
    BY <1>7 DEF SrvRefuse, TypeThreads, Send
  <2>4. TypeDisk'
    BY <1>7 DEF SrvRefuse, TypeDisk
  <2>5. Within
    BY <1>7, SMTT(30) DEF SrvRefuse, ThreadWithin, WriteLen, TypeNet, TypeThreads, Send
  <2> QED
    BY <2>1, <2>2, <2>3, <2>4, <2>5
<1>8. CASE SrvData(e)
  <2>1. Rest
    BY <1>8 DEF SrvData, TypeClients, TypeDaemon, DaemonWithin, ChunkLen
  <2>2. TypeNet'
    BY <1>8, <1>r DEF SrvData, TypeNet
  <2>3. TypeThreads' /\ TypeDisk' /\ Within
    <3> DEFINE units == SubSeq(data[e], rd[e] - got[e] + 1, rd[e] + 1)
    <3>1. CASE got[e] + 1 < WriteLen(e)
      <4>1. TypeThreads' /\ TypeDisk'
        <5>1. got' = [got EXCEPT ![e] = @ + 1] /\ UNCHANGED <<files, pos, buf, st>>
          BY <1>8, <3>1 DEF SrvData
        <5>2. got' \in [Epochs -> Nat]
          BY <5>1 DEF TypeThreads
        <5> QED
          BY <1>8, <5>1, <5>2 DEF SrvData, TypeThreads, TypeDisk
      <4>2. Within
        <5> SUFFICES ASSUME NEW f \in Epochs PROVE ThreadWithin(f)'
          OBVIOUS
        <5>1. pos' = pos /\ st' = st /\ h' = h /\ left' = left /\ data' = data
          BY <1>8, <3>1 DEF SrvData
        <5>2. got' = [got EXCEPT ![e] = @ + 1] /\ rd' = [rd EXCEPT ![e] = @ + 1]
          BY <1>8, <3>1 DEF SrvData
        <5>3. rd'[f] <= Len(data[f]) /\ rd[f] <= rd'[f] /\ rd'[f] \in Nat
          BY <1>8, <1>r, <5>2 DEF SrvData
        <5>4. CASE f = e
          <6>1. got'[e] = got[e] + 1 /\ rd'[e] = rd[e] + 1 /\ got[e] <= rd[e]
            BY <5>2 DEF TypeThreads, TypeNet, ThreadWithin
          <6>2. WriteLen(e)' = WriteLen(e)
            BY <5>1 DEF WriteLen
          <6>3. got'[e] <= rd'[e]
            BY <1>g, <6>1
          <6> QED
            BY <3>1, <5>1, <5>3, <5>4, <6>1, <6>2, <6>3 DEF ThreadWithin
        <5>5. CASE f # e
          <6>1. got'[f] = got[f] /\ got[f] <= rd'[f]
            BY <5>2, <5>3, <5>5 DEF TypeThreads, TypeNet, ThreadWithin
          <6> QED
            BY <1>o, <5>1, <5>3, <6>1
        <5> QED
          BY <5>4, <5>5
      <4> QED
        BY <4>1, <4>2
    <3>2. CASE ~(got[e] + 1 < WriteLen(e))
      <4>1. units \in Seq(Units) /\ Len(units) = got[e] + 1
        <5>1. /\ data[e] \in Seq(Units) /\ rd[e] + 1 \in 1..Len(data[e])
              /\ got[e] \in Nat /\ rd[e] \in Nat /\ got[e] <= rd[e]
          BY <1>8, <1>g, <1>r DEF SrvData, TypeNet
        <5>2. /\ rd[e] - got[e] + 1 \in 1..Len(data[e])
              /\ (rd[e] + 1) - (rd[e] - got[e] + 1) + 1 = got[e] + 1
          BY <5>1
        <5>3. /\ rd[e] - got[e] + 1 \in Int /\ rd[e] + 1 \in Int
              /\ rd[e] - got[e] + 1 <= rd[e] + 1
          BY <5>1
        <5>4. \A i \in (rd[e] - got[e] + 1)..(rd[e] + 1) : data[e][i] \in Units
          BY <5>1
        <5> QED
          BY <5>1, <5>2, <5>3, <5>4, SubSeqProperties
      <4>2. Len(units) = WriteLen(e)
        <5>1. got[e] < WriteLen(e) /\ got[e] \in Nat
          BY <1>8, <1>g DEF SrvData, ThreadWithin
        <5>2. WriteLen(e) \in Int
          BY <1>v
        <5> QED
          BY <3>2, <4>1, <5>1, <5>2
      <4>3. WriteChunk(e, units)
        BY <1>8, <3>2 DEF SrvData
      <4> QED
        BY <1>8, <1>r, <1>w, <4>1, <4>2, <4>3 DEF SrvData, TypeDisk,
           TypeThreads
    <3> QED
      BY <3>1, <3>2
  <2> QED
    BY <2>1, <2>2, <2>3
<1>9. CASE SrvAck(e)
  <2>1. Rest
    BY <1>9 DEF SrvAck, TypeClients, TypeDaemon, DaemonWithin, ChunkLen
  <2>2. TypeNet'
    BY <1>9, <1>a DEF SrvAck, TypeNet, LinkTyped, DownTyped, Flags
  <2>3. TypeThreads'
    <3>1. st' \in {[st EXCEPT ![e] = "hdr"], [st EXCEPT ![e] = "dead"]}
      BY <1>9, <1>c DEF SrvAck
    <3>2. buf' \in [Epochs -> Seq(Units)]
      BY <1>9 DEF SrvAck, TypeThreads
    <3> QED
      BY <1>9, <3>1, <3>2 DEF SrvAck, TypeThreads
  <2>4. TypeDisk'
    <3>1. files' \in [Paths \cup {Junk} -> FileStates]
      BY <1>9, <1>f DEF SrvAck, Flush, TypeDisk, TypeThreads
    <3> QED
      BY <1>9, <3>1 DEF SrvAck, TypeDisk, TypeThreads, Headers
  <2>5. Within
    BY <1>9, SMTT(30) DEF SrvAck, ThreadWithin, WriteLen, TypeNet, TypeThreads, Send
  <2> QED
    BY <2>1, <2>2, <2>3, <2>4, <2>5
<1>10. CASE SrvWriteFails(e)
  <2>1. Rest
    BY <1>10 DEF SrvWriteFails, TypeClients, TypeDaemon, DaemonWithin, ChunkLen
  <2>2. TypeNet'
    <3>1. LinkTyped /\ DownTyped
      BY <1>10, <1>a DEF SrvWriteFails, Flags
    <3> QED
      BY <1>10, <1>r, <3>1 DEF SrvWriteFails, TypeNet, LinkTyped, DownTyped
  <2>3. TypeThreads'
    BY <1>10 DEF SrvWriteFails, TypeThreads, Send
  <2>4. TypeDisk'
    BY <1>10 DEF SrvWriteFails, TypeDisk
  <2>5. Within
    <3>1. st' \in {[st EXCEPT ![e] = "exit"], [st EXCEPT ![e] = "dead"]}
      BY <1>10, <1>c DEF SrvWriteFails
    <3> SUFFICES ASSUME NEW f \in Epochs PROVE ThreadWithin(f)'
      OBVIOUS
    <3>2. pos' = pos /\ got' = got /\ h' = h /\ left' = left /\ data' = data
      BY <1>10 DEF SrvWriteFails
    <3>3. st'[f] \in {"discard", "path", "write", "ack"} => st'[f] = st[f]
      BY <3>1 DEF TypeThreads
    <3>4. rd'[f] <= Len(data[f]) /\ rd[f] <= rd'[f] /\ rd'[f] \in Nat
      BY <1>10, <1>r DEF SrvWriteFails
    <3>5. got[f] <= rd'[f]
      BY <1>g, <3>4
    <3> QED
      BY <1>o, <3>2, <3>3, <3>4, <3>5
  <2> QED
    BY <2>1, <2>2, <2>3, <2>4, <2>5
<1>11. CASE SrvEof(e)
  <2>1. Rest
    BY <1>11 DEF SrvEof, TypeClients, TypeDaemon, DaemonWithin, ChunkLen
  <2>2. TypeNet'
    BY <1>11 DEF SrvEof, TypeNet
  <2>3. TypeThreads'
    BY <1>11 DEF SrvEof, TypeThreads
  <2>4. TypeDisk'
    BY <1>11 DEF SrvEof, TypeDisk
  <2>5. Within
    BY <1>11 DEF SrvEof, ThreadWithin, WriteLen, TypeNet, TypeThreads
  <2> QED
    BY <2>1, <2>2, <2>3, <2>4, <2>5
<1>12. CASE SrvSigpipe(e)
  <2>1. Rest
    BY <1>12 DEF SrvSigpipe, ServerEnds, TypeClients, TypeDaemon, DaemonWithin, ChunkLen
  <2>2. TypeNet'
    BY <1>12 DEF SrvSigpipe, ServerEnds, TypeNet, ServerEnds
  <2>3. TypeThreads'
    BY <1>12 DEF SrvSigpipe, TypeThreads, ServerEnds
  <2>4. TypeDisk'
    BY <1>12 DEF SrvSigpipe, ServerEnds, TypeDisk
  <2>5. Within
    BY <1>12 DEF SrvSigpipe, ThreadWithin, WriteLen, TypeNet, TypeThreads,
       ServerEnds
  <2> QED
    BY <2>1, <2>2, <2>3, <2>4, <2>5
<1>13. CASE SrvHeaderReset(e)
  <2>1. Rest
    BY <1>13 DEF SrvHeaderReset, TypeClients, TypeDaemon, DaemonWithin, ChunkLen
  <2>2. TypeNet'
    BY <1>13 DEF SrvHeaderReset, TypeNet
  <2>3. TypeThreads'
    <3>1. h[e] \in Headers
      BY DEF TypeThreads
    <3>2. /\ h' = [h EXCEPT ![e] = h[e]]
          /\ left' = [left EXCEPT ![e] = h[e].discard]
          /\ st' = [st EXCEPT ![e] = IF h[e].discard > 0 THEN "discard" ELSE "path"]
          /\ h[e].discard \in Nat
      BY <1>13, <1>b, <3>1 DEF SrvHeaderReset
    <3> QED
      BY <1>13, <3>1, <3>2 DEF SrvHeaderReset, TypeThreads
  <2>4. TypeDisk'
    BY <1>13 DEF SrvHeaderReset, TypeDisk
  <2>5. Within
    <3>1. h[e] \in Headers
      BY DEF TypeThreads
    <3>2. /\ h' = [h EXCEPT ![e] = h[e]]
          /\ left' = [left EXCEPT ![e] = h[e].discard]
          /\ st' = [st EXCEPT ![e] = IF h[e].discard > 0 THEN "discard" ELSE "path"]
          /\ h[e].discard \in Nat
      BY <1>13, <1>b, <3>1 DEF SrvHeaderReset
    <3> QED
      BY <1>13, <3>2 DEF SrvHeaderReset, ThreadWithin, WriteLen, TypeNet,
         TypeThreads
  <2> QED
    BY <2>1, <2>2, <2>3, <2>4, <2>5
<1>14. CASE SrvDiscardReset(e)
  <2>1. Rest
    BY <1>14 DEF SrvDiscardReset, DataReset, TypeClients, TypeDaemon,
       DaemonWithin, ChunkLen
  <2>2. TypeNet'
    BY <1>14 DEF SrvDiscardReset, DataReset, TypeNet
  <2> DEFINE chunk == ChunkAt(h[e].discard, Discarded(e))
             more == MoreChunks(h[e].discard, Discarded(e) + chunk)
  <2>0. left[e] - chunk \in 0..h[e].discard /\ (more <=> left[e] - chunk > 0)
    <3>1. /\ chunk \in Nat /\ Discarded(e) + chunk <= h[e].discard
          /\ more <=> Discarded(e) + chunk < h[e].discard
      BY <1>14, <1>d, <1>v, Chunks DEF SrvDiscardReset
    <3>2. Discarded(e) \in Nat /\ left[e] = h[e].discard - Discarded(e)
      BY <1>14, <1>v DEF SrvDiscardReset
    <3> HIDE DEF chunk, more
    <3> QED
      BY <1>d, <3>1, <3>2
  <2>6. /\ left' = [left EXCEPT ![e] = @ - chunk]
        /\ st' = [st EXCEPT ![e] = IF more THEN "discard" ELSE "path"]
    BY <1>14 DEF SrvDiscardReset
  <2> HIDE DEF chunk, more
  <2>3. TypeThreads'
    BY <1>14, <1>d, <2>0, <2>6 DEF SrvDiscardReset, DataReset, TypeThreads
  <2>4. TypeDisk'
    BY <1>14 DEF SrvDiscardReset, DataReset, TypeDisk
  <2>5. Within
    BY <1>14, <1>d, <2>0, <2>6, SMTT(30) DEF SrvDiscardReset, DataReset, ThreadWithin,
       WriteLen, TypeNet, TypeThreads
  <2> QED
    BY <2>1, <2>2, <2>3, <2>4, <2>5
<1>15. CASE SrvPathReset(e)
  <2>1. Rest
    BY <1>15 DEF SrvPathReset, DataReset, TypeClients, TypeDaemon, DaemonWithin, ChunkLen
  <2>2. TypeNet'
    BY <1>15 DEF SrvPathReset, DataReset, TypeNet
  <2>3. TypeThreads'
    BY <1>15 DEF SrvPathReset, TypeThreads, DataReset
  <2>4. TypeDisk'
    BY <1>15 DEF SrvPathReset, DataReset, TypeDisk
  <2>5. Within
    BY <1>15 DEF SrvPathReset, ThreadWithin, WriteLen, TypeNet, TypeThreads,
       DataReset
  <2> QED
    BY <2>1, <2>2, <2>3, <2>4, <2>5
<1>16. CASE SrvDataReset(e)
  <2> DEFINE units == [k \in 1..WriteLen(e) |-> Stale]
  <2>1. Rest
    BY <1>16 DEF SrvDataReset, DataReset, TypeClients, TypeDaemon, DaemonWithin, ChunkLen
  <2>2. TypeNet'
    BY <1>16 DEF SrvDataReset, DataReset, TypeNet
  <2>3. WriteLen(e) \in Nat
    BY <1>v
  <2>4. units \in Seq(Units) /\ Len(units) = WriteLen(e)
    <3>1. Stale \in Units
      BY DEF Stale, ByteUnit, Units
    <3> QED
      BY <2>3, <3>1
  <2>5. seen' \in [Epochs -> SUBSET {"cmd", "data"}]
    BY <1>16 DEF SrvDataReset, DataReset, TypeThreads
  <2>6. TypeThreads' /\ TypeDisk' /\ Within
    <3>1. WriteChunk(e, units) /\ st[e] = "write" /\ UNCHANGED <<h, path, left, data, rd>>
      BY <1>16 DEF SrvDataReset, DataReset
    <3>2. \A f \in Epochs : rd'[f] <= Len(data[f]) /\ rd[f] <= rd'[f]
      BY <3>1 DEF ThreadWithin, TypeNet
    <3>3. rd' \in [Epochs -> Nat]
      BY <3>1 DEF TypeNet
    <3> HIDE DEF units
    <3>4. TypeThreads' /\ files' \in [Paths \cup {Junk} -> FileStates] /\ Within
      BY <1>w, <2>4, <2>5, <3>1, <3>2, <3>3
    <3> QED
      BY <1>16, <3>4 DEF SrvDataReset, DataReset, TypeDisk
  <2> QED
    BY <2>1, <2>2, <2>6
<1>17. CASE SrvExit(e)
  <2>1. Rest
    BY <1>17 DEF SrvExit, TypeClients, TypeDaemon, DaemonWithin, ChunkLen
  <2>2. TypeNet'
    BY <1>17 DEF SrvExit, TypeNet
  <2>3. TypeThreads'
    BY <1>17 DEF SrvExit, TypeThreads
  <2>4. TypeDisk'
    BY <1>17 DEF SrvExit, TypeDisk
  <2>5. Within
    BY <1>17 DEF SrvExit, ThreadWithin, WriteLen, TypeNet, TypeThreads
  <2> QED
    BY <2>1, <2>2, <2>3, <2>4, <2>5
<1> QED
  BY <1>1, <1>2, <1>3, <1>4, <1>5, <1>6, <1>7, <1>8, <1>9, <1>10, <1>11,
     <1>12, <1>13, <1>14, <1>15, <1>16, <1>17 DEF SrvThread, SrvEnding

LEMMA PrefixTyped ==
  ASSUME NEW S, NEW s \in Seq(S), NEW t \in Prefixes(s)
  PROVE  t \in Seq(S)
<1>1. PICK n \in 0..Len(s) : t = SubSeq(s, 1, n)
  BY DEF Prefixes
<1> QED
  BY <1>1

LEMMA FaultTyped ==
  ASSUME Typed,
         DConnectFails \/ CrashServer \/ (\E e \in Epochs : Break(e)) \/ UNCHANGED vars
  PROVE  Typed'
<1> USE TransferAssumption
    DEF Typed, TypeOK, NoOverrun, daemonSide, clientVars, fileVars, attrVars,
        netVars, thrVars, diskVars
<1>1. CASE DConnectFails
  <2>1. TypeDaemon' /\ DaemonWithin'
    BY <1>1 DEF DConnectFails, CatchForced, TypeDaemon, DaemonWithin, ChunkLen
  <2>2. TypeNet'
    BY <1>1 DEF DConnectFails, CatchForced, HangUp, TypeNet, TypeDaemon
  <2>3. TypeClients' /\ TypeThreads' /\ \A e \in Epochs : ThreadWithin(e)'
    BY <1>1 DEF DConnectFails, TypeClients, TypeThreads, TypeNet,
       ThreadWithin, WriteLen
  <2>4. TypeDisk'
    BY <1>1 DEF DConnectFails, TypeDisk, TransferAssumption
  <2> QED
    BY <2>1, <2>2, <2>3, <2>4
<1>2. CASE CrashServer
  <2>1. TypeClients' /\ TypeDaemon' /\ DaemonWithin'
    BY <1>2 DEF CrashServer, ServerEnds, TypeClients, TypeDaemon, DaemonWithin, ChunkLen
  <2>2. TypeNet' /\ TypeThreads'
    BY <1>2 DEF CrashServer, ServerEnds, TypeNet, TypeThreads
  <2>3. \A e \in Epochs : ThreadWithin(e)'
    BY <1>2 DEF CrashServer, ServerEnds, TypeNet, TypeThreads, ThreadWithin
  <2>4. TypeDisk'
    BY <1>2 DEF CrashServer, ServerEnds, TypeDisk, TransferAssumption
  <2> QED
    BY <2>1, <2>2, <2>3, <2>4
<1>3. ASSUME NEW e \in Epochs, Break(e) PROVE Typed'
  <2>1. TypeClients' /\ TypeDaemon' /\ DaemonWithin' /\ TypeThreads'
    BY <1>3, SMTT(30) DEF Break, TypeClients, TypeDaemon, DaemonWithin, ChunkLen, TypeThreads
  <2>2. TypeDisk'
    BY <1>3 DEF Break, TypeDisk, TransferAssumption
  <2>3. PICK n \in rd[e]..Len(data[e]) :
             data' = [data EXCEPT ![e] = SubSeq(@, 1, n)]
    BY <1>3 DEF Break
  <2>4. SubSeq(data[e], 1, n) \in Seq(Units) /\ Len(SubSeq(data[e], 1, n)) = n
    BY <2>3 DEF TypeNet
  <2>5. \A s \in Prefixes(up[e]) : s \in Seq(Headers)
    BY PrefixTyped DEF TypeNet
  <2>6. \A s \in Prefixes(down[e]) : s \in Seq(Flags)
    BY PrefixTyped DEF TypeNet
  <2>7. /\ up' \in [Epochs -> Seq(Headers)] /\ down' \in [Epochs -> Seq(Flags)]
        /\ link' \in [Epochs -> {"none", "up", "fin", "rst"}]
    BY <1>3, <2>5, <2>6 DEF Break, TypeNet
  <2>8. TypeNet'
    BY <1>3, <2>3, <2>4, <2>7 DEF Break, TypeNet
  <2>9. \A f \in Epochs : ThreadWithin(f)'
    BY <1>3, <2>3, <2>4 DEF Break, TypeNet, ThreadWithin, WriteLen
  <2> QED
    BY <2>1, <2>2, <2>8, <2>9
<1>4. CASE UNCHANGED vars
  BY <1>4, SMTT(30) DEF vars, TypeClients, TypeDaemon, TypeNet, TypeThreads, TypeDisk,
              DaemonWithin, ChunkLen, ThreadWithin, WriteLen
<1> QED
  BY <1>1, <1>2, <1>3, <1>4

LEMMA NextTyped == Typed /\ [Next]_vars => Typed'
  BY CommandTyped, DaemonTyped, ServerTyped, FaultTyped DEF Next, Quiet

\* Every variable keeps its type, whatever fails and whoever interrupts.
THEOREM TypeCorrect == Spec => []TypeOK
<1>1. Typed => TypeOK
  BY DEF Typed
<1> QED
  BY InitTyped, NextTyped, <1>1, PTL DEF Spec

\* No loop of the daemon or of a server thread runs past its end: recv_bytes
\* never reads beyond what was sent, discard_data and write_data stop at
\* discard and data_len for every length and every BUFFERSIZE.
THEOREM NothingOverrun == Spec => []NoOverrun
<1>1. Typed => NoOverrun
  BY DEF Typed
<1> QED
  BY InitTyped, NextTyped, <1>1, PTL DEF Spec

\* What the later proofs need to know of the chunks under way.
LEMMA DaemonChunk ==
  ASSUME Typed, pc = "data"
  PROVE  /\ ChunkLen \in Nat /\ cnt < ChunkLen /\ off < hdr.len
         /\ off + ChunkLen <= hdr.len
         /\ MoreChunks(hdr.len, off + ChunkLen) <=> off + ChunkLen # hdr.len
<1>1. hdr.len \in Nat /\ off \in Nat /\ cnt \in Nat
  BY DEF Typed, TypeOK, TypeDaemon, Headers
<1>2. /\ off % BUFFERSIZE = 0 /\ cnt < ChunkLen
      /\ off + ChunkLen <= hdr.len
  BY DEF Typed, NoOverrun, DaemonWithin
<1>3. ChunkLen \in Nat
  BY <1>1, ChunkTypes DEF ChunkLen
<1>4. off < hdr.len
  BY ONLY <1>1, <1>2, <1>3
<1>5. MoreChunks(hdr.len, off + ChunkLen) <=> off + ChunkLen < hdr.len
  BY <1>1, <1>2, <1>4, Chunks DEF ChunkLen
<1>6. off + ChunkLen < hdr.len <=> off + ChunkLen # hdr.len
  BY ONLY <1>1, <1>2, <1>3
<1> QED
  BY <1>2, <1>3, <1>4, <1>5, <1>6

LEMMA ThreadChunk ==
  ASSUME Typed, NEW e \in Epochs, st[e] = "write"
  PROVE  /\ WriteLen(e) \in Nat /\ got[e] < WriteLen(e)
         /\ pos[e] + WriteLen(e) <= h[e].len
         /\ MoreChunks(h[e].len, pos[e] + WriteLen(e))
              <=> pos[e] + WriteLen(e) # h[e].len
         /\ WriteLen(e) = BUFFERSIZE \/ pos[e] + WriteLen(e) = h[e].len
<1>1. h[e].len \in Nat /\ pos[e] \in Nat /\ got[e] \in Nat
  BY DEF Typed, TypeOK, TypeThreads, Headers
<1>2. /\ pos[e] % BUFFERSIZE = 0 /\ got[e] < WriteLen(e)
      /\ pos[e] + WriteLen(e) <= h[e].len
  BY DEF Typed, NoOverrun, ThreadWithin
<1>3. WriteLen(e) \in Nat
  BY <1>1, ChunkTypes DEF WriteLen
<1>4. pos[e] < h[e].len
  BY ONLY <1>1, <1>2, <1>3
<1>5. /\ MoreChunks(h[e].len, pos[e] + WriteLen(e)) <=> pos[e] + WriteLen(e) < h[e].len
      /\ WriteLen(e) = BUFFERSIZE \/ pos[e] + WriteLen(e) = h[e].len
  BY <1>1, <1>2, <1>4, Chunks DEF WriteLen
<1>6. pos[e] + WriteLen(e) < h[e].len <=> pos[e] + WriteLen(e) # h[e].len
  BY ONLY <1>1, <1>2, <1>3
<1> QED
  BY <1>2, <1>3, <1>5, <1>6

LEMMA DiscardByte ==
  ASSUME Typed, NEW e \in Epochs, st[e] = "discard"
  PROVE  DiscardDone(e) <=> left[e] = 1
<1>1. h[e].discard \in Nat /\ left[e] \in 1..h[e].discard
  BY DEF Typed, TypeOK, TypeThreads, Headers, NoOverrun, ThreadWithin
<1>2. Discarded(e) \in Nat /\ Discarded(e) < h[e].discard
  BY <1>1 DEF Discarded
<1>3. DiscardDone(e) <=> Discarded(e) + 1 = h[e].discard
  BY <1>1, <1>2, LastByte DEF DiscardDone
<1> QED
  BY <1>1, <1>3 DEF Discarded

-----------------------------------------------------------------------------
(***************************************************************************)
(* One pair.  No pair but the current one is "up": none opens before its   *)
(* time, and the daemon has hung up whenever it is about to connect again. *)
(* AlignmentProofs builds on it.                                           *)
(***************************************************************************)
OnePairOpen ==
  /\ \A e \in Epochs : e > epoch => link[e] = "none"
  /\ \A e \in Epochs : e < epoch => link[e] # "up"
  /\ pc = "connect" => link[epoch] # "up"

\* What every step does but DConnect: a link may close, none opens, and the
\* daemon does not come to "connect" without having closed its own.
OnlyCloses ==
  /\ epoch' = epoch
  /\ \A e \in Epochs : /\ link[e] = "none" => link'[e] = "none"
                       /\ link[e] # "up" => link'[e] # "up"
  /\ pc' = "connect" => pc = "connect" \/ link'[epoch] # "up"

LEMMA ServerOnlyCloses ==
  ASSUME Typed, NEW e \in Epochs,
         SrvThread(e) \/ SrvEnding(e) \/ CrashServer \/ Break(e)
  PROVE  OnlyCloses
<1> USE DEF Typed, TypeOK, TypeNet, TypeDaemon, OnlyCloses
<1>1. CASE \/ SrvAuth(e) \/ SrvHeader(e) \/ SrvDiscard(e) \/ SrvOpen(e)
           \/ SrvMkdir(e) \/ SrvData(e) \/ SrvEof(e) \/ SrvExit(e)
           \/ SrvHeaderReset(e) \/ SrvDiscardReset(e) \/ SrvPathReset(e)
           \/ SrvDataReset(e)
  BY <1>1 DEF SrvAuth, SrvHeader, SrvDiscard, SrvOpen, SrvMkdir, SrvData,
              SrvEof, SrvExit, SrvHeaderReset, SrvDiscardReset, SrvPathReset,
              SrvDataReset, DataReset, daemonSide, netVars
<1>2. CASE SrvPath(e) \/ SrvRefuse(e) \/ SrvAck(e) \/ SrvWriteFails(e)
  BY <1>2 DEF SrvPath, SrvRefuse, SrvAck, SrvWriteFails, Send, daemonSide
<1>3. CASE SrvSigpipe(e) \/ CrashServer
  BY <1>3 DEF SrvSigpipe, CrashServer, ServerEnds, daemonSide
<1>4. CASE Break(e)
  BY <1>4 DEF Break, daemonSide
<1> QED
  BY <1>1, <1>2, <1>3, <1>4 DEF SrvThread, SrvEnding

LEMMA DaemonOnlyCloses ==
  ASSUME Typed, Daemon \/ DConnectFails, ~DConnect
  PROVE  OnlyCloses
<1> DEFINE Closing == /\ link' = link \/ HangUp
                      /\ pc' = "connect" => HangUp
<1>1. HangUp \/ UNCHANGED link =>
        \A e \in Epochs : /\ link[e] = "none" => link'[e] = "none"
                          /\ link[e] # "up" => link'[e] # "up"
  BY DEF HangUp, Typed, TypeOK, TypeNet, TypeDaemon
<1>2. HangUp => link'[epoch] # "up"
  BY DEF HangUp, Typed, TypeOK, TypeNet, TypeDaemon
<1>3. /\ CatchForced => Closing
      /\ CatchClosed => Closing
      /\ CloseClient => Closing
      /\ ReplyAndForce => Closing
      /\ \A flag : ReplyAndClose(flag) => Closing
      /\ AfterPath => Closing
      /\ NextChunk /\ UNCHANGED link => Closing
  BY DEF CatchForced, CatchClosed, CloseClient, ReplyAndForce, ReplyAndClose,
         AfterPath, NextChunk
<1> HIDE DEF Closing
<1>4. epoch' = epoch
  BY DEF Daemon, DConnectFails, DAccept, DResend, DLoadAttrs, DLoadSource,
         DLoadDest, DStat, DOpenFails, DSendHeader, DSendPath, DSendData,
         DSendDead, DSendAnswered, DSendInterrupted, DReadError, DAwait,
         DAuthenticate, fileVars
<1>5. Closing
  <2>1. CASE DAccept \/ DResend \/ DSendData
    BY <2>1 DEF DAccept, DResend, DSendData, NextChunk, netVars, Closing
  <2>2. CASE DLoadAttrs \/ DLoadSource \/ DLoadDest \/ DStat
    BY <2>2, <1>3 DEF DLoadAttrs, DLoadSource, DLoadDest, DStat, Closing
  <2>3. CASE DOpenFails \/ DReadError \/ DSendInterrupted \/ DConnectFails
    BY <2>3, <1>3 DEF DOpenFails, DReadError, DSendInterrupted, DConnectFails
  <2>4. CASE DSendHeader
    BY <2>4, <1>3 DEF DSendHeader, Closing
  <2>5. CASE DSendPath
    BY <2>5, <1>3 DEF DSendPath
  <2>6. CASE DSendDead \/ DSendAnswered
    BY <2>6, <1>3 DEF DSendDead, DSendAnswered
  <2>7. CASE DAwait \/ DAuthenticate
    BY <2>7, <1>3 DEF DAwait, DAuthenticate, Closing
  <2> QED
    BY <2>1, <2>2, <2>3, <2>4, <2>5, <2>6, <2>7 DEF Daemon
<1>6. \A e \in Epochs : /\ link[e] = "none" => link'[e] = "none"
                        /\ link[e] # "up" => link'[e] # "up"
  <2>1. HangUp \/ UNCHANGED link
    BY <1>5 DEF Closing
  <2> QED
    BY <1>1, <2>1, Zenon
<1>7. pc' = "connect" => link'[epoch] # "up"
  BY <1>2, <1>5 DEF Closing
<1> QED
  BY <1>4, <1>6, <1>7 DEF OnlyCloses

LEMMA NextOnePairOpen ==
  OnePairOpen /\ Typed /\ [Next]_vars => OnePairOpen'
<1> SUFFICES ASSUME OnePairOpen, Typed, [Next]_vars PROVE OnePairOpen'
  OBVIOUS
<1>1. CASE DConnect
  BY <1>1 DEF DConnect, OnePairOpen, Epochs, Typed, TypeOK, TypeNet, TypeDaemon
<1>2. CASE OnlyCloses
  BY <1>2 DEF OnlyCloses, OnePairOpen, Typed, TypeOK, TypeDaemon
<1>3. CASE UNCHANGED vars
  BY <1>3 DEF OnePairOpen, vars, netVars
<1>4. ASSUME NEW c \in Clients,
             ClientConnect(c) \/ ClientSend(c) \/ ClientReceive(c)
               \/ ClientEof(c) \/ ClientInterrupt(c)
      PROVE  OnePairOpen'
  BY <1>4 DEF OnePairOpen, ClientConnect, ClientSend, ClientReceive, ClientEof,
              ClientInterrupt, othersThanClient, netVars
<1>5. CASE \E e \in Epochs : SrvThread(e) \/ SrvEnding(e) \/ Break(e)
  BY <1>2, <1>5, ServerOnlyCloses
<1>6. CASE CrashServer
  <2>1. 1 \in Epochs
    BY TransferAssumption DEF TransferAssumption, Epochs
  <2> QED
    BY <1>2, <1>6, <2>1, ServerOnlyCloses
<1>7. CASE Daemon \/ DConnectFails
  BY <1>1, <1>2, <1>7, DaemonOnlyCloses
<1> QED
  BY <1>3, <1>4, <1>5, <1>6, <1>7 DEF Next, Quiet
=============================================================================
