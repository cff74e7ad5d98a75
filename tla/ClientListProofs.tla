-------------------------- MODULE ClientListProofs --------------------------
(***************************************************************************)
(* The server's list of clients, proved for any number of clients: the     *)
(* elements are a chain of distinct cells (Chain), and CalmInv says of     *)
(* each stage of each operation what it leaves undone.  It concerns calm   *)
(* runs, in which operations do not overlap and whoever ends is the oldest *)
(* or the newest; theorems that need this have the hypothesis InTurn.      *)
(* ListTyped and OwnElements hold without it.                              *)
(***************************************************************************)
EXTENDS ClientList, SequenceTheorems, FiniteSetTheorems, WellFoundedInduction, TLAPS

\* Only runs are considered in which operations on the list take turns and no
\* thread in the middle of the list ends.
InTurn == Overlaps \subseteq {FALSE} /\ Middles \subseteq {FALSE}

Calm == ~overlap /\ ~middle

Elements(s) == {s[i] : i \in 1..Len(s)}

\* The cells of s, each once, are what is found from newest on along prev.
Chain(s, newest, prev) ==
  /\ s \in Seq(Cells)
  /\ \A i, j \in 1..Len(s) : s[i] = s[j] => i = j
  /\ newest = IF s = <<>> THEN Null ELSE s[1]
  /\ \A i \in 1..Len(s) : prev[s[i]] = IF i = Len(s) THEN Null ELSE s[i + 1]

Adding     == main \in {"link", "last", "create"}
Leaving(c) == thr[c] \in {"unlink", "cut", "free"}

\* No two operations on the list at a time.
OneAtATime ==
  /\ \A c \in Cells : thr[c] # "middle"
  /\ \A c, d \in Cells : Leaving(c) /\ Leaving(d) => c = d
  /\ \A c \in Cells : Leaving(c) => ~Adding /\ handler = "idle"

Listed == Elements(Walk)

\* Who is in the list, and which client's sockets are open.
Membership ==
  /\ handler = "idle" =>
       /\ \A c \in Cells :
            c \in Listed
              <=> thr[c] \in {"run", "unlink"} \/ (main = "create" /\ c = mine)
       /\ \A c \in Cells :
            c \in open <=> thr[c] = "run" \/ (Adding /\ c = mine)
       /\ mine \in Cells => thr[mine] = "none"
  /\ handler \in {"walk", "free"} => open \subseteq Listed \cup InHand
  /\ handler \in {"done", "gone"} => open \subseteq InHand
  /\ handler # "idle" => Listed \cap InHand = {}

\* Which cells are allocated.
Allocation ==
  /\ handler = "idle" =>
       \A c \in Cells : 
         c \in heap <=> c \in Listed \/ c = mine \/ thr[c] \in {"cut", "free"}
  /\ handler = "walk" => heap = Listed \cup InHand
  /\ handler = "free" => /\ tmp \in Cells /\ tmp \notin Listed \cup InHand
                         /\ heap = Listed \cup InHand \cup {tmp}
  /\ handler = "done" => /\ tmp \in Cells /\ tmp \notin InHand
                         /\ Walk = <<tmp>>
                         /\ heap = InHand \cup {tmp}
  /\ handler = "gone" => heap \subseteq InHand

\* What next holds: the newer neighbour, or for the newest element what the
\* operation in progress has put there.
Forward ==
  handler = "idle" =>
    /\ \A i \in 2..Len(Walk) : next[Walk[i]] = Walk[i - 1]
    /\ Walk # <<>> =>
         /\ main = "last" => next[last_client] = mine
         /\ \A c \in Cells : thr[c] = "cut" => next[last_client] = c
         /\ main # "last" /\ (\A c \in Cells : thr[c] # "cut")
              => next[last_client] = Null

\* What an operation in progress relies on.
InProgress ==
  /\ handler = "idle" /\ main \in {"link", "last"} =>
       before[mine] = last_client /\ next[mine] = Null
  /\ \A c \in Cells : thr[c] = "unlink" => ~IsMiddle(c)
  /\ \A c \in Cells : thr[c] = "cut" => Walk # <<>> /\ before[c] = last_client

CalmInv ==
  /\ Chain(Walk, last_client, before)
  /\ OneAtATime /\ Membership /\ Allocation /\ Forward /\ InProgress
  /\ ~misuse

ListInv == Calm => CalmInv

-----------------------------------------------------------------------------
(***************************************************************************)
(* Chains                                                                  *)
(***************************************************************************)
\* Any set of natural numbers but the empty one has a least element: what is
\* proved by induction here is proved by its least counterexample.
LEMMA LeastNumber ==
  ASSUME NEW S \in SUBSET Nat, S # {}
  PROVE  \E x \in S : \A y \in S : x <= y
<1>1. IsWellFoundedOn(OpToRel(<, Nat), Nat)
  BY NatLessThanWellFounded
<1>2. PICK x \in S : \A y \in S : <<y, x>> \notin OpToRel(<, Nat)
  BY <1>1, WFMin, Zenon
<1>3. \A y \in S : ~(y < x)
  BY <1>2 DEF OpToRel
<1> QED
  BY <1>3

\* A chain has as many elements as it is long, and no more than there are cells.
LEMMA ChainLength ==
  ASSUME NEW s, NEW newest, NEW prev, Chain(s, newest, prev)
  PROVE  /\ Len(s) \in Nat /\ Len(s) <= Cardinality(Cells)
         /\ Cardinality(Elements(s)) = Len(s)
<1>1. s \in [1..Len(s) -> Cells] /\ Len(s) \in Nat
  BY DEF Chain
<1>2. IsFiniteSet(1..Len(s)) /\ Cardinality(1..Len(s)) = Len(s)
  <2>1. 1 \in Int /\ Len(s) \in Int
    BY <1>1
  <2>2. /\ IsFiniteSet(1..Len(s))
        /\ Cardinality(1..Len(s)) = IF 1 > Len(s) THEN 0 ELSE Len(s) - 1 + 1
    BY <2>1, FS_Interval, Zenon
  <2> QED
    BY <1>1, <2>2
<1>3. s \in Injection(1..Len(s), Cells)
  BY <1>1 DEF Chain, Injection, IsInjective
<1>4. Len(s) <= Cardinality(Cells)
  BY <1>2, <1>3, FS_Injection, ClientListAssumption
<1>5. s \in Bijection(1..Len(s), Elements(s))
  <2>1. s \in [1..Len(s) -> Elements(s)]
    BY <1>1 DEF Elements
  <2>2. s \in Injection(1..Len(s), Elements(s))
    BY <2>1 DEF Chain, Injection, IsInjective
  <2>3. s \in Surjection(1..Len(s), Elements(s))
    BY <2>1 DEF Elements, Surjection
  <2> QED
    BY <2>2, <2>3 DEF Bijection
<1>6. Cardinality(Elements(s)) = Cardinality(1..Len(s))
  <2>1. ExistsBijection(1..Len(s), Elements(s))
    BY <1>5 DEF ExistsBijection
  <2> QED
    BY <1>2, <2>1, FS_Bijection
<1> QED
  BY <1>1, <1>2, <1>4, <1>6

\* What is found along a chain is the chain, and nothing else.
LEMMA WalkIsTheChain ==
  ASSUME NEW s, NEW newest, NEW prev, Chain(s, newest, prev)
  PROVE  WalkFrom(newest, prev) = s
<1> DEFINE K    == Cardinality(Cells)
           R(g) == g = [n \in 0..K |->
                          IF n = 0 THEN newest
                          ELSE IF g[n - 1] = Null THEN Null ELSE prev[g[n - 1]]]
           f    == [n \in 0..K |-> IF n < Len(s) THEN s[n + 1] ELSE Null]
           step == CHOOSE g : R(g)
<1>1. Len(s) \in Nat /\ Len(s) <= K /\ K \in Nat
  BY ChainLength, FS_CardinalityType, ClientListAssumption
<1>2. \A i \in 1..Len(s) : s[i] \in Cells /\ s[i] # Null
  BY ClientListAssumption DEF Chain
<1>3. R(f)
  <2> DEFINE rhs == [n \in 0..K |->
                       IF n = 0 THEN newest
                       ELSE IF f[n - 1] = Null THEN Null ELSE prev[f[n - 1]]]
  <2>1. ASSUME NEW n \in 0..K PROVE f[n] = rhs[n]
    <3>1. CASE n = 0
      BY <1>1, <3>1 DEF Chain
    <3>2. CASE n # 0 /\ n <= Len(s)
      <4>1. n - 1 \in 0..K /\ n - 1 < Len(s) /\ n \in 1..Len(s)
        BY <1>1, <3>2
      <4>2. f[n - 1] = s[n] /\ s[n] # Null
        BY <1>2, <4>1
      <4> QED
        BY <1>1, <3>2, <4>1, <4>2 DEF Chain
    <3>3. CASE n > Len(s)
      <4>1. n - 1 \in 0..K /\ ~(n - 1 < Len(s)) /\ ~(n < Len(s)) /\ n # 0
        BY <1>1, <3>3
      <4>2. f[n - 1] = Null
        BY <4>1
      <4> QED
        BY <1>1, <4>1, <4>2
    <3> QED
      BY <1>1, <3>1, <3>2, <3>3
  <2> QED
    BY <2>1
<1>4. R(step)
  BY <1>3
<1> HIDE DEF step
<1>5. step = f
  <2> DEFINE Wrong == {n \in 0..K : step[n] # f[n]}
  <2>1. CASE Wrong # {}
    <3>1. PICK n \in Wrong : \A m \in Wrong : n <= m
      <4>1. Wrong \in SUBSET Nat
        OBVIOUS
      <4> HIDE DEF Wrong
      <4> QED
        BY <2>1, <4>1, LeastNumber
    <3>2. n \in 0..K /\ n # 0
      <4>1. 0 \in 0..K /\ step[0] = newest
        BY <1>1, <1>4
      <4>2. f[0] = newest
        <5> HIDE DEF f
        <5> QED
          BY <1>3, <4>1
      <4> QED
        BY <4>1, <4>2
    <3>3. n - 1 \in 0..K /\ n - 1 \notin Wrong
      BY <1>1, <3>1, <3>2
    <3>4. step[n - 1] = f[n - 1]
      BY <3>3
    <3>5. step[n] = IF step[n - 1] = Null THEN Null ELSE prev[step[n - 1]]
      BY <1>4, <3>2
    <3>6. f[n] = IF f[n - 1] = Null THEN Null ELSE prev[f[n - 1]]
      <4> HIDE DEF f
      <4> QED
        BY <1>3, <3>2
    <3>7. step[n] # f[n]
      OBVIOUS
    <3> QED
      BY <3>4, <3>5, <3>6, <3>7
  <2>2. CASE Wrong = {}
    <3>1. \A n \in 0..K : step[n] = f[n]
      BY <2>2
    <3>2. step = [n \in 0..K |-> step[n]]
      BY <1>4
    <3>3. f = [n \in 0..K |-> f[n]]
      OBVIOUS
    <3> HIDE DEF f
    <3> QED
      BY <3>1, <3>2, <3>3
  <2> QED
    BY <2>1, <2>2
<1>6. {n \in DOMAIN step : step[n] # Null} = 0..(Len(s) - 1)
  <2>1. DOMAIN step = 0..K
    BY <1>5
  <2>2. ASSUME NEW n \in 0..K PROVE step[n] # Null <=> n < Len(s)
    <3>1. step[n] = IF n < Len(s) THEN s[n + 1] ELSE Null
      BY <1>5
    <3>2. n < Len(s) => n + 1 \in 1..Len(s)
      BY <1>1
    <3> QED
      BY <1>2, <3>1, <3>2
  <2> QED
    BY <1>1, <2>1, <2>2
<1>7. Cardinality({n \in DOMAIN step : step[n] # Null}) = Len(s)
  <2>1. Cardinality(0..(Len(s) - 1)) = Len(s)
    <3>1. 0 \in Int /\ Len(s) - 1 \in Int
      BY <1>1
    <3>2. Cardinality(0..(Len(s) - 1))
            = IF 0 > Len(s) - 1 THEN 0 ELSE (Len(s) - 1) - 0 + 1
      BY <3>1, FS_Interval, Zenon
    <3> QED
      BY <1>1, <3>2
  <2> QED
    BY <1>6, <2>1
<1>8. WalkFrom(newest, prev) = [i \in 1..Len(s) |-> step[i - 1]]
  <2>1. WalkFrom(newest, prev)
          = [i \in 1..Cardinality({n \in DOMAIN step : step[n] # Null}) |-> step[i - 1]]
    BY DEF WalkFrom, step
  <2> QED
    BY <1>7, <2>1
<1>9. \A i \in 1..Len(s) : step[i - 1] = s[i]
  <2> TAKE i \in 1..Len(s)
  <2>1. i - 1 \in 0..K /\ i - 1 < Len(s) /\ (i - 1) + 1 = i
    BY <1>1
  <2> QED
    BY <1>5, <2>1
<1>10. s = [i \in 1..Len(s) |-> s[i]]
  BY DEF Chain
<1> QED
  BY <1>8, <1>9, <1>10

\* A new element in front of a chain.
LEMMA ChainJoined ==
  ASSUME NEW s, NEW newest, NEW prev, NEW m \in Cells,
         Chain(s, newest, prev), m \notin Elements(s), prev[m] = newest
  PROVE  /\ Chain(<<m>> \o s, m, prev)
         /\ Elements(<<m>> \o s) = Elements(s) \cup {m}
<1> DEFINE t == <<m>> \o s
<1>1. s \in Seq(Cells) /\ Len(s) \in Nat
  BY DEF Chain
<1>2. t \in Seq(Cells) /\ Len(t) = Len(s) + 1
  BY <1>1
<1>3. t[1] = m /\ \A i \in 1..Len(s) : t[i + 1] = s[i]
  BY <1>1
<1> HIDE DEF t
<1>4. \A i \in 2..Len(t) : i - 1 \in 1..Len(s) /\ t[i] = s[i - 1]
  <2> TAKE i \in 2..Len(t)
  <2>1. i - 1 \in 1..Len(s) /\ (i - 1) + 1 = i
    BY <1>1, <1>2
  <2> QED
    BY <1>3, <2>1
<1>5. \A i \in 2..Len(t) : t[i] # m
  BY <1>4 DEF Elements
<1>6. \A i, j \in 1..Len(t) : t[i] = t[j] => i = j
  <2> SUFFICES ASSUME NEW i \in 1..Len(t), NEW j \in 1..Len(t), t[i] = t[j]
               PROVE  i = j
    OBVIOUS
  <2>1. CASE i = 1 \/ j = 1
    BY <1>2, <1>3, <1>5, <2>1, <1>1
  <2>2. CASE i # 1 /\ j # 1
    <3>1. i \in 2..Len(t) /\ j \in 2..Len(t)
      BY <1>1, <1>2, <2>2
    <3>2. s[i - 1] = s[j - 1] /\ i - 1 \in 1..Len(s) /\ j - 1 \in 1..Len(s)
      BY <1>4, <3>1
    <3>3. i - 1 = j - 1
      BY <3>2 DEF Chain
    <3> QED
      BY <3>3, <1>1, <1>2
  <2> QED
    BY <2>1, <2>2
<1>7. \A i \in 1..Len(t) : prev[t[i]] = IF i = Len(t) THEN Null ELSE t[i + 1]
  <2> TAKE i \in 1..Len(t)
  <2>1. CASE i = 1
    <3>1. CASE s = <<>>
      BY <1>2, <1>3, <2>1, <3>1 DEF Chain
    <3>2. CASE s # <<>>
      <4>1. Len(s) >= 1 /\ newest = s[1]
        BY <1>1, <3>2 DEF Chain
      <4>2. 1 \in 1..Len(s) /\ t[1 + 1] = s[1] /\ Len(t) # 1
        BY <1>1, <1>2, <1>3, <4>1
      <4> QED
        BY <1>3, <2>1, <4>1, <4>2
    <3> QED
      BY <3>1, <3>2
  <2>2. CASE i # 1
    <3>1. i \in 2..Len(t) /\ i - 1 \in 1..Len(s) /\ t[i] = s[i - 1]
      BY <1>1, <1>2, <1>4, <2>2
    <3>2. prev[s[i - 1]] = IF i - 1 = Len(s) THEN Null ELSE s[(i - 1) + 1]
      BY <3>1 DEF Chain
    <3>3. CASE i = Len(t)
      BY <1>1, <1>2, <3>1, <3>2, <3>3
    <3>4. CASE i # Len(t)
      <4>1. i \in 1..Len(s) /\ i - 1 # Len(s) /\ (i - 1) + 1 = i
        BY <1>1, <1>2, <3>1, <3>4
      <4> QED
        BY <1>3, <3>1, <3>2, <3>4, <4>1
    <3> QED
      BY <3>3, <3>4
  <2> QED
    BY <2>1, <2>2
<1>8. t # <<>> /\ m = t[1]
  BY <1>1, <1>2, <1>3
<1>9. Elements(t) = Elements(s) \cup {m}
  <2>1. ASSUME NEW x \in Elements(t) PROVE x \in Elements(s) \cup {m}
    <3>1. PICK i \in 1..Len(t) : x = t[i]
      BY DEF Elements
    <3>2. i = 1 \/ i \in 2..Len(t)
      BY <1>1, <1>2
    <3> QED
      BY <1>3, <1>4, <3>1, <3>2 DEF Elements
  <2>2. ASSUME NEW x \in Elements(s) PROVE x \in Elements(t)
    <3>1. PICK i \in 1..Len(s) : x = s[i]
      BY DEF Elements
    <3>2. i + 1 \in 1..Len(t)
      BY <1>1, <1>2
    <3> QED
      BY <1>3, <3>1, <3>2 DEF Elements
  <2>3. m \in Elements(t)
    BY <1>1, <1>2, <1>3 DEF Elements
  <2> QED
    BY <2>1, <2>2, <2>3
<1> QED
  BY <1>2, <1>6, <1>7, <1>8, <1>9 DEF Chain, t

\* The places in a sequence without its first element, and without its last.
LEMMA NewestLeftPlaces ==
  ASSUME NEW s \in Seq(Cells), Len(s) >= 1, NEW t, t = SubSeq(s, 2, Len(s))
  PROVE  /\ t \in Seq(Cells) /\ Len(t) = Len(s) - 1
         /\ \A i \in 1..Len(t) : i + 1 \in 1..Len(s) /\ t[i] = s[i + 1]
<1>1. Len(s) \in Nat /\ Len(s) >= 1
  OBVIOUS
<1>2. 2 \in Int /\ Len(s) \in Int /\ \A i \in 2..Len(s) : s[i] \in Cells
  BY <1>1
<1>3. t \in Seq(Cells) /\ Len(t) = Len(s) - 1
  <2>1. t \in Seq(Cells)
    BY <1>2, SubSeqProperties
  <2>2. Len(t) = IF 2 <= Len(s) THEN Len(s) - 2 + 1 ELSE 0
    BY <1>2, SubSeqProperties
  <2>3. Len(s) \in Nat /\ Len(s) >= 1
    BY <1>1
  <2>4. \A k \in Nat : k >= 1 => (IF 2 <= k THEN k - 2 + 1 ELSE 0) = k - 1
    OBVIOUS
  <2>5. (IF 2 <= Len(s) THEN Len(s) - 2 + 1 ELSE 0) = Len(s) - 1
    BY <2>3, <2>4, Zenon
  <2>6. Len(t) = Len(s) - 1
    BY <2>2, <2>5
  <2> QED
    BY <2>1, <2>6
<1>4. \A i \in 1..Len(t) : i + 1 \in 1..Len(s) /\ t[i] = s[i + 1]
  BY <1>1, <1>2, <1>3, SubSeqProperties
<1> QED
  BY <1>3, <1>4

LEMMA OldestLeftPlaces ==
  ASSUME NEW s \in Seq(Cells), Len(s) > 1, NEW t, t = SubSeq(s, 1, Len(s) - 1)
  PROVE  /\ t \in Seq(Cells) /\ Len(t) = Len(s) - 1
         /\ \A i \in 1..Len(t) : i \in 1..Len(s) /\ t[i] = s[i]
<1>1. Len(s) \in Nat /\ Len(s) > 1
  OBVIOUS
<1>2. t \in Seq(Cells) /\ Len(t) = Len(s) - 1
  BY <1>1, SubSeqProperties
<1> QED
  BY <1>1, <1>2, SubSeqProperties

\* A chain without its newest element.
LEMMA ChainNewestLeft ==
  ASSUME NEW s, NEW newest, NEW prev, Chain(s, newest, prev), s # <<>>
  PROVE  /\ Chain(SubSeq(s, 2, Len(s)), prev[newest], prev)
         /\ Elements(SubSeq(s, 2, Len(s))) = Elements(s) \ {newest}
<1> DEFINE t == SubSeq(s, 2, Len(s))
<1>1. s \in Seq(Cells) /\ Len(s) \in Nat /\ Len(s) >= 1 /\ newest = s[1]
  BY DEF Chain
<1>2. t \in Seq(Cells) /\ Len(t) = Len(s) - 1
  BY <1>1, NewestLeftPlaces
<1>3. \A i \in 1..Len(t) : i + 1 \in 1..Len(s) /\ t[i] = s[i + 1]
  BY <1>1, NewestLeftPlaces
<1> HIDE DEF t
<1>4. \A i, j \in 1..Len(t) : t[i] = t[j] => i = j
  <2> SUFFICES ASSUME NEW i \in 1..Len(t), NEW j \in 1..Len(t), t[i] = t[j]
               PROVE  i = j
    OBVIOUS
  <2>1. i + 1 = j + 1
    BY <1>3 DEF Chain
  <2> QED
    BY <2>1, <1>1, <1>2
<1>5. prev[newest] = IF t = <<>> THEN Null ELSE t[1]
  <2>1. prev[s[1]] = IF 1 = Len(s) THEN Null ELSE s[1 + 1]
    <3>1. 1 \in 1..Len(s)
      BY <1>1
    <3> QED
      BY <3>1 DEF Chain
  <2>2. CASE Len(s) = 1
    BY <1>1, <1>2, <2>1, <2>2
  <2>3. CASE Len(s) # 1
    <3>1. 1 \in 1..Len(t) /\ t # <<>>
      BY <1>1, <1>2, <2>3
    <3> QED
      BY <1>1, <1>3, <2>1, <2>3, <3>1
  <2> QED
    BY <2>2, <2>3
<1>6. \A i \in 1..Len(t) : prev[t[i]] = IF i = Len(t) THEN Null ELSE t[i + 1]
  <2> TAKE i \in 1..Len(t)
  <2>1. prev[t[i]] = IF i + 1 = Len(s) THEN Null ELSE s[(i + 1) + 1]
    BY <1>3 DEF Chain
  <2>2. CASE i = Len(t)
    BY <1>1, <1>2, <2>1, <2>2
  <2>3. CASE i # Len(t)
    <3>1. i + 1 \in 1..Len(t) /\ i + 1 # Len(s)
      BY <1>1, <1>2, <2>3
    <3> QED
      BY <1>3, <2>1, <2>3, <3>1
  <2> QED
    BY <2>2, <2>3
<1>7. Elements(t) = Elements(s) \ {newest}
  <2>1. ASSUME NEW x \in Elements(t) PROVE x \in Elements(s) /\ x # newest
    <3>1. PICK i \in 1..Len(t) : x = t[i]
      BY DEF Elements
    <3>2. i + 1 \in 1..Len(s) /\ x = s[i + 1] /\ i + 1 # 1 /\ 1 \in 1..Len(s)
      BY <1>1, <1>2, <1>3, <3>1
    <3> QED
      BY <1>1, <3>2 DEF Elements, Chain
  <2>2. ASSUME NEW x \in Elements(s), x # newest PROVE x \in Elements(t)
    <3>1. PICK i \in 1..Len(s) : x = s[i]
      BY DEF Elements
    <3>2. i - 1 \in 1..Len(t) /\ (i - 1) + 1 = i
      BY <1>1, <1>2, <2>2, <3>1
    <3> QED
      BY <1>3, <3>1, <3>2 DEF Elements
  <2> QED
    BY <2>1, <2>2
<1> QED
  BY <1>2, <1>4, <1>5, <1>6, <1>7 DEF Chain, t

\* A chain of several without its oldest element, once the one in front of it
\* points nowhere.
LEMMA ChainOldestLeft ==
  ASSUME NEW s, NEW newest, NEW prev \in [Cells -> Address],
         Chain(s, newest, prev), Len(s) > 1
  PROVE  /\ Chain(SubSeq(s, 1, Len(s) - 1), newest,
                  [prev EXCEPT ![s[Len(s) - 1]] = Null])
         /\ Elements(SubSeq(s, 1, Len(s) - 1)) = Elements(s) \ {s[Len(s)]}
<1> DEFINE t == SubSeq(s, 1, Len(s) - 1)
           q == [prev EXCEPT ![s[Len(s) - 1]] = Null]
<1>1. s \in Seq(Cells) /\ Len(s) \in Nat /\ newest = s[1]
  BY DEF Chain
<1>2. t \in Seq(Cells) /\ Len(t) = Len(s) - 1
  BY <1>1, OldestLeftPlaces
<1>3. \A i \in 1..Len(t) : i \in 1..Len(s) /\ t[i] = s[i]
  BY <1>1, OldestLeftPlaces
<1> HIDE DEF t
<1>4. \A i, j \in 1..Len(t) : t[i] = t[j] => i = j
  BY <1>3 DEF Chain
<1>5. newest = t[1] /\ t # <<>>
  <2>1. 1 \in 1..Len(t)
    BY <1>1, <1>2
  <2> QED
    BY <1>1, <1>3, <2>1
<1>6. \A i \in 1..Len(t) : q[t[i]] = IF i = Len(t) THEN Null ELSE t[i + 1]
  <2> TAKE i \in 1..Len(t)
  <2>1. i \in 1..Len(s) /\ t[i] = s[i] /\ s[i] \in Cells /\ Len(t) \in 1..Len(s)
    BY <1>1, <1>2, <1>3
  <2>2. CASE i = Len(t)
    <3>1. t[i] = s[Len(s) - 1]
      BY <1>2, <2>1, <2>2
    <3> QED
      BY <2>1, <2>2, <3>1
  <2>3. CASE i # Len(t)
    <3>1. s[i] # s[Len(t)]
      BY <2>1, <2>3 DEF Chain
    <3>2. q[t[i]] = prev[s[i]]
      BY <1>2, <2>1, <3>1
    <3>3. i + 1 \in 1..Len(t) /\ i # Len(s)
      BY <1>1, <1>2, <2>3
    <3> HIDE DEF q
    <3> QED
      BY <1>3, <2>1, <2>3, <3>2, <3>3 DEF Chain
  <2> QED
    BY <2>2, <2>3
<1>7. Elements(t) = Elements(s) \ {s[Len(s)]}
  <2>1. ASSUME NEW x \in Elements(t) PROVE x \in Elements(s) /\ x # s[Len(s)]
    <3>1. PICK i \in 1..Len(t) : x = t[i]
      BY DEF Elements
    <3>2. i \in 1..Len(s) /\ x = s[i] /\ i # Len(s) /\ Len(s) \in 1..Len(s)
      BY <1>1, <1>2, <1>3, <3>1
    <3> QED
      BY <3>2 DEF Elements, Chain
  <2>2. ASSUME NEW x \in Elements(s), x # s[Len(s)] PROVE x \in Elements(t)
    <3>1. PICK i \in 1..Len(s) : x = s[i]
      BY DEF Elements
    <3>2. i \in 1..Len(t)
      BY <1>1, <1>2, <2>2, <3>1
    <3> QED
      BY <1>3, <3>1, <3>2 DEF Elements
  <2> QED
    BY <2>1, <2>2
<1> HIDE DEF q
<1>8. Chain(t, newest, q)
  BY <1>2, <1>4, <1>5, <1>6 DEF Chain
<1> QED
  BY <1>7, <1>8 DEF t, q

\* What is written to another cell does not concern a chain.
LEMMA ChainElsewhere ==
  ASSUME NEW s, NEW newest, NEW prev \in [Cells -> Address],
         Chain(s, newest, prev), NEW p, p \notin Elements(s), NEW x
  PROVE  Chain(s, newest, [prev EXCEPT ![p] = x])
<1>1. \A i \in 1..Len(s) : s[i] \in Cells /\ s[i] # p
  BY DEF Chain, Elements
<1>2. \A i \in 1..Len(s) : [prev EXCEPT ![p] = x][s[i]] = prev[s[i]]
  BY <1>1
<1> QED
  BY <1>2 DEF Chain

\* The only element with nothing behind it is the oldest one.
LEMMA ChainEnds ==
  ASSUME NEW s, NEW newest, NEW prev, Chain(s, newest, prev),
         NEW c \in Elements(s)
  PROVE  /\ c \in Cells /\ c # Null /\ s # <<>> /\ Len(s) \in Nat /\ Len(s) >= 1
         /\ newest = s[1] /\ newest \in Elements(s) /\ newest \in Cells
         /\ newest # Null
         /\ prev[c] = Null <=> c = s[Len(s)]
         /\ prev[c] # Null => prev[c] \in Elements(s) /\ prev[c] # c
<1>1. PICK i \in 1..Len(s) : c = s[i]
  BY DEF Elements
<1>2. s \in Seq(Cells) /\ Len(s) \in Nat
  BY DEF Chain
<1>3. \A j \in 1..Len(s) : s[j] \in Cells /\ s[j] # Null
  BY <1>2, ClientListAssumption
<1>4. Len(s) >= 1 /\ s # <<>> /\ 1 \in 1..Len(s) /\ Len(s) \in 1..Len(s)
  BY <1>1, <1>2
<1>5. newest = s[1]
  BY <1>4 DEF Chain
<1>6. prev[c] = IF i = Len(s) THEN Null ELSE s[i + 1]
  BY <1>1 DEF Chain
<1>7. i # Len(s) => i + 1 \in 1..Len(s) /\ i + 1 # i
  BY <1>2
<1>8. i = Len(s) <=> c = s[Len(s)]
  BY <1>1, <1>4 DEF Chain
<1>9. i # Len(s) => s[i + 1] # s[i]
  BY <1>7 DEF Chain
<1> QED
  BY <1>1, <1>2, <1>3, <1>4, <1>5, <1>6, <1>7, <1>8, <1>9 DEF Elements

-----------------------------------------------------------------------------
(***************************************************************************)
(* Types                                                                   *)
(***************************************************************************)
LEMMA InitTyped == Init => TypeOK
  BY ClientListAssumption DEF Init, TypeOK, Address

LEMMA SetTyped ==
  ASSUME TypeOK, NEW p \in Address, NEW x \in Address
  PROVE  /\ SetNext(p, x) => next' \in [Cells -> Address]
         /\ SetBefore(p, x) => before' \in [Cells -> Address]
  BY DEF TypeOK, SetNext, SetBefore

LEMMA UsesTyped == \A p : Uses(p) => misuse' \in BOOLEAN
  BY DEF Uses

LEMMA MainTyped ==
  ASSUME TypeOK, MMalloc \/ MAccept \/ MLink \/ MLast \/ MCreate
  PROVE  TypeOK'
<1> USE ClientListAssumption DEF TypeOK, Address, inputs, pointers
<1>1. CASE MMalloc
  BY <1>1 DEF MMalloc
<1>2. CASE MAccept
  <2>1. mine \in Cells
    BY <1>2 DEF MAccept
  <2> QED
    BY <1>2, <2>1 DEF MAccept
<1>3. CASE MLink
  <2>1. next' \in [Cells -> Address] /\ misuse' \in BOOLEAN
    BY <1>3, SetTyped, UsesTyped DEF MLink
  <2> QED
    BY <1>3, <2>1 DEF MLink
<1>4. CASE MLast
  BY <1>4 DEF MLast
<1>5. CASE MCreate
  <2>1. misuse' \in BOOLEAN
    BY <1>5, UsesTyped DEF MCreate
  <2> QED
    BY <1>5, <2>1 DEF MCreate
<1> QED
  BY <1>1, <1>2, <1>3, <1>4, <1>5

LEMMA ThreadTyped ==
  ASSUME TypeOK, NEW c \in Cells,
         TClose(c) \/ TMiddle(c) \/ TMiddleBefore(c) \/ TLast(c) \/ TLastNext(c)
           \/ TFirst(c) \/ TOnly(c) \/ TFree(c)
  PROVE  TypeOK'
<1> USE ClientListAssumption DEF TypeOK, Address, inputs, pointers, TGoto, TSteps
<1>1. c \in Address /\ next[c] \in Address /\ before[c] \in Address /\ Null \in Address
  OBVIOUS
<1>2. CASE TClose(c)
  BY <1>2 DEF TClose
<1>3. CASE TMiddle(c)
  <2>1. next' \in [Cells -> Address] /\ misuse' \in BOOLEAN
    BY <1>1, <1>3, SetTyped, UsesTyped DEF TMiddle
  <2> QED
    BY <1>3, <2>1 DEF TMiddle
<1>4. CASE TMiddleBefore(c)
  <2>1. misuse' \in BOOLEAN
    BY <1>4, UsesTyped DEF TMiddleBefore
  <2> QED
    BY <1>4, <2>1 DEF TMiddleBefore
<1>5. CASE TLast(c)
  <2>1. misuse' \in BOOLEAN
    BY <1>5, UsesTyped DEF TLast
  <2> QED
    BY <1>1, <1>5, <2>1 DEF TLast
<1>6. CASE TLastNext(c)
  <2>1. next' \in [Cells -> Address] /\ misuse' \in BOOLEAN
    BY <1>1, <1>6, SetTyped, UsesTyped DEF TLastNext
  <2> QED
    BY <1>6, <2>1 DEF TLastNext
<1>7. CASE TFirst(c)
  <2>1. before' \in [Cells -> Address] /\ misuse' \in BOOLEAN
    BY <1>1, <1>7, SetTyped, UsesTyped DEF TFirst
  <2> QED
    BY <1>7, <2>1 DEF TFirst
<1>8. CASE TOnly(c)
  <2>1. misuse' \in BOOLEAN
    BY <1>8, UsesTyped DEF TOnly
  <2> QED
    BY <1>1, <1>8, <2>1 DEF TOnly
<1>9. CASE TFree(c)
  <2>1. /\ next' \in [Cells -> Address] /\ before' \in [Cells -> Address]
        /\ misuse' \in BOOLEAN
    BY <1>1, <1>9, SetTyped, UsesTyped DEF TFree, Free
  <2> QED
    BY <1>9, <2>1 DEF TFree, Free
<1> QED
  BY <1>2, <1>3, <1>4, <1>5, <1>6, <1>7, <1>8, <1>9

LEMMA HandlerTyped ==
  ASSUME TypeOK, HBegin \/ HTake \/ HFree \/ HExit
  PROVE  TypeOK'
<1> USE ClientListAssumption DEF TypeOK, Address, inputs, pointers
<1>1. CASE HBegin
  BY <1>1 DEF HBegin
<1>2. CASE HTake
  <2>1. misuse' \in BOOLEAN
    BY <1>2, UsesTyped DEF HTake
  <2>2. last_client \in Cells /\ before[last_client] \in Address
    BY <1>2 DEF HTake
  <2> QED
    BY <1>2, <2>1, <2>2 DEF HTake
<1>3. CASE HFree
  <2>1. /\ next' \in [Cells -> Address] /\ before' \in [Cells -> Address]
        /\ misuse' \in BOOLEAN
    BY <1>3, SetTyped, UsesTyped DEF HFree, Free
  <2> QED
    BY <1>3, <2>1 DEF HFree, Free
<1>4. CASE HExit
  <2>1. /\ next' \in [Cells -> Address] /\ before' \in [Cells -> Address]
        /\ misuse' \in BOOLEAN
    BY <1>4, SetTyped, UsesTyped DEF HExit, Free
  <2>2. heap' \subseteq Cells
    BY <1>4 DEF HExit, Free
  <2> QED
    BY <1>4, <2>1, <2>2 DEF HExit
<1> QED
  BY <1>1, <1>2, <1>3, <1>4

\* The pointers of a client_info and last_client hold addresses of cells or
\* NULL, and main holds a client exactly while it is at work on one
\* (server.c, 545-572).
THEOREM ListTyped == Spec => []TypeOK
<1>1. TypeOK /\ [Next]_vars => TypeOK'
  <2> SUFFICES ASSUME TypeOK, [Next]_vars PROVE TypeOK'
    OBVIOUS
  <2>1. CASE UNCHANGED vars
    BY <2>1 DEF vars, inputs, pointers, TypeOK
  <2>2. CASE Next
    <3>1. CASE HBegin \/ HTake \/ HFree \/ HExit
      BY <3>1, HandlerTyped
    <3>2. CASE MMalloc \/ MAccept \/ MLink \/ MLast \/ MCreate
      BY <3>2, MainTyped
    <3>3. ASSUME NEW c \in Cells,
                 TClose(c) \/ TMiddle(c) \/ TMiddleBefore(c) \/ TLast(c)
                   \/ TLastNext(c) \/ TFirst(c) \/ TOnly(c) \/ TFree(c)
          PROVE  TypeOK'
      BY <3>3, ThreadTyped
    <3> QED
      BY <2>2, <3>1, <3>2, <3>3 DEF Next
  <2> QED
    BY <2>1, <2>2
<1> QED
  BY <1>1, InitTyped, PTL DEF Spec

-----------------------------------------------------------------------------
(***************************************************************************)
(* Elements and their owners, whatever overlaps and whoever ends           *)
(***************************************************************************)
\* Until signal_handler begins, everybody's element is allocated and his own;
\* what it has taken, and what a thread frees, has its sockets closed.
Owners ==
  /\ ClosedBeforeFreed
  /\ handler = "idle" /\ mine \in Cells => mine \in heap /\ thr[mine] = "none"
  /\ \A c \in Cells : thr[c] \notin {"none", "run"} => c \notin open
  /\ handler \in {"free", "done"} => tmp \notin open

LEMMA OwnersInit == Init => Owners
  BY ClientListAssumption DEF Init, Owners, ClosedBeforeFreed

LEMMA MainOwns ==
  ASSUME TypeOK, Owners, MMalloc \/ MAccept \/ MLink \/ MLast \/ MCreate
  PROVE  Owners'
<1> USE ClientListAssumption DEF TypeOK, Address, Owners, ClosedBeforeFreed
<1>1. handler = "idle" /\ handler' = handler
  BY DEF MMalloc, MAccept, MLink, MLast, MCreate, MainRuns
<1>2. CASE MMalloc
  BY <1>1, <1>2 DEF MMalloc
<1>3. CASE MAccept
  <2>1. /\ mine \in Cells /\ open' = open \cup {mine}
        /\ UNCHANGED <<heap, mine, thr>>
    BY <1>3 DEF MAccept
  <2> QED
    BY <1>1, <2>1
<1>4. CASE MLink \/ MLast
  BY <1>1, <1>4 DEF MLink, MLast
<1>5. CASE MCreate
  <2>1. /\ mine \in Cells /\ mine' = Null
        /\ thr' = [thr EXCEPT ![mine] = "run"]
        /\ UNCHANGED <<heap, open>>
    BY <1>5 DEF MCreate
  <2> QED
    BY <1>1, <2>1
<1> QED
  BY <1>2, <1>3, <1>4, <1>5

LEMMA ThreadOwns ==
  ASSUME TypeOK, Owners, NEW c \in Cells,
         TClose(c) \/ TMiddle(c) \/ TMiddleBefore(c) \/ TLast(c) \/ TLastNext(c)
           \/ TFirst(c) \/ TOnly(c) \/ TFree(c)
  PROVE  Owners'
<1> USE ClientListAssumption DEF TypeOK, Address, Owners, ClosedBeforeFreed
<1>1. UNCHANGED <<main, mine, handler, tmp>>
  BY DEF TClose, TMiddle, TMiddleBefore, TLast, TLastNext, TFirst, TOnly, TFree, TSteps
<1>2. CASE TClose(c)
  <2>1. /\ thr[c] = "run" /\ open' = open \ {c}
        /\ thr' = [thr EXCEPT ![c] = "unlink"] /\ heap' = heap
    BY <1>2 DEF TClose, TGoto
  <2> QED
    BY <1>1, <2>1
<1>3. CASE TFree(c)
  <2>1. /\ thr[c] = "free" /\ heap' = heap \ {c}
        /\ thr' = [thr EXCEPT ![c] = "none"] /\ open' = open
    BY <1>3 DEF TFree, TGoto, Free
  <2> QED
    BY <1>1, <2>1
<1>4. CASE TMiddle(c) \/ TMiddleBefore(c) \/ TLast(c) \/ TLastNext(c) \/ TFirst(c)
             \/ TOnly(c)
  <2>1. PICK where \in {"middle", "cut", "free"} :
          thr[c] \notin {"none", "run"} /\ thr' = [thr EXCEPT ![c] = where]
    BY <1>4 DEF TMiddle, TMiddleBefore, TLast, TLastNext, TFirst, TOnly, TGoto
  <2>2. UNCHANGED <<heap, open>>
    BY <1>4 DEF TMiddle, TMiddleBefore, TLast, TLastNext, TFirst, TOnly, TSteps
  <2> QED
    BY <1>1, <2>1, <2>2
<1> QED
  BY <1>2, <1>3, <1>4

LEMMA HandlerOwns ==
  ASSUME TypeOK, Owners, HBegin \/ HTake \/ HFree \/ HExit
  PROVE  Owners'
<1> USE DEF TypeOK, Owners, ClosedBeforeFreed
<1>1. handler' # "idle" /\ UNCHANGED <<main, mine, thr>>
  BY DEF HBegin, HTake, HFree, HExit
<1>2. CASE HBegin
  BY <1>1, <1>2 DEF HBegin
<1>3. CASE HTake
  <2>1. open' = open \ {last_client} /\ tmp' = last_client /\ heap' = heap
    BY <1>3 DEF HTake
  <2> QED
    BY <1>1, <2>1
<1>4. CASE HFree
  <2>1. /\ handler = "free" /\ handler' = "walk" /\ heap' = heap \ {tmp}
        /\ open' = open
    BY <1>4 DEF HFree, Free
  <2> QED
    BY <1>1, <2>1
<1>5. CASE HExit
  <2>1. /\ handler' = "gone" /\ open' = open
        /\ heap' = heap \/ (handler = "done" /\ heap' = heap \ {tmp})
    BY <1>5 DEF HExit, Free
  <2> QED
    BY <1>1, <2>1
<1> QED
  BY <1>2, <1>3, <1>4, <1>5

\* Whatever overlaps, and whoever ends: an element is freed only after its
\* sockets were closed, and until signal_handler begins no thread's element is
\* freed by anybody else (server.c, 139-152 and 170-186).
THEOREM OwnElements == Spec => []ClosedBeforeFreed
<1>1. TypeOK /\ Owners /\ [Next]_vars => Owners'
  <2> SUFFICES ASSUME TypeOK, Owners, [Next]_vars PROVE Owners'
    OBVIOUS
  <2>1. CASE UNCHANGED vars
    BY <2>1 DEF vars, Owners, ClosedBeforeFreed
  <2>2. CASE Next
    BY <2>2, MainOwns, ThreadOwns, HandlerOwns DEF Next
  <2> QED
    BY <2>1, <2>2
<1>2. Owners => ClosedBeforeFreed
  BY DEF Owners
<1> QED
  BY <1>1, <1>2, OwnersInit, ListTyped, PTL DEF Spec

-----------------------------------------------------------------------------
(***************************************************************************)
(* main, one operation at a time                                           *)
(***************************************************************************)
LEMMA InitListInv == Init => ListInv
<1> SUFFICES ASSUME Init PROVE CalmInv
  BY DEF ListInv
<1>1. Chain(<<>>, last_client, before) /\ Elements(<<>>) = {}
  BY DEF Init, Chain, Elements
<1>2. Walk = <<>>
  BY <1>1, WalkIsTheChain DEF Walk
<1>3. Listed = {}
  BY <1>1, <1>2 DEF Listed
<1> QED
  BY <1>1, <1>2, <1>3, ClientListAssumption
     DEF Init, CalmInv, OneAtATime, Membership, Allocation, Forward, InProgress,
         Leaving, Adding

\* Where no element is linked in or out, the list is as it was.
LEMMA SameWalk ==
  ASSUME Chain(Walk, last_client, before), last_client' = last_client,
         before' = before
  PROVE  /\ Walk' = Walk /\ Listed' = Listed
         /\ Chain(Walk, last_client, before)'
<1>1. Walk' = Walk
  BY DEF Walk
<1>2. Listed' = Listed
  BY <1>1 DEF Listed
<1> QED
  BY <1>1, <1>2

\* The list is the chain the pointers form.
LEMMA WalkAfter ==
  ASSUME NEW s, Chain(s, last_client', before')
  PROVE  /\ Walk' = s /\ Listed' = Elements(s)
         /\ Chain(Walk, last_client, before)'
<1>1. Walk' = s
  BY WalkIsTheChain, Zenon DEF Walk
<1> QED
  BY <1>1 DEF Listed

\* What is written to a cell that is not in the list leaves it as it was.
LEMMA WalkElsewhere ==
  ASSUME TypeOK, Chain(Walk, last_client, before), last_client' = last_client,
         NEW p, p \notin Listed, NEW x, before' = [before EXCEPT ![p] = x]
  PROVE  /\ Walk' = Walk /\ Listed' = Listed
         /\ Chain(Walk, last_client, before)'
<1>1. Chain(Walk, last_client, before')
  BY ChainElsewhere DEF Listed, TypeOK
<1>2. Walk' = Walk
  BY <1>1, WalkIsTheChain DEF Walk
<1>3. Listed' = Listed
  BY <1>2 DEF Listed
<1> QED
  BY <1>1, <1>2, <1>3

\* An access to an allocated cell is no misuse.
LEMMA WellUsed ==
  ASSUME NEW p, p \in heap, Uses(p), ~misuse
  PROVE  ~misuse'
  BY Zenon DEF Uses

LEMMA MallocKeeps ==
  ASSUME TypeOK, Calm, CalmInv, MMalloc
  PROVE  CalmInv' /\ Walk' = Walk
<1> USE DEF CalmInv
<1>1. PICK m \in Cells : m \notin heap /\ mine' = m /\ heap' = heap \cup {m}
  BY DEF MMalloc
<1>2. /\ main = "malloc" /\ main' = "accept" /\ mine = Null /\ m # Null
      /\ handler = "idle"
      /\ UNCHANGED <<pointers, open, thr, handler, tmp, misuse>>
  BY <1>1, ClientListAssumption DEF MMalloc, TypeOK, MainRuns
<1>3. Walk' = Walk /\ Listed' = Listed /\ Chain(Walk, last_client, before)'
  BY <1>2, SameWalk DEF pointers
<1>4. OneAtATime'
  BY <1>2 DEF OneAtATime, Leaving, Adding
<1>5. m \notin Listed
  BY <1>1, <1>2 DEF Allocation
<1>6. thr[m] = "none"
  <2>1. thr[m] \notin {"run", "unlink", "cut", "free"}
    BY <1>1, <1>2, <1>5 DEF Membership, Allocation
  <2> QED
    BY <2>1 DEF OneAtATime, TypeOK
<1>7. Membership'
  BY <1>1, <1>2, <1>3, <1>6 DEF Membership, Adding
<1>9. Allocation'
  BY <1>1, <1>2, <1>3, ClientListAssumption DEF Allocation
<1>10. Forward'
  BY <1>2, <1>3 DEF Forward, pointers
<1>11. InProgress'
  BY <1>2, <1>3 DEF InProgress, pointers, IsMiddle
<1> QED
  BY <1>2, <1>3, <1>4, <1>7, <1>9, <1>10, <1>11

\* Between operations nobody leaves, and main is not adding anybody.
LEMMA Quietly ==
  ASSUME TypeOK, Calm, MayBegin
  PROVE  /\ ~Adding /\ handler = "idle"
         /\ \A c \in Cells : ~Leaving(c) /\ thr[c] \in {"none", "run"}
  BY DEF Calm, MayBegin, Quiet, NobodyLeaves, Adding, Leaving

LEMMA AcceptKeeps ==
  ASSUME TypeOK, Calm, CalmInv, MAccept
  PROVE  CalmInv' /\ Walk' = Walk
<1> USE DEF CalmInv
<1>1. /\ main = "accept" /\ main' = "link" /\ mine \in Cells
      /\ next' = [next EXCEPT ![mine] = Null]
      /\ before' = [before EXCEPT ![mine] = last_client]
      /\ open' = open \cup {mine}
      /\ UNCHANGED <<last_client, heap, mine, thr, handler, tmp, misuse>>
  BY DEF MAccept, TypeOK, Address
<1>2. handler = "idle" /\ \A c \in Cells : thr[c] \in {"none", "run"}
  BY Quietly DEF MAccept
<1>3. mine \notin Listed /\ thr[mine] = "none"
  BY <1>1, <1>2 DEF Membership
<1>4. Walk' = Walk /\ Listed' = Listed /\ Chain(Walk, last_client, before)'
  BY <1>1, <1>3, WalkElsewhere
<1>5. OneAtATime'
  BY <1>1, <1>2 DEF OneAtATime, Leaving, Adding
<1>6. Membership'
  BY <1>1, <1>2, <1>3, <1>4 DEF Membership, Adding
<1>7. Allocation'
  BY <1>1, <1>2, <1>3, <1>4 DEF Allocation
<1>8. Forward'
  <2>1. \A i \in 1..Len(Walk) : Walk[i] \in Cells /\ Walk[i] # mine
    BY <1>3 DEF Listed, Elements, Chain
  <2>2. \A i \in 2..Len(Walk) : i \in 1..Len(Walk)
    BY DEF Chain
  <2>3. Walk # <<>> => last_client \in Cells /\ last_client # mine
    <3>1. Walk # <<>> => 1 \in 1..Len(Walk) /\ last_client = Walk[1]
      BY DEF Chain
    <3> QED
      BY <2>1, <3>1
  <2> QED
    BY <1>1, <1>2, <1>4, <2>1, <2>2, <2>3 DEF Forward, TypeOK
<1>9. InProgress'
  BY <1>1, <1>2, <1>4 DEF InProgress, TypeOK
<1> QED
  BY <1>1, <1>4, <1>5, <1>6, <1>7, <1>8, <1>9

LEMMA LinkKeeps ==
  ASSUME TypeOK, Calm, CalmInv, MLink
  PROVE  CalmInv' /\ Walk' = Walk
<1> USE DEF CalmInv
<1>1. /\ main = "link" /\ main' = "last" /\ mine \in Cells
      /\ UNCHANGED <<last_client, before, heap, open, mine, thr, handler, tmp>>
  BY DEF MLink, TypeOK, Address
<1>2. handler = "idle" /\ \A c \in Cells : thr[c] \in {"none", "run"}
  BY <1>1 DEF MLink, MainRuns, OneAtATime, Adding, Leaving, TypeOK
<1>3. mine \notin Listed /\ thr[mine] = "none"
  BY <1>1, <1>2 DEF Membership
<1>4. Walk' = Walk /\ Listed' = Listed /\ Chain(Walk, last_client, before)'
  BY <1>1, SameWalk
<1>5. before[mine] = last_client /\ next[mine] = Null
  BY <1>1, <1>2 DEF InProgress
<1>6. OneAtATime'
  BY <1>1, <1>2 DEF OneAtATime, Leaving, Adding
<1>7. Membership'
  BY <1>1, <1>2, <1>3, <1>4 DEF Membership, Adding
<1>8. Allocation'
  BY <1>1, <1>2, <1>3, <1>4 DEF Allocation
<1>9. CASE Walk = <<>>
  <2>1. last_client = Null
    BY <1>9 DEF Chain
  <2>2. next' = next /\ misuse' = misuse
    BY <1>5, <2>1 DEF MLink
  <2>3. Len(Walk) = 0
    BY <1>9
  <2>4. Forward'
    BY <1>4, <1>9, <2>3 DEF Forward
  <2>5. InProgress'
    BY <1>1, <1>2, <1>4, <1>5, <2>2 DEF InProgress
  <2> QED
    BY <1>4, <1>6, <1>7, <1>8, <2>2, <2>4, <2>5
<1>10. CASE Walk # <<>>
  <2>1. /\ Len(Walk) \in Nat /\ 1 \in 1..Len(Walk) /\ last_client = Walk[1]
        /\ last_client \in Listed /\ last_client \in Cells
    BY <1>10 DEF Chain, Listed, Elements
  <2>2. last_client # Null /\ last_client # mine
    BY <1>3, <2>1, ClientListAssumption
  <2>3. next' = [next EXCEPT ![last_client] = mine]
    BY <1>5, <2>2 DEF MLink, SetNext
  <2>4. ~misuse'
    <3>1. last_client \in heap
      BY <1>2, <2>1 DEF Allocation
    <3>2. Uses(last_client)
      BY <1>5, <2>2 DEF MLink
    <3> QED
      BY <3>1, <3>2, WellUsed
  <2>5. \A i \in 2..Len(Walk) : i \in 1..Len(Walk) /\ Walk[i] # last_client
    BY <2>1 DEF Chain
  <2>6. Forward'
    BY <1>1, <1>2, <1>4, <2>1, <2>3, <2>5 DEF Forward, TypeOK
  <2>7. InProgress'
    BY <1>1, <1>2, <1>4, <1>5, <2>2, <2>3 DEF InProgress, TypeOK
  <2> QED
    BY <1>4, <1>6, <1>7, <1>8, <2>4, <2>6, <2>7
<1> QED
  BY <1>4, <1>9, <1>10

LEMMA LastKeeps ==
  ASSUME TypeOK, Calm, CalmInv, MLast
  PROVE  /\ CalmInv'
         /\ Walk' = <<mine>> \o Walk /\ mine \in Cells /\ mine \notin Listed
<1> USE DEF CalmInv
<1>1. /\ main = "last" /\ main' = "create" /\ mine \in Cells
      /\ last_client' = mine
      /\ UNCHANGED <<next, before, heap, open, mine, thr, handler, tmp, misuse>>
  BY DEF MLast, TypeOK, Address
<1>2. handler = "idle" /\ \A c \in Cells : thr[c] \in {"none", "run"}
  BY <1>1 DEF MLast, MainRuns, OneAtATime, Adding, Leaving, TypeOK
<1>3. mine \notin Listed /\ thr[mine] = "none"
  BY <1>1, <1>2 DEF Membership
<1>4. before[mine] = last_client /\ next[mine] = Null
  BY <1>1, <1>2 DEF InProgress
<1>5. /\ Chain(<<mine>> \o Walk, last_client', before')
      /\ Elements(<<mine>> \o Walk) = Listed \cup {mine}
  BY <1>1, <1>3, <1>4, ChainJoined DEF Listed
<1>6. /\ Walk' = <<mine>> \o Walk /\ Listed' = Listed \cup {mine}
      /\ Chain(Walk, last_client, before)'
  BY <1>5, WalkAfter
<1>7. OneAtATime'
  BY <1>1, <1>2 DEF OneAtATime, Leaving, Adding
<1>8. Membership'
  BY <1>1, <1>2, <1>3, <1>6 DEF Membership, Adding
<1>9. Allocation'
  BY <1>1, <1>2, <1>3, <1>6 DEF Allocation
<1>10. Forward'
  <2>1. Walk \in Seq(Cells) /\ Len(Walk) \in Nat
    BY DEF Chain
  <2>2. /\ Len(Walk') = Len(Walk) + 1 /\ Walk'[1] = mine
        /\ \A i \in 1..Len(Walk) : Walk'[i + 1] = Walk[i]
    BY <1>1, <1>6, <2>1
  <2>3. ASSUME NEW i \in 2..Len(Walk') PROVE next[Walk'[i]] = Walk'[i - 1]
    <3>1. i - 1 \in 1..Len(Walk) /\ (i - 1) + 1 = i
      BY <2>1, <2>2
    <3>2. Walk'[i] = Walk[i - 1]
      BY <2>2, <3>1
    <3>3. CASE i = 2
      <4>1. Walk[1] = last_client /\ Walk # <<>>
        BY <2>1, <3>1, <3>3 DEF Chain
      <4>2. next[last_client] = mine
        BY <1>1, <1>2, <4>1 DEF Forward
      <4> QED
        BY <2>2, <3>2, <3>3, <4>1, <4>2
    <3>4. CASE i # 2
      <4>1. i - 1 \in 2..Len(Walk) /\ (i - 1) - 1 \in 1..Len(Walk)
            /\ ((i - 1) - 1) + 1 = i - 1
        BY <2>1, <2>2, <3>4
      <4>2. next[Walk[i - 1]] = Walk[(i - 1) - 1]
        BY <1>2, <4>1 DEF Forward
      <4>3. Walk'[i - 1] = Walk[(i - 1) - 1]
        BY <2>2, <4>1
      <4> QED
        BY <3>2, <4>2, <4>3
    <3> QED
      BY <3>3, <3>4
  <2> QED
    BY <1>1, <1>2, <1>4, <2>3 DEF Forward
<1>11. InProgress'
  BY <1>1, <1>2 DEF InProgress
<1> QED
  BY <1>1, <1>3, <1>6, <1>7, <1>8, <1>9, <1>10, <1>11

LEMMA CreateKeeps ==
  ASSUME TypeOK, Calm, CalmInv, MCreate
  PROVE  CalmInv' /\ Walk' = Walk
<1> USE DEF CalmInv
<1>1. /\ main = "create" /\ main' = "malloc" /\ mine \in Cells /\ mine' = Null
      /\ thr' = [thr EXCEPT ![mine] = "run"] /\ Uses(mine)
      /\ UNCHANGED <<pointers, heap, open, handler, tmp>>
  BY DEF MCreate, TypeOK, Address
<1>2. handler = "idle" /\ \A c \in Cells : thr[c] \in {"none", "run"}
  BY <1>1 DEF MCreate, MainRuns, OneAtATime, Adding, Leaving, TypeOK
<1>3. mine \in Listed /\ thr[mine] = "none" /\ Null \notin Cells
  BY <1>1, <1>2, ClientListAssumption DEF Membership
<1>4. Walk' = Walk /\ Listed' = Listed /\ Chain(Walk, last_client, before)'
  BY <1>1, SameWalk DEF pointers
<1>5. \A c \in Cells : thr'[c] = IF c = mine THEN "run" ELSE thr[c]
  BY <1>1 DEF TypeOK
<1>6. OneAtATime'
  BY <1>1, <1>2, <1>5 DEF OneAtATime, Leaving, Adding
<1>7. Membership'
  BY <1>1, <1>2, <1>3, <1>4, <1>5 DEF Membership, Adding
<1>8. Allocation'
  <2>1. \A c \in Cells : thr'[c] \in {"cut", "free"} <=> thr[c] \in {"cut", "free"}
    BY <1>2, <1>3, <1>5
  <2> QED
    BY <1>1, <1>2, <1>3, <1>4, <2>1 DEF Allocation
<1>9. Forward'
  BY <1>1, <1>2, <1>4, <1>5 DEF Forward, pointers
<1>10. InProgress'
  BY <1>1, <1>2, <1>4, <1>5 DEF InProgress, pointers
<1>11. ~misuse'
  <2>1. mine \in heap
    BY <1>1, <1>2, <1>3 DEF Allocation
  <2> QED
    BY <1>1, <2>1, WellUsed
<1> QED
  BY <1>4, <1>6, <1>7, <1>8, <1>9, <1>10, <1>11

-----------------------------------------------------------------------------
(***************************************************************************)
(* Threads that end, one operation at a time                               *)
(***************************************************************************)
\* While a thread takes itself out nobody else is at work on the list.
LEMMA AloneLeaving ==
  ASSUME TypeOK, Calm, CalmInv, NEW c \in Cells, Leaving(c)
  PROVE  /\ handler = "idle" /\ ~Adding /\ main \in {"malloc", "accept"}
         /\ \A d \in Cells : d # c => thr[d] \in {"none", "run"}
         /\ c \in heap
         /\ c \in Listed <=> thr[c] = "unlink"
<1>1. handler = "idle" /\ ~Adding
  BY DEF CalmInv, OneAtATime
<1>2. main \in {"malloc", "accept"}
  BY <1>1 DEF Adding, TypeOK
<1>3. \A d \in Cells : d # c => thr[d] \in {"none", "run"}
  BY DEF CalmInv, OneAtATime, TypeOK, Leaving
<1>4. c \in Listed <=> thr[c] = "unlink"
  BY <1>1, <1>2 DEF CalmInv, Membership, Leaving
<1>5. c \in heap
  BY <1>1, <1>4 DEF CalmInv, Allocation, Leaving
<1> QED
  BY <1>1, <1>2, <1>3, <1>4, <1>5

\* A thread that is about to take itself out sees from next whether it is the
\* newest one.
LEMMA NextOfLeaver ==
  ASSUME TypeOK, Calm, CalmInv, NEW c \in Cells, thr[c] = "unlink"
  PROVE  /\ next[c] = Null <=> c = last_client
         /\ c # last_client =>
              \E i \in 2..Len(Walk) : Walk[i] = c /\ next[c] = Walk[i - 1]
<1> USE DEF CalmInv
<1>1. /\ handler = "idle" /\ c \in Listed /\ main # "last"
      /\ \A d \in Cells : thr[d] # "cut"
  BY AloneLeaving DEF Leaving
<1>2. PICK i \in 1..Len(Walk) : c = Walk[i]
  BY <1>1 DEF Listed, Elements
<1>3. Walk \in Seq(Cells) /\ Len(Walk) \in Nat /\ Walk # <<>> /\ last_client = Walk[1]
      /\ 1 \in 1..Len(Walk)
  BY <1>2 DEF Chain
<1>4. CASE i = 1
  BY <1>1, <1>2, <1>3, <1>4 DEF Forward
<1>5. CASE i # 1
  <2>1. i \in 2..Len(Walk) /\ i - 1 \in 1..Len(Walk)
    BY <1>3, <1>5
  <2>2. next[c] = Walk[i - 1]
    BY <1>1, <1>2, <2>1 DEF Forward
  <2>3. next[c] \in Cells
    BY <1>3, <2>1, <2>2
  <2>4. c # last_client
    BY <1>2, <1>3, <1>5 DEF Chain
  <2> QED
    BY <1>2, <2>1, <2>2, <2>3, <2>4, ClientListAssumption
<1> QED
  BY <1>4, <1>5

LEMMA CloseKeeps ==
  ASSUME TypeOK, Calm, CalmInv, NEW c \in Cells, TClose(c)
  PROVE  CalmInv' /\ Walk' = Walk
<1> USE DEF CalmInv
<1>1. /\ thr[c] = "run" /\ ~IsMiddle(c) /\ open' = open \ {c}
      /\ thr' = [thr EXCEPT ![c] = "unlink"]
      /\ UNCHANGED <<pointers, heap, main, mine, handler, tmp, misuse>>
  BY DEF TClose, TGoto, Calm
<1>2. handler = "idle" /\ ~Adding /\ \A d \in Cells : thr[d] \in {"none", "run"}
  BY Quietly DEF TClose
<1>3. Walk' = Walk /\ Listed' = Listed /\ Chain(Walk, last_client, before)'
  BY <1>1, SameWalk DEF pointers
<1>4. \A d \in Cells : thr'[d] = IF d = c THEN "unlink" ELSE thr[d]
  BY <1>1 DEF TypeOK
<1>5. OneAtATime'
  BY <1>1, <1>2, <1>4 DEF OneAtATime, Leaving, Adding
<1>6. Membership'
  <2>1. mine # c
    BY <1>1, <1>2 DEF Membership
  <2> QED
    BY <1>1, <1>2, <1>3, <1>4, <2>1 DEF Membership, Adding
<1>7. Allocation'
  BY <1>1, <1>2, <1>3, <1>4 DEF Allocation
<1>8. Forward'
  BY <1>1, <1>2, <1>3, <1>4 DEF Forward, pointers
<1>9. InProgress'
  BY <1>1, <1>2, <1>3, <1>4 DEF InProgress, pointers, Adding, IsMiddle
<1> QED
  BY <1>1, <1>3, <1>5, <1>6, <1>7, <1>8, <1>9

LEMMA LastThreadKeeps ==
  ASSUME TypeOK, Calm, CalmInv, NEW c \in Cells, TLast(c)
  PROVE  /\ CalmInv'
         /\ Walk # <<>> /\ Walk' = SubSeq(Walk, 2, Len(Walk))
<1> USE DEF CalmInv
<1>1. /\ thr[c] = "unlink" /\ next[c] = Null /\ before[c] # Null
      /\ last_client' = before[c] /\ Uses(c)
      /\ thr' = [thr EXCEPT ![c] = "cut"]
      /\ UNCHANGED <<next, before, heap, open, main, mine, handler, tmp>>
  BY DEF TLast, TGoto, TSteps
<1>2. /\ handler = "idle" /\ ~Adding /\ c \in heap /\ c \in Listed
      /\ \A d \in Cells : d # c => thr[d] \in {"none", "run"}
  BY <1>1, AloneLeaving DEF Leaving
<1>3. c = last_client
  BY <1>1, NextOfLeaver
<1>4. Walk # <<>> /\ Walk \in Seq(Cells) /\ Len(Walk) \in Nat /\ Len(Walk) >= 1
  BY <1>2, ChainEnds DEF Listed, Chain
<1>5. /\ Chain(SubSeq(Walk, 2, Len(Walk)), last_client', before')
      /\ Elements(SubSeq(Walk, 2, Len(Walk))) = Listed \ {c}
  BY <1>1, <1>3, <1>4, ChainNewestLeft DEF Listed
<1>6. /\ Walk' = SubSeq(Walk, 2, Len(Walk)) /\ Listed' = Listed \ {c}
      /\ Chain(Walk, last_client, before)'
  BY <1>5, WalkAfter
<1>7. \A d \in Cells : thr'[d] = IF d = c THEN "cut" ELSE thr[d]
  BY <1>1 DEF TypeOK
<1>8. OneAtATime'
  BY <1>1, <1>2, <1>7 DEF OneAtATime, Leaving, Adding
<1>9. Membership'
  <2>1. mine # c
    BY <1>1, <1>2 DEF Membership
  <2> QED
    BY <1>1, <1>2, <1>6, <1>7, <2>1 DEF Membership, Adding
<1>10. Allocation'
  BY <1>1, <1>2, <1>6, <1>7 DEF Allocation
<1>11. /\ Len(Walk') = Len(Walk) - 1
       /\ \A i \in 1..Len(Walk') : i + 1 \in 1..Len(Walk) /\ Walk'[i] = Walk[i + 1]
  BY <1>4, <1>6, NewestLeftPlaces
<1>12. Forward'
  <2>1. ASSUME NEW i \in 2..Len(Walk') PROVE next[Walk'[i]] = Walk'[i - 1]
    <3>1. /\ i \in 1..Len(Walk') /\ i - 1 \in 1..Len(Walk')
          /\ (i - 1) + 1 = i /\ (i + 1) - 1 = i /\ i + 1 \in 2..Len(Walk)
      BY <1>4, <1>11
    <3>2. next[Walk[i + 1]] = Walk[i]
      BY <1>2, <3>1 DEF Forward
    <3> QED
      BY <1>11, <3>1, <3>2
  <2>2. ASSUME Walk' # <<>> PROVE next[last_client'] = c
    <3>1. last_client' = Walk'[1] /\ 1 \in 1..Len(Walk') /\ 2 \in 2..Len(Walk)
      BY <1>4, <1>6, <1>11, <2>2 DEF Chain
    <3>2. next[Walk[2]] = Walk[1] /\ Walk'[1] = Walk[2]
      BY <1>2, <1>11, <3>1 DEF Forward
    <3> QED
      BY <1>3, <1>4, <3>1, <3>2 DEF Chain
  <2> QED
    BY <1>1, <1>2, <1>7, <2>1, <2>2 DEF Forward, Adding
<1>13. InProgress'
  <2>1. Walk' # <<>>
    BY <1>1, <1>6 DEF Chain
  <2> QED
    BY <1>1, <1>2, <1>7, <2>1 DEF InProgress, Adding
<1>14. ~misuse'
  BY <1>1, <1>2, WellUsed
<1> QED
  BY <1>4, <1>6, <1>8, <1>9, <1>10, <1>12, <1>13, <1>14

LEMMA LastThreadNextKeeps ==
  ASSUME TypeOK, Calm, CalmInv, NEW c \in Cells, TLastNext(c)
  PROVE  CalmInv' /\ Walk' = Walk
<1> USE DEF CalmInv
<1>1. /\ thr[c] = "cut" /\ SetNext(before[c], Null) /\ Uses(before[c])
      /\ thr' = [thr EXCEPT ![c] = "free"]
      /\ UNCHANGED <<last_client, before, heap, open, main, mine, handler, tmp>>
  BY DEF TLastNext, TGoto, TSteps
<1>2. /\ handler = "idle" /\ ~Adding /\ c \notin Listed /\ c \in heap
      /\ \A d \in Cells : d # c => thr[d] \in {"none", "run"}
  BY <1>1, AloneLeaving DEF Leaving
<1>3. Walk # <<>> /\ before[c] = last_client
  BY <1>1, <1>2 DEF InProgress
<1>4. /\ Walk \in Seq(Cells) /\ Len(Walk) \in Nat /\ 1 \in 1..Len(Walk)
      /\ last_client = Walk[1]
      /\ last_client \in Listed /\ last_client \in Cells /\ last_client # Null
  BY <1>3, ClientListAssumption DEF Chain, Listed, Elements
<1>5. Walk' = Walk /\ Listed' = Listed /\ Chain(Walk, last_client, before)'
  BY <1>1, SameWalk
<1>6. next' = [next EXCEPT ![last_client] = Null]
  BY <1>1, <1>3, <1>4 DEF SetNext
<1>7. \A d \in Cells : thr'[d] = IF d = c THEN "free" ELSE thr[d]
  BY <1>1 DEF TypeOK
<1>8. OneAtATime'
  BY <1>1, <1>2, <1>7 DEF OneAtATime, Leaving, Adding
<1>9. Membership'
  <2>1. mine # c
    BY <1>1, <1>2 DEF Membership
  <2> QED
    BY <1>1, <1>2, <1>5, <1>7, <2>1 DEF Membership, Adding
<1>10. Allocation'
  BY <1>1, <1>2, <1>5, <1>7 DEF Allocation
<1>11. Forward'
  <2>1. \A i \in 2..Len(Walk) : i \in 1..Len(Walk) /\ Walk[i] # last_client
    BY <1>4 DEF Chain
  <2>2. \A i \in 2..Len(Walk) : next'[Walk[i]] = next[Walk[i]]
    BY <1>4, <1>6, <2>1 DEF TypeOK
  <2>3. next'[last_client] = Null
    BY <1>4, <1>6 DEF TypeOK
  <2> QED
    BY <1>1, <1>2, <1>5, <1>7, <2>2, <2>3 DEF Forward, Adding
<1>12. InProgress'
  BY <1>1, <1>2, <1>7 DEF InProgress, Adding
<1>13. ~misuse'
  <2>1. last_client \in heap
    BY <1>2, <1>4 DEF Allocation
  <2> QED
    BY <1>1, <1>3, <2>1, WellUsed
<1> QED
  BY <1>5, <1>8, <1>9, <1>10, <1>11, <1>12, <1>13

LEMMA FirstThreadKeeps ==
  ASSUME TypeOK, Calm, CalmInv, NEW c \in Cells, TFirst(c)
  PROVE  /\ CalmInv'
         /\ Walk # <<>> /\ Walk' = SubSeq(Walk, 1, Len(Walk) - 1)
<1> USE DEF CalmInv
<1>1. /\ thr[c] = "unlink" /\ next[c] # Null /\ before[c] = Null
      /\ SetBefore(next[c], Null) /\ Uses(next[c])
      /\ thr' = [thr EXCEPT ![c] = "free"]
      /\ UNCHANGED <<last_client, next, heap, open, main, mine, handler, tmp>>
  BY DEF TFirst, TGoto, TSteps
<1>2. /\ handler = "idle" /\ ~Adding /\ c \in heap /\ c \in Listed
      /\ \A d \in Cells : d # c => thr[d] \in {"none", "run"}
  BY <1>1, AloneLeaving DEF Leaving
<1>3. PICK i \in 2..Len(Walk) : Walk[i] = c /\ next[c] = Walk[i - 1]
  BY <1>1, NextOfLeaver
<1>4. /\ Walk \in Seq(Cells) /\ Len(Walk) \in Nat /\ Len(Walk) >= 1 /\ Walk # <<>>
      /\ c = Walk[Len(Walk)]
  <2>1. Walk \in Seq(Cells)
    BY DEF Chain
  <2>2. /\ Walk # <<>> /\ Len(Walk) \in Nat /\ Len(Walk) >= 1
        /\ before[c] = Null <=> c = Walk[Len(Walk)]
    BY <1>2, ChainEnds DEF Listed
  <2> QED
    BY <1>1, <2>1, <2>2
<1>5. Len(Walk) > 1 /\ Len(Walk) \in 1..Len(Walk) /\ i \in 1..Len(Walk)
  BY <1>3, <1>4
<1>6. i = Len(Walk)
  BY <1>3, <1>4, <1>5 DEF Chain
<1>7. next[c] = Walk[Len(Walk) - 1] /\ Len(Walk) - 1 \in 1..Len(Walk)
  BY <1>3, <1>4, <1>5, <1>6
<1>8. next[c] \in Listed /\ next[c] \in Cells
  BY <1>4, <1>7 DEF Listed, Elements
<1>9. before' = [before EXCEPT ![next[c]] = Null]
  BY <1>1 DEF SetBefore
<1>10. /\ Chain(SubSeq(Walk, 1, Len(Walk) - 1), last_client', before')
       /\ Elements(SubSeq(Walk, 1, Len(Walk) - 1)) = Listed \ {c}
  <2>1. Chain(Walk, last_client', before)
    BY <1>1
  <2>2. before \in [Cells -> Address]
    BY DEF TypeOK
  <2> QED
    BY <1>4, <1>5, <1>7, <1>9, <2>1, <2>2, ChainOldestLeft DEF Listed
<1>11. /\ Walk' = SubSeq(Walk, 1, Len(Walk) - 1) /\ Listed' = Listed \ {c}
       /\ Chain(Walk, last_client, before)'
  BY <1>10, WalkAfter
<1>12. \A d \in Cells : thr'[d] = IF d = c THEN "free" ELSE thr[d]
  BY <1>1 DEF TypeOK
<1>13. OneAtATime'
  BY <1>1, <1>2, <1>12 DEF OneAtATime, Leaving, Adding
<1>14. Membership'
  <2>1. mine # c
    BY <1>1, <1>2 DEF Membership
  <2> QED
    BY <1>1, <1>2, <1>11, <1>12, <2>1 DEF Membership, Adding
<1>15. Allocation'
  BY <1>1, <1>2, <1>11, <1>12 DEF Allocation
<1>16. Forward'
  <2>1. /\ Len(Walk') = Len(Walk) - 1
        /\ \A j \in 1..Len(Walk') : j \in 1..Len(Walk) /\ Walk'[j] = Walk[j]
    BY <1>4, <1>5, <1>11, OldestLeftPlaces
  <2>2. ASSUME NEW j \in 2..Len(Walk') PROVE next[Walk'[j]] = Walk'[j - 1]
    <3>1. j \in 1..Len(Walk') /\ j - 1 \in 1..Len(Walk') /\ j \in 2..Len(Walk)
      BY <1>4, <2>1
    <3> QED
      BY <1>2, <2>1, <3>1 DEF Forward
  <2>3. next[last_client] = Null
    BY <1>1, <1>2, <1>4 DEF Forward, Adding
  <2> QED
    BY <1>1, <1>2, <1>12, <2>2, <2>3 DEF Forward, Adding
<1>17. InProgress'
  BY <1>1, <1>2, <1>12 DEF InProgress, Adding
<1>18. ~misuse'
  <2>1. next[c] \in heap
    BY <1>2, <1>8 DEF Allocation
  <2> QED
    BY <1>1, <2>1, WellUsed
<1> QED
  BY <1>4, <1>11, <1>13, <1>14, <1>15, <1>16, <1>17, <1>18

LEMMA OnlyThreadKeeps ==
  ASSUME TypeOK, Calm, CalmInv, NEW c \in Cells, TOnly(c)
  PROVE  /\ CalmInv'
         /\ Len(Walk) = 1 /\ Walk' = <<>>
<1> USE DEF CalmInv
<1>1. /\ thr[c] = "unlink" /\ next[c] = Null /\ before[c] = Null
      /\ last_client' = Null /\ Uses(c)
      /\ thr' = [thr EXCEPT ![c] = "free"]
      /\ UNCHANGED <<next, before, heap, open, main, mine, handler, tmp>>
  BY DEF TOnly, TGoto, TSteps
<1>2. /\ handler = "idle" /\ ~Adding /\ c \in heap /\ c \in Listed
      /\ \A d \in Cells : d # c => thr[d] \in {"none", "run"}
  BY <1>1, AloneLeaving DEF Leaving
<1>3. c = last_client
  BY <1>1, NextOfLeaver
<1>4. /\ Walk \in Seq(Cells) /\ Len(Walk) \in Nat /\ Len(Walk) >= 1
      /\ c = Walk[Len(Walk)] /\ c = Walk[1]
  <2>1. Walk \in Seq(Cells)
    BY DEF Chain
  <2>2. /\ Walk # <<>> /\ Len(Walk) \in Nat /\ Len(Walk) >= 1
        /\ last_client = Walk[1]
        /\ before[c] = Null <=> c = Walk[Len(Walk)]
    BY <1>2, ChainEnds DEF Listed
  <2> QED
    BY <1>1, <1>3, <2>1, <2>2
<1>5. Len(Walk) = 1
  <2>1. 1 \in 1..Len(Walk) /\ Len(Walk) \in 1..Len(Walk)
    BY <1>4
  <2> QED
    BY <1>4, <2>1 DEF Chain
<1>6. Listed = {c}
  <2>1. \A i \in 1..Len(Walk) : i = 1
    BY <1>5
  <2> QED
    BY <1>2, <1>4, <2>1 DEF Listed, Elements
<1>7. Chain(<<>>, last_client', before') /\ Elements(<<>>) = {}
  BY <1>1 DEF Chain, Elements
<1>8. Walk' = <<>> /\ Listed' = {} /\ Chain(Walk, last_client, before)'
  BY <1>7, WalkAfter
<1>9. \A d \in Cells : thr'[d] = IF d = c THEN "free" ELSE thr[d]
  BY <1>1 DEF TypeOK
<1>10. OneAtATime'
  BY <1>1, <1>2, <1>9 DEF OneAtATime, Leaving, Adding
<1>11. Membership'
  <2>1. mine # c
    BY <1>1, <1>2 DEF Membership
  <2> QED
    BY <1>1, <1>2, <1>6, <1>8, <1>9, <2>1 DEF Membership, Adding
<1>12. Allocation'
  BY <1>1, <1>2, <1>6, <1>8, <1>9 DEF Allocation
<1>13. Forward'
  <2>1. \A j \in 2..Len(Walk') : FALSE
    BY <1>8
  <2> QED
    BY <1>8, <2>1 DEF Forward
<1>14. InProgress'
  BY <1>1, <1>2, <1>9 DEF InProgress, Adding
<1>15. ~misuse'
  BY <1>1, <1>2, WellUsed
<1> QED
  BY <1>5, <1>8, <1>10, <1>11, <1>12, <1>13, <1>14, <1>15

LEMMA FreeKeeps ==
  ASSUME TypeOK, Calm, CalmInv, NEW c \in Cells, TFree(c)
  PROVE  CalmInv' /\ Walk' = Walk
<1> USE DEF CalmInv
<1>1. /\ thr[c] = "free" /\ heap' = heap \ {c} /\ Uses(c)
      /\ next' = [next EXCEPT ![c] = Null] /\ before' = [before EXCEPT ![c] = Null]
      /\ thr' = [thr EXCEPT ![c] = "none"]
      /\ UNCHANGED <<last_client, open, main, mine, handler, tmp>>
  BY ClientListAssumption DEF TFree, TGoto, Free, SetNext, SetBefore
<1>2. /\ handler = "idle" /\ ~Adding /\ c \in heap /\ c \notin Listed
      /\ \A d \in Cells : d # c => thr[d] \in {"none", "run"}
  BY <1>1, AloneLeaving DEF Leaving
<1>3. Walk' = Walk /\ Listed' = Listed /\ Chain(Walk, last_client, before)'
  BY <1>1, <1>2, WalkElsewhere
<1>4. \A d \in Cells : thr'[d] = IF d = c THEN "none" ELSE thr[d]
  BY <1>1 DEF TypeOK
<1>5. mine # c
  BY <1>1, <1>2 DEF Membership
<1>6. OneAtATime'
  BY <1>1, <1>2, <1>4 DEF OneAtATime, Leaving, Adding
<1>7. Membership'
  BY <1>1, <1>2, <1>3, <1>4, <1>5 DEF Membership, Adding
<1>8. Allocation'
  BY <1>1, <1>2, <1>3, <1>4, <1>5 DEF Allocation
<1>9. Forward'
  <2>1. \A i \in 1..Len(Walk) : Walk[i] # c
    BY <1>2 DEF Listed, Elements
  <2>2. \A i \in 2..Len(Walk) : next'[Walk[i]] = next[Walk[i]]
    <3>1. \A i \in 2..Len(Walk) : i \in 1..Len(Walk) /\ Walk[i] \in Cells
      BY DEF Chain
    <3> QED
      BY <1>1, <2>1, <3>1 DEF TypeOK
  <2>3. Walk # <<>> => last_client # c /\ last_client \in Cells
    <3>1. Walk # <<>> => 1 \in 1..Len(Walk) /\ last_client = Walk[1]
                         /\ Walk[1] \in Cells
      BY DEF Chain
    <3> QED
      BY <2>1, <3>1
  <2>4. Walk # <<>> => next'[last_client] = next[last_client]
    BY <1>1, <2>3 DEF TypeOK
  <2> QED
    BY <1>1, <1>2, <1>3, <1>4, <2>2, <2>4 DEF Forward, Adding
<1>10. InProgress'
  BY <1>1, <1>2, <1>4 DEF InProgress, Adding
<1>11. ~misuse'
  BY <1>1, <1>2, WellUsed
<1> QED
  BY <1>3, <1>6, <1>7, <1>8, <1>9, <1>10, <1>11

\* Nobody in the middle of the list takes himself out.
LEMMA NoMiddle ==
  ASSUME TypeOK, Calm, CalmInv, NEW c \in Cells
  PROVE  ~TMiddle(c) /\ ~TMiddleBefore(c)
  BY DEF CalmInv, InProgress, OneAtATime, TMiddle, TMiddleBefore

-----------------------------------------------------------------------------
(***************************************************************************)
(* signal_handler, one operation at a time                                 *)
(***************************************************************************)
LEMMA BeginKeeps ==
  ASSUME TypeOK, Calm, CalmInv, HBegin
  PROVE  CalmInv' /\ Walk' = Walk
<1> USE DEF CalmInv
<1>1. /\ handler = "idle" /\ handler' = "walk"
      /\ UNCHANGED <<last_client, next, before, heap, open, main, mine, thr, tmp,
                     misuse>>
  BY DEF HBegin, pointers
<1>2. \A c \in Cells : ~Leaving(c) /\ thr[c] \in {"none", "run"}
  BY DEF HBegin, Calm, NobodyLeaves, Leaving
<1>3. Walk' = Walk /\ Listed' = Listed /\ Chain(Walk, last_client, before)'
  BY <1>1, SameWalk
<1>4. OneAtATime'
  BY <1>1, <1>2 DEF OneAtATime, Leaving, Adding
<1>5. Listed \subseteq Cells
  BY DEF Listed, Elements, Chain
<1>6. open \subseteq Listed \cup InHand /\ Listed \cap InHand = {}
  BY <1>1, <1>2, <1>5 DEF Membership, TypeOK, InHand, Adding
<1>7. Membership'
  BY <1>1, <1>3, <1>6 DEF Membership, InHand
<1>8. Allocation'
  <2>1. main = "create" => mine \in Listed
    BY <1>1 DEF Membership, TypeOK, Address
  <2>2. heap = Listed \cup InHand
    BY <1>1, <1>2, <1>5, <2>1 DEF Allocation, InHand, TypeOK
  <2> QED
    BY <1>1, <1>3, <2>2 DEF Allocation, InHand
<1>9. Forward'
  BY <1>1 DEF Forward
<1>10. InProgress'
  BY <1>1, <1>2 DEF InProgress, Leaving
<1> QED
  BY <1>1, <1>3, <1>4, <1>7, <1>8, <1>9, <1>10

LEMMA TakeKeeps ==
  ASSUME TypeOK, Calm, CalmInv, HTake
  PROVE  /\ CalmInv'
         /\ \/ Walk # <<>> /\ Walk' = SubSeq(Walk, 2, Len(Walk))
            \/ Walk' = Walk
<1> USE DEF CalmInv
<1>1. /\ handler = "walk" /\ last_client # Null
      /\ open' = open \ {last_client} /\ Uses(last_client)
      /\ tmp' = last_client
      /\ handler' = IF before[last_client] = Null THEN "done" ELSE "free"
      /\ last_client' = IF before[last_client] = Null THEN last_client
                        ELSE before[last_client]
      /\ UNCHANGED <<next, before, heap, main, mine, thr>>
  BY DEF HTake
<1>2. /\ Walk # <<>> /\ Walk \in Seq(Cells) /\ Len(Walk) \in Nat
      /\ last_client = Walk[1] /\ last_client \in Listed /\ last_client \in Cells
  BY <1>1 DEF Chain, Listed, Elements
<1>3. /\ heap = Listed \cup InHand /\ open \subseteq Listed \cup InHand
      /\ Listed \cap InHand = {} /\ InHand' = InHand
      /\ \A c \in Cells : ~Leaving(c)
  BY <1>1 DEF Allocation, Membership, OneAtATime, InHand
<1>4. ~misuse'
  BY <1>1, <1>2, <1>3, WellUsed
<1>5. /\ handler' # "idle"
      /\ \A c \in Cells : thr[c] # "cut" /\ thr[c] # "unlink"
  BY <1>1, <1>3 DEF Leaving
<1>6. OneAtATime' /\ Forward' /\ InProgress'
  BY <1>1, <1>3, <1>5 DEF OneAtATime, Leaving, Forward, InProgress
<1>7. CASE before[last_client] = Null
  <2>1. Walk' = Walk /\ Listed' = Listed /\ Chain(Walk, last_client, before)'
    BY <1>1, <1>7, SameWalk
  <2>2. Len(Walk) = 1
    <3>1. 1 \in 1..Len(Walk) /\ Len(Walk) \in 1..Len(Walk)
      BY <1>2
    <3>2. last_client = Walk[Len(Walk)]
      BY <1>2, <1>7, ChainEnds DEF Listed
    <3> QED
      BY <1>2, <3>1, <3>2 DEF Chain
  <2>3. Walk = <<last_client>>
    BY <1>2, <2>2
  <2>4. Listed = {last_client}
    BY <2>3 DEF Listed, Elements
  <2>5. Membership'
    BY <1>1, <1>3, <1>7, <2>1, <2>4 DEF Membership
  <2>6. Allocation'
    BY <1>1, <1>2, <1>3, <1>7, <2>1, <2>3, <2>4 DEF Allocation
  <2> QED
    BY <1>4, <1>6, <2>1, <2>5, <2>6
<1>8. CASE before[last_client] # Null
  <2>1. /\ Chain(SubSeq(Walk, 2, Len(Walk)), last_client', before')
        /\ Elements(SubSeq(Walk, 2, Len(Walk))) = Listed \ {last_client}
    BY <1>1, <1>2, <1>8, ChainNewestLeft DEF Listed
  <2>2. /\ Walk' = SubSeq(Walk, 2, Len(Walk)) /\ Listed' = Listed \ {last_client}
        /\ Chain(Walk, last_client, before)'
    BY <2>1, WalkAfter
  <2>3. Membership'
    BY <1>1, <1>3, <1>8, <2>2 DEF Membership
  <2>4. Allocation'
    BY <1>1, <1>2, <1>3, <1>8, <2>2 DEF Allocation
  <2> QED
    BY <1>2, <1>4, <1>6, <2>2, <2>3, <2>4
<1> QED
  BY <1>7, <1>8

LEMMA FreeTakenKeeps ==
  ASSUME TypeOK, Calm, CalmInv, HFree
  PROVE  CalmInv' /\ Walk' = Walk
<1> USE DEF CalmInv
<1>1. /\ handler = "free" /\ tmp \in Cells /\ tmp \notin Listed \cup InHand
      /\ heap = Listed \cup InHand \cup {tmp}
      /\ \A c \in Cells : ~Leaving(c)
  BY DEF HFree, Allocation, OneAtATime
<1>2. /\ handler' = "walk" /\ heap' = heap \ {tmp} /\ Uses(tmp)
      /\ before' = [before EXCEPT ![tmp] = Null]
      /\ UNCHANGED <<last_client, open, main, mine, thr, tmp, InHand>>
  BY <1>1, ClientListAssumption DEF HFree, Free, SetBefore, InHand
<1>3. Walk' = Walk /\ Listed' = Listed /\ Chain(Walk, last_client, before)'
  BY <1>1, <1>2, WalkElsewhere
<1>4. ~misuse'
  BY <1>1, <1>2, WellUsed
<1>5. OneAtATime' /\ Forward' /\ InProgress'
  BY <1>1, <1>2 DEF OneAtATime, Leaving, Adding, Forward, InProgress
<1>6. Membership'
  BY <1>1, <1>2, <1>3 DEF Membership
<1>7. Allocation'
  BY <1>1, <1>2, <1>3 DEF Allocation
<1> QED
  BY <1>3, <1>4, <1>5, <1>6, <1>7

LEMMA ExitKeeps ==
  ASSUME TypeOK, Calm, CalmInv, HExit
  PROVE  CalmInv' /\ Walk' = Walk
<1> USE DEF CalmInv
<1>1. /\ handler \in {"walk", "done"} /\ handler' = "gone"
      /\ UNCHANGED <<last_client, open, main, mine, thr, tmp, InHand>>
      /\ \A c \in Cells : ~Leaving(c)
      /\ Listed \cap InHand = {}
  BY DEF HExit, OneAtATime, Membership, InHand
<1>2. OneAtATime' /\ Forward' /\ InProgress'
  BY <1>1 DEF OneAtATime, Leaving, Adding, Forward, InProgress
<1>3. CASE handler = "done"
  <2>1. /\ tmp \in Cells /\ tmp \notin InHand /\ Walk = <<tmp>> /\ heap = InHand \cup {tmp}
        /\ open \subseteq InHand
    BY <1>3 DEF Allocation, Membership
  <2>2. heap' = heap \ {tmp} /\ Uses(tmp) /\ before' = [before EXCEPT ![tmp] = Null]
    BY <1>3, <2>1, ClientListAssumption DEF HExit, Free, SetBefore
  <2>3. before[tmp] = Null
    <3>1. Len(Walk) = 1 /\ Walk[1] = tmp /\ 1 \in 1..Len(Walk)
      BY <2>1
    <3> QED
      BY <3>1 DEF Chain
  <2>4. before' = before
    BY <2>1, <2>2, <2>3 DEF TypeOK
  <2>5. Walk' = Walk /\ Listed' = Listed /\ Chain(Walk, last_client, before)'
    BY <1>1, <2>4, SameWalk
  <2>6. ~misuse'
    BY <2>1, <2>2, WellUsed
  <2>7. Membership' /\ Allocation'
    BY <1>1, <2>1, <2>2, <2>5 DEF Membership, Allocation
  <2> QED
    BY <1>2, <2>5, <2>6, <2>7
<1>4. CASE handler = "walk"
  <2>1. last_client = Null /\ UNCHANGED <<before, heap, misuse>>
    BY <1>4 DEF HExit
  <2>2. Walk' = Walk /\ Listed' = Listed /\ Chain(Walk, last_client, before)'
    BY <1>1, <2>1, SameWalk
  <2>3. Listed = {}
    <3>1. Walk = <<>>
      BY <2>1, ClientListAssumption DEF Chain
    <3> QED
      BY <3>1 DEF Listed, Elements
  <2>4. open \subseteq InHand /\ heap \subseteq InHand
    BY <1>4, <2>3 DEF Membership, Allocation
  <2>5. Membership' /\ Allocation'
    BY <1>1, <2>1, <2>2, <2>4 DEF Membership, Allocation
  <2> QED
    BY <1>2, <2>1, <2>2, <2>5
<1> QED
  BY <1>1, <1>3, <1>4

-----------------------------------------------------------------------------
(***************************************************************************)
(* What holds of the list as long as one operation at a time is done on it *)
(***************************************************************************)
LEMMA InputsStay == Next => UNCHANGED inputs
  BY DEF Next, MMalloc, MAccept, MLink, MLast, MCreate, TClose, TMiddle,
         TMiddleBefore, TLast, TLastNext, TFirst, TOnly, TFree, TSteps, HBegin,
         HTake, HFree, HExit

\* A step that is not main's or signal_handler's is one of a thread that ends.
LEMMA ThreadKeeps ==
  ASSUME TypeOK, Calm, CalmInv, NEW c \in Cells,
         TClose(c) \/ TMiddle(c) \/ TMiddleBefore(c) \/ TLast(c) \/ TLastNext(c)
           \/ TFirst(c) \/ TOnly(c) \/ TFree(c)
  PROVE  /\ CalmInv'
         /\ \/ Walk' = Walk
            \/ Walk # <<>> /\ Walk' = SubSeq(Walk, 2, Len(Walk))
            \/ Walk # <<>> /\ Walk' = SubSeq(Walk, 1, Len(Walk) - 1)
            \/ Len(Walk) = 1 /\ Walk' = <<>>
  BY CloseKeeps, NoMiddle, LastThreadKeeps, LastThreadNextKeeps, FirstThreadKeeps,
     OnlyThreadKeeps, FreeKeeps

\* Every step keeps the invariant, and the list changes by one element at most.
LEMMA StepKeeps ==
  ASSUME TypeOK, Calm, CalmInv, Next
  PROVE  /\ CalmInv'
         /\ \/ Walk' = Walk
            \/ \E m \in Cells : m \notin Listed /\ Walk' = <<m>> \o Walk
            \/ Walk # <<>> /\ Walk' = SubSeq(Walk, 2, Len(Walk))
            \/ Walk # <<>> /\ Walk' = SubSeq(Walk, 1, Len(Walk) - 1)
            \/ Len(Walk) = 1 /\ Walk' = <<>>
<1>1. CASE MMalloc \/ MAccept \/ MLink \/ MCreate
  BY <1>1, MallocKeeps, AcceptKeeps, LinkKeeps, CreateKeeps
<1>2. CASE MLast
  BY <1>2, LastKeeps
<1>3. CASE HBegin \/ HTake \/ HFree \/ HExit
  BY <1>3, BeginKeeps, TakeKeeps, FreeTakenKeeps, ExitKeeps
<1>4. ASSUME NEW c \in Cells,
             TClose(c) \/ TMiddle(c) \/ TMiddleBefore(c) \/ TLast(c) \/ TLastNext(c)
               \/ TFirst(c) \/ TOnly(c) \/ TFree(c)
      PROVE  /\ CalmInv'
             /\ \/ Walk' = Walk
                \/ Walk # <<>> /\ Walk' = SubSeq(Walk, 2, Len(Walk))
                \/ Walk # <<>> /\ Walk' = SubSeq(Walk, 1, Len(Walk) - 1)
                \/ Len(Walk) = 1 /\ Walk' = <<>>
  BY <1>4, ThreadKeeps
<1> QED
  BY <1>1, <1>2, <1>3, <1>4 DEF Next

LEMMA ListKept == Spec => []ListInv
<1>1. TypeOK /\ ListInv /\ [Next]_vars => ListInv'
  <2> SUFFICES ASSUME TypeOK, ListInv, [Next]_vars, Calm' PROVE CalmInv'
    BY DEF ListInv
  <2>1. Calm
    BY InputsStay DEF Calm, inputs, vars
  <2>2. CalmInv
    BY <2>1 DEF ListInv
  <2>3. CASE Next
    BY <2>1, <2>2, <2>3, StepKeeps
  <2>4. CASE UNCHANGED vars
    <3>1. Walk' = Walk /\ Listed' = Listed /\ Chain(Walk, last_client, before)'
      BY <2>2, <2>4, SameWalk DEF vars, pointers, CalmInv
    <3> QED
      BY <2>2, <2>4, <3>1
         DEF vars, pointers, CalmInv, OneAtATime, Leaving, Adding, Membership,
             Allocation, InHand, Forward, InProgress, IsMiddle
  <2> QED
    BY <2>3, <2>4
<1> QED
  BY <1>1, InitListInv, ListTyped, PTL DEF Spec

LEMMA StaysCalm ==
  ASSUME InTurn
  PROVE  Spec => []Calm
<1>1. Init => Calm
  BY DEF Init, Calm, InTurn
<1>2. Calm /\ [Next]_vars => Calm'
  BY InputsStay DEF Calm, inputs, vars
<1> QED
  BY <1>1, <1>2, PTL DEF Spec

\* If operations on the list do not overlap and only the oldest or the newest
\* thread ends, then main, the threads that end and signal_handler never touch a
\* client_info that has been freed, wherever main is when the signal comes
\* (server.c, 139-153, 168-186, 560-572).
THEOREM NobodyUsesFreedClients ==
  ASSUME InTurn
  PROVE  Spec => []NoMisuse
<1>1. Calm /\ ListInv => NoMisuse
  BY DEF ListInv, CalmInv, NoMisuse
<1> QED
  BY <1>1, ListKept, StaysCalm, PTL

\* Under the same hypothesis the list holds, between operations, exactly the
\* clients whose threads run, each once, and is linked in both directions
\* (server.c, 168-186, 560-568).
THEOREM ListHoldsTheLiving ==
  ASSUME InTurn
  PROVE  Spec => []ListsTheLiving
<1>1. TypeOK /\ Calm /\ ListInv => ListsTheLiving
  <2> SUFFICES ASSUME TypeOK, CalmInv, Quiet
               PROVE  /\ {Walk[i] : i \in 1..Len(Walk)} = Living
                      /\ Len(Walk) = Cardinality(Living)
                      /\ \A i \in 1..Len(Walk) :
                           next[Walk[i]] = IF i = 1 THEN Null ELSE Walk[i - 1]
    BY DEF ListInv, ListsTheLiving
  <2>1. /\ main \in {"malloc", "accept"} /\ main # "create" /\ main # "last"
        /\ handler = "idle" /\ \A c \in Cells : thr[c] # "unlink" /\ thr[c] # "cut"
    BY DEF Quiet, NobodyLeaves
  <2>2. Listed \subseteq Cells
    BY DEF CalmInv, Listed, Elements, Chain
  <2>3. Listed = Living
    BY <2>1, <2>2 DEF CalmInv, Membership, Living
  <2>4. Len(Walk) = Cardinality(Living)
    BY <2>3, ChainLength DEF CalmInv, Listed
  <2>5. ASSUME NEW i \in 1..Len(Walk)
        PROVE  next[Walk[i]] = IF i = 1 THEN Null ELSE Walk[i - 1]
    <3>1. Len(Walk) \in Nat /\ Walk # <<>> /\ last_client = Walk[1]
      BY DEF CalmInv, Chain
    <3>2. i = 1 \/ i \in 2..Len(Walk)
      BY <3>1
    <3> QED
      BY <2>1, <3>1, <3>2 DEF CalmInv, Forward
  <2> QED
    BY <2>3, <2>4, <2>5 DEF Listed, Elements
<1> QED
  BY <1>1, ListTyped, ListKept, StaysCalm, PTL

\* Under the same hypothesis signal_handler, when it exits, has closed the
\* sockets of every client and freed every element, however many there were,
\* but for one client that main has not put into the list yet (server.c,
\* 139-153).
THEOREM ExitLeavesNothingOpen ==
  ASSUME InTurn
  PROVE  Spec => []NothingLeftOpen
<1>1. Calm /\ ListInv => NothingLeftOpen
  BY DEF ListInv, CalmInv, NothingLeftOpen, Membership, Allocation
<1> QED
  BY <1>1, ListKept, StaysCalm, PTL

\* Under the same hypothesis the pointers implement the list they stand for: a
\* client enters in front, an element leaves from where it is, and the others
\* stay in their order (server.c, 139-153, 168-186, 560-568).
THEOREM ListImplementsRoster ==
  ASSUME InTurn
  PROVE  Spec => ChangesLikeARoster
<1>1. Init => Walk = <<>>
  <2> SUFFICES ASSUME Init PROVE Walk = <<>>
    OBVIOUS
  <2>1. Chain(<<>>, last_client, before)
    BY DEF Init, Chain
  <2> QED
    BY <2>1, WalkIsTheChain DEF Walk
<1>2. TypeOK /\ Calm /\ ListInv /\ [Next]_vars => [ListOf!Next]_Walk
  <2> SUFFICES ASSUME TypeOK, Calm, ListInv, [Next]_vars
               PROVE  Walk' = Walk \/ ListOf!Next
    OBVIOUS
  <2>3. CASE UNCHANGED vars
    BY <2>3 DEF vars, pointers, Walk
  <2>4. CASE Next
    <3>1. CalmInv
      BY DEF ListInv
    <3>3. Walk \in Seq(Cells) /\ Len(Walk) \in Nat
      BY <3>1 DEF CalmInv, Chain
    <3>4. ASSUME NEW m \in Cells, m \notin Listed, Walk' = <<m>> \o Walk
          PROVE  ListOf!Next
      <4>1. \A i \in 1..Len(Walk) : Walk[i] # m
        BY <3>4 DEF Listed, Elements
      <4>2. ListOf!Join(m)
        BY <3>4, <4>1 DEF ListOf!Join
      <4> QED
        BY <4>2 DEF ListOf!Next
    <3>5. CASE Walk # <<>> /\ Walk' = SubSeq(Walk, 2, Len(Walk))
      <4>1. 1 \in 1..Len(Walk)
        BY <3>3, <3>5
      <4>2. ListOf!Leave(1)
        BY <3>3, <3>5 DEF ListOf!Leave
      <4> QED
        BY <4>1, <4>2 DEF ListOf!Next
    <3>6. CASE Walk # <<>> /\ Walk' = SubSeq(Walk, 1, Len(Walk) - 1)
      <4>1. Len(Walk) \in 1..Len(Walk)
        BY <3>3, <3>6
      <4>2. SubSeq(Walk, Len(Walk) + 1, Len(Walk)) = <<>>
        <5>1. Len(Walk) + 1 \in Int /\ Len(Walk) \in Int /\ Len(Walk) < Len(Walk) + 1
          BY <3>3
        <5> QED
          BY <5>1, SubSeqEmpty
      <4>3. SubSeq(Walk, 1, Len(Walk) - 1) \in Seq(Cells)
        BY <3>3, <4>1, SubSeqProperties
      <4>4. SubSeq(Walk, 1, Len(Walk) - 1) \o <<>> = SubSeq(Walk, 1, Len(Walk) - 1)
        BY <4>3, ConcatEmptySeq
      <4>5. ListOf!Leave(Len(Walk))
        BY <3>6, <4>2, <4>4 DEF ListOf!Leave
      <4> QED
        BY <4>1, <4>5 DEF ListOf!Next
    <3>7. CASE Len(Walk) = 1 /\ Walk' = <<>>
      <4>1. SubSeq(Walk, 1, 1 - 1) = <<>> /\ SubSeq(Walk, 1 + 1, 1) = <<>>
        BY SubSeqEmpty
      <4>2. <<>> \o <<>> = <<>>
        BY EmptySeq, ConcatEmptySeq
      <4>3. ListOf!Leave(1)
        BY <3>7, <4>1, <4>2 DEF ListOf!Leave
      <4> QED
        BY <3>7, <4>3 DEF ListOf!Next
    <3> QED
      BY <2>4, <3>1, <3>4, <3>5, <3>6, <3>7, StepKeeps
  <2> QED
    BY <2>3, <2>4
<1> QED
  BY <1>1, <1>2, ListTyped, ListKept, StaysCalm, PTL
     DEF Spec, ChangesLikeARoster, ListOf!Spec, ListOf!Init
=============================================================================
