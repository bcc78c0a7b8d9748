------------------------- MODULE PacketNetworkProofs -------------------------
(*****************************************************************************)
(* Proofs about PacketNetwork, for any messages, sizes of packets and        *)
(* frames, number of packet ids and frames lost.                             *)
(*****************************************************************************)
EXTENDS PacketNetwork, NaturalOrder, SequenceTheorems

------------------------------------------------------------------------------
(* The loops of SLIP.h over the bytes of a message.                          *)

Counts == [width : Nat, count : Nat \ {0}]

\* One turn of the loop of packetCount(), when g says what it has counted before.
CountTurn(bytes, g, i) ==
  IF i = 0 THEN [width |-> 0, count |-> 1] ELSE CountByte(g[i - 1], bytes[i])

\* The loop of packetCount().
LEMMA CountLoop ==
  ASSUME NEW bytes \in Seq(Widths)
  PROVE  \E g :
           /\ \A i \in 0..Len(bytes) : g[i] \in Counts
           /\ g[0] = [width |-> 0, count |-> 1]
           /\ \A i \in 1..Len(bytes) : g[i] = CountByte(g[i - 1], bytes[i])
           /\ PacketCount(bytes) = g[Len(bytes)].count
<1> DEFINE m == Len(bytes)
           a == [width |-> 0, count |-> 1]
           step == [i \in 1..m |-> [s \in Counts |-> CountByte(s, bytes[i])]]
           G == CHOOSE g : g = [i \in 0..m |-> CountTurn(bytes, g, i)]
<1>1. m \in Nat /\ a \in Counts
  BY DEF Counts
<1>2. step \in Turns(m, Counts)
  <2> SUFFICES ASSUME NEW i \in 1..m, NEW s \in Counts PROVE CountByte(s, bytes[i]) \in Counts
    BY DEF Turns
  <2>1. bytes[i] \in Nat
    BY DEF Widths
  <2> QED
    BY <2>1 DEF Counts, CountByte
<1>3. PICK g : /\ \A i \in 0..m : g[i] \in Counts
               /\ g = [i \in 0..m |-> IF i = 0 THEN a ELSE step[i][g[i - 1]]]
  <2> HIDE DEF step, a, m
  <2> QED
    BY <1>1, <1>2, LoopComputes DEF Loop
<1>4. \A i \in 0..m : g[i] = CountTurn(bytes, g, i)
  <2> SUFFICES ASSUME NEW i \in 0..m PROVE g[i] = CountTurn(bytes, g, i)
    OBVIOUS
  <2>1. g[i] = IF i = 0 THEN a ELSE step[i][g[i - 1]]
    BY <1>3, Zenon
  <2>2. CASE i = 0
    BY <2>1, <2>2 DEF CountTurn
  <2>3. CASE i # 0
    <3>1. i \in 1..m /\ i - 1 \in 0..m
      BY <2>3
    <3>2. g[i - 1] \in Counts
      BY <1>3, <3>1, Zenon
    <3> QED
      BY <2>1, <2>3, <3>1, <3>2 DEF CountTurn
  <2> QED
    BY <2>2, <2>3
<1>5. g = [i \in 0..m |-> CountTurn(bytes, g, i)]
  <2>1. g = [i \in 0..m |-> g[i]]
    BY <1>3
  <2> QED
    BY <1>4, <2>1, Zenon
<1>6. G = [i \in 0..m |-> CountTurn(bytes, G, i)]
  BY <1>5, Zenon
<1>7. PacketCount(bytes) = G[Len(bytes)].count
  BY DEF PacketCount, CountTurn
<1>8. /\ G[0] = a
      /\ \A i \in 1..m : G[i] = CountByte(G[i - 1], bytes[i])
  <2> HIDE DEF G
  <2>1. \A i \in 0..m : G[i] = CountTurn(bytes, G, i)
    BY <1>6, Zenon
  <2> QED
    BY <2>1 DEF CountTurn
<1> DEFINE T == {i \in 0..m : G[i] \in Counts}
<1>9. \A i \in 0..m : i \in T
  <2>1. 0 \in T
    BY <1>1, <1>8
  <2>2. ASSUME NEW i \in 1..m, i - 1 \in T PROVE i \in T
    <3>1. bytes[i] \in Nat /\ G[i - 1] \in Counts
      BY <2>2 DEF Widths
    <3>2. CountByte(G[i - 1], bytes[i]) \in Counts
      <4> HIDE DEF G
      <4> QED
        BY <3>1 DEF Counts, CountByte
    <3> QED
      BY <3>2, <1>8
  <2> HIDE DEF T, m
  <2> QED
    BY <1>1, <2>1, <2>2, InductionUpTo
<1>10. \A i \in 0..m : G[i] \in Counts
  BY <1>9
<1> HIDE DEF G
<1> QED
  BY <1>7, <1>8, <1>10

\* What the loop of splitSize() has reached before.
SizeTurn(bytes, g, i) == IF i = 0 THEN 0 ELSE Widen(g[i - 1], bytes[i])

\* The loop of splitSize() stops at MaxData, or the size is at least the number
\* of bytes looked at.
LEMMA SizeLoop ==
  ASSUME NEW bytes \in Seq(Widths)
  PROVE  /\ SplitSize(bytes) \in Nat
         /\ SplitSize(bytes) = MaxData \/ SplitSize(bytes) >= Len(bytes)
         /\ SplitSize(bytes) <= 2 * Len(bytes)
<1> DEFINE V == Nat
           m == Len(bytes)
           step == [i \in 1..m |-> [s \in Nat |-> Widen(s, bytes[i])]]
           G == CHOOSE g : g = [i \in 0..m |-> SizeTurn(bytes, g, i)]
<1>1. m \in Nat /\ 0 \in V
  OBVIOUS
<1>2. step \in Turns(m, V)
  <2> SUFFICES ASSUME NEW i \in 1..m, NEW s \in Nat PROVE Widen(s, bytes[i]) \in Nat
    BY DEF Turns
  <2>1. bytes[i] \in Nat
    BY DEF Widths
  <2> QED
    BY <2>1 DEF Widen
<1>3. PICK g : /\ \A i \in 0..m : g[i] \in V
               /\ g = [i \in 0..m |-> IF i = 0 THEN 0 ELSE step[i][g[i - 1]]]
  <2> HIDE DEF step, m, V
  <2> QED
    BY <1>1, <1>2, LoopComputes DEF Loop
<1>4. \A i \in 0..m : g[i] = SizeTurn(bytes, g, i)
  <2> SUFFICES ASSUME NEW i \in 0..m PROVE g[i] = SizeTurn(bytes, g, i)
    OBVIOUS
  <2>1. g[i] = IF i = 0 THEN 0 ELSE step[i][g[i - 1]]
    BY <1>3, Zenon
  <2>2. CASE i = 0
    BY <2>1, <2>2 DEF SizeTurn
  <2>3. CASE i # 0
    <3>1. i \in 1..m /\ i - 1 \in 0..m
      BY <2>3
    <3>2. g[i - 1] \in Nat
      BY <1>3, <3>1, Zenon
    <3> QED
      BY <2>1, <2>3, <3>1, <3>2 DEF SizeTurn
  <2> QED
    BY <2>2, <2>3
<1>5. g = [i \in 0..m |-> SizeTurn(bytes, g, i)]
  <2>1. g = [i \in 0..m |-> g[i]]
    BY <1>3
  <2> QED
    BY <1>4, <2>1, Zenon
<1>6. G = [i \in 0..m |-> SizeTurn(bytes, G, i)]
  BY <1>5, Zenon
<1>7. SplitSize(bytes) = G[Len(bytes)]
  BY DEF SplitSize, SizeTurn
<1>8. G[0] = 0 /\ \A i \in 1..m : G[i] = Widen(G[i - 1], bytes[i])
  <2> HIDE DEF G
  <2>1. \A i \in 0..m : G[i] = SizeTurn(bytes, G, i)
    BY <1>6, Zenon
  <2> QED
    BY <2>1 DEF SizeTurn
<1> HIDE DEF G
<1> DEFINE T == {i \in 0..m : G[i] \in Nat /\ (G[i] = MaxData \/ G[i] >= i) /\ G[i] <= 2 * i}
<1>9. \A i \in 0..m : i \in T
  <2>1. 0 \in T
    BY <1>1, <1>8
  <2>2. ASSUME NEW i \in 1..m, i - 1 \in T PROVE i \in T
    <3>1. bytes[i] \in Nat /\ bytes[i] >= 1 /\ bytes[i] <= 2 /\ G[i - 1] \in Nat
      BY <2>2 DEF Widths
    <3>2. G[i] = IF G[i - 1] = MaxData THEN G[i - 1] ELSE G[i - 1] + bytes[i]
      BY <1>8 DEF Widen
    <3> QED
      BY <2>2, <3>1, <3>2
  <2> HIDE DEF T, m
  <2> QED
    BY <1>1, <2>1, <2>2, InductionUpTo
<1> QED
  BY <1>7, <1>9

\* Where the packet of an index ends.
EndTurn(sizes, g, i) == IF i = 0 THEN 0 ELSE g[i - 1] + sizes[i]

\* The packets begin where the one before ended.
LEMMA OffsetsLoop ==
  ASSUME NEW sizes \in Seq(Nat)
  PROVE  /\ \A i \in 0..Len(sizes) : Offsets(sizes)[i] \in Nat
         /\ Offsets(sizes)[0] = 0
         /\ \A i \in 1..Len(sizes) : Offsets(sizes)[i] = Offsets(sizes)[i - 1] + sizes[i]
<1> DEFINE V == Nat
           m == Len(sizes)
           step == [i \in 1..m |-> [s \in Nat |-> s + sizes[i]]]
           G == CHOOSE g : g = [i \in 0..m |-> EndTurn(sizes, g, i)]
<1>1. m \in Nat /\ 0 \in V
  OBVIOUS
<1>2. step \in Turns(m, V)
  BY DEF Turns
<1>3. PICK g : /\ \A i \in 0..m : g[i] \in V
               /\ g = [i \in 0..m |-> IF i = 0 THEN 0 ELSE step[i][g[i - 1]]]
  <2> HIDE DEF step, m, V
  <2> QED
    BY <1>1, <1>2, LoopComputes DEF Loop
<1>4. \A i \in 0..m : g[i] = EndTurn(sizes, g, i)
  <2> SUFFICES ASSUME NEW i \in 0..m PROVE g[i] = EndTurn(sizes, g, i)
    OBVIOUS
  <2>1. g[i] = IF i = 0 THEN 0 ELSE step[i][g[i - 1]]
    BY <1>3, Zenon
  <2>2. CASE i = 0
    BY <2>1, <2>2 DEF EndTurn
  <2>3. CASE i # 0
    <3>1. i \in 1..m /\ i - 1 \in 0..m
      BY <2>3
    <3>2. g[i - 1] \in Nat
      BY <1>3, <3>1, Zenon
    <3> QED
      BY <2>1, <2>3, <3>1, <3>2 DEF EndTurn
  <2> QED
    BY <2>2, <2>3
<1>5. g = [i \in 0..m |-> EndTurn(sizes, g, i)]
  <2>1. g = [i \in 0..m |-> g[i]]
    BY <1>3
  <2> QED
    BY <1>4, <2>1, Zenon
<1>6. G = [i \in 0..m |-> EndTurn(sizes, G, i)]
  BY <1>5, Zenon
<1>7. Offsets(sizes) = G
  BY DEF Offsets, EndTurn
<1>8. G[0] = 0 /\ \A i \in 1..m : G[i] = G[i - 1] + sizes[i]
  <2> HIDE DEF G
  <2>1. \A i \in 0..m : G[i] = EndTurn(sizes, G, i)
    BY <1>6, Zenon
  <2> QED
    BY <2>1 DEF EndTurn
<1> HIDE DEF G
<1> DEFINE T == {i \in 0..m : G[i] \in Nat}
<1>9. \A i \in 0..m : i \in T
  <2>1. 0 \in T
    BY <1>1, <1>8
  <2>2. ASSUME NEW i \in 1..m, i - 1 \in T PROVE i \in T
    BY <2>2, <1>8
  <2> HIDE DEF T, m
  <2> QED
    BY <1>1, <2>1, <2>2, InductionUpTo
<1> QED
  BY <1>7, <1>8, <1>9

\* The smaller of two numbers.
LEMMA MinOfTwo ==
  ASSUME NEW a \in Nat, NEW b \in Nat
  PROVE  Min({a, b}) = IF a <= b THEN a ELSE b
<1> DEFINE c == IF a <= b THEN a ELSE b
<1>1. c \in {a, b} /\ \A y \in {a, b} : c <= y
  OBVIOUS
<1>2. \A x \in {a, b} : (\A y \in {a, b} : x <= y) => x = c
  OBVIOUS
<1>3. Min({a, b}) = CHOOSE x \in {a, b} : \A y \in {a, b} : x <= y
  BY DEF Min
<1> QED
  BY <1>1, <1>2, <1>3

\* The sizes of the packets a message is split into: there are as many as were
\* counted, they fit 8 bits, and if the message is so short that none has come
\* round, each is full or reaches the end of the message.
LEMMA SplitIsGood ==
  ASSUME NEW bytes \in Seq(Widths), NEW sizes \in Splits(bytes)
  PROVE  /\ PacketCount(bytes) \in Nat \ {0}
         /\ sizes \in Seq(Nat) /\ \A k \in 1..Len(sizes) : sizes[k] \in 0..SizeCount - 1
         /\ Len(sizes) = PacketCount(bytes)
         /\ 2 * Len(bytes) < SizeCount =>
              \A k \in 1..Len(sizes) :
                sizes[k] = MaxData \/ Offsets(sizes)[k - 1] + sizes[k] >= Len(bytes)
<1>1. PacketCount(bytes) \in Nat \ {0}
  <2>1. PICK g : /\ \A i \in 0..Len(bytes) : g[i] \in Counts
                 /\ PacketCount(bytes) = g[Len(bytes)].count
    BY CountLoop
  <2>2. g[Len(bytes)] \in Counts
    BY <2>1
  <2> QED
    BY <2>1, <2>2 DEF Counts
<1>2. /\ sizes \in [1..PacketCount(bytes) -> 0..SizeCount - 1]
      /\ \A i \in DOMAIN sizes : sizes[i] \in SplitSizes(bytes, Offsets(sizes)[i - 1])
  BY DEF Splits
<1>3. /\ sizes \in Seq(Nat) /\ Len(sizes) = PacketCount(bytes)
      /\ \A k \in 1..Len(sizes) : sizes[k] \in 0..SizeCount - 1
  <2>1. 0..SizeCount - 1 \subseteq Nat
    OBVIOUS
  <2>2. sizes \in [1..PacketCount(bytes) -> Nat]
    BY <1>2, <2>1
  <2>3. sizes \in Seq(Nat) /\ Len(sizes) = PacketCount(bytes)
    BY <1>1, <2>2
  <2> QED
    BY <1>2, <2>3
<1>4. ASSUME 2 * Len(bytes) < SizeCount, NEW k \in 1..Len(sizes)
      PROVE  sizes[k] = MaxData \/ Offsets(sizes)[k - 1] + sizes[k] >= Len(bytes)
  <2> DEFINE from == Offsets(sizes)[k - 1]
  <2>1. from \in Nat
    BY <1>3, OffsetsLoop
  <2>2. PICK junk \in [1..Min({from, Len(bytes)}) -> Widths] :
          sizes[k] = SplitSize(SubSeq(bytes, from + 1, Len(bytes)) \o junk) % SizeCount
    BY <1>2, <1>3 DEF SplitSizes
  <2> HIDE DEF from
  <2>3. junk \in Seq(Widths) /\ Len(junk) = IF from <= Len(bytes) THEN from ELSE Len(bytes)
    <3>1. PICK l \in Nat : l = Min({from, Len(bytes)})
                           /\ l = IF from <= Len(bytes) THEN from ELSE Len(bytes)
      BY <2>1, MinOfTwo
    <3>2. junk \in [1..l -> Widths]
      BY <2>2, <3>1
    <3>3. junk \in Seq(Widths)
      BY <3>2
    <3>4. Len(junk) = l
      BY <3>2, <3>3, LenProperties
    <3> QED
      BY <3>1, <3>3, <3>4
  <2> DEFINE rest == SubSeq(bytes, from + 1, Len(bytes))
  <2>4. rest \in Seq(Widths) /\ Len(rest) = IF from <= Len(bytes) THEN Len(bytes) - from ELSE 0
    BY <2>1
  <2> HIDE DEF rest
  <2>5. rest \o junk \in Seq(Widths) /\ Len(rest \o junk) = Len(bytes)
    BY <2>1, <2>3, <2>4
  <2> DEFINE size == SplitSize(rest \o junk)
  <2>6. /\ size \in Nat /\ size <= 2 * Len(bytes)
        /\ size = MaxData \/ size >= Len(bytes)
    BY <2>5, SizeLoop
  <2>7. sizes[k] = MaxData \/ sizes[k] >= Len(bytes)
    <3>1. sizes[k] = size % SizeCount
      BY <2>2 DEF rest
    <3> HIDE DEF size
    <3>2. Len(bytes) \in Nat /\ SizeCount \in Nat
      BY RadioConstants
    <3>3. size % SizeCount = size
      BY <1>4, <2>6, <3>2
    <3> QED
      BY <2>6, <3>1, <3>3
  <2>8. sizes[k] \in Nat
    BY <1>3
  <2>9. sizes[k] = MaxData \/ from + sizes[k] >= Len(bytes)
    BY <2>1, <2>7, <2>8
  <2> QED
    BY <2>9 DEF from
<1> QED
  BY <1>1, <1>3, <1>4

\* The count of a packet never goes down in the loop of packetCount().
LEMMA CountedSoFar ==
  ASSUME NEW bytes \in Seq(Widths), NEW g,
         \A i \in 0..Len(bytes) : g[i] \in Counts,
         \A i \in 1..Len(bytes) : g[i] = CountByte(g[i - 1], bytes[i])
  PROVE  \A i \in 0..Len(bytes) : g[i].count <= g[Len(bytes)].count
<1> DEFINE m == Len(bytes)
           T == {d \in 0..m : g[m - d].count <= g[m].count}
<1>1. m \in Nat
  OBVIOUS
<1>2. 0 \in T
  <2>1. g[m].count \in Nat
    BY DEF Counts
  <2> QED
    BY <1>1, <2>1
<1>3. ASSUME NEW d \in 1..m, d - 1 \in T PROVE d \in T
  <2> DEFINE i == m - d
  <2>1. i \in 0..m /\ i + 1 \in 1..m /\ i + 1 = m - (d - 1)
    OBVIOUS
  <2>2. g[i + 1] = CountByte(g[i], bytes[i + 1])
    BY <2>1
  <2>3. g[i] \in Counts /\ g[m] \in Counts
    BY <2>1, <1>1
  <2>4. g[i + 1].count <= g[m].count
    BY <1>3, <2>1
  <2> HIDE DEF i, m
  <2>5. g[i].count <= g[i + 1].count
    BY <2>2, <2>3 DEF CountByte, Counts
  <2>6. g[i].count \in Nat /\ g[i + 1].count \in Nat /\ g[m].count \in Nat
    BY <2>2, <2>3 DEF CountByte, Counts
  <2>7. g[i].count <= g[m].count
    BY <2>4, <2>5, <2>6
  <2> QED
    BY <2>7 DEF i
<1> HIDE DEF T, m
<1>4. \A d \in 0..m : d \in T
  BY <1>1, <1>2, <1>3, InductionUpTo
<1>5. ASSUME NEW i \in 0..m PROVE g[i].count <= g[m].count
  <2>1. m - i \in 0..m /\ m - (m - i) = i
    BY <1>1
  <2>2. m - i \in T
    BY <1>4, <2>1
  <2> QED
    BY <2>1, <2>2 DEF T
<1> QED
  BY <1>5 DEF m

\* The packets of a message without escaped bytes reach its end: up to every byte,
\* the packets that were full before it reach as far as their number promises.
LEMMA PlainIsCovered ==
  ASSUME NEW bytes \in Seq(Widths), Plain(bytes), 2 * Len(bytes) < SizeCount,
         NEW sizes \in Splits(bytes)
  PROVE  Offsets(sizes)[Len(sizes)] >= Len(bytes)
<1> DEFINE m == Len(bytes)
           n == Len(sizes)
           at == Offsets(sizes)
<1>1. PICK g : /\ \A i \in 0..m : g[i] \in Counts
               /\ g[0] = [width |-> 0, count |-> 1]
               /\ \A i \in 1..m : g[i] = CountByte(g[i - 1], bytes[i])
               /\ PacketCount(bytes) = g[m].count
  BY CountLoop
<1>2. \A i \in 0..m : g[i].count <= n
  BY <1>1, CountedSoFar, SplitIsGood
<1>3. /\ \A k \in 1..n : sizes[k] = MaxData \/ at[k] >= m
      /\ \A k \in 1..n : at[k] = at[k - 1] + sizes[k] /\ sizes[k] \in Nat
      /\ \A k \in 0..n : at[k] \in Nat
      /\ at[0] = 0
      /\ m \in Nat /\ n \in Nat \ {0} /\ MaxData \in Nat \ {0}
  <2>1. sizes \in Seq(Nat) /\ n \in Nat \ {0}
    BY SplitIsGood
  <2>2. MaxData \in Nat \ {0}
    BY RadioConstants
  <2> QED
    BY <2>1, <2>2, SplitIsGood, OffsetsLoop
<1>4. \A i \in 1..m : bytes[i] = 1
  BY DEF Plain, Range
<1> HIDE DEF m, n, at
<1> DEFINE T == {i \in 0..m : g[i].width <= MaxData /\ at[g[i].count - 1] + g[i].width >= i}
<1>5. 0 \in T
  BY <1>1, <1>3
<1>6. ASSUME NEW i \in 1..m, i - 1 \in T PROVE i \in T
  <2> DEFINE c == g[i - 1].count
             w == g[i - 1].width
  <2>1. c \in 1..n /\ w \in Nat /\ w <= MaxData /\ at[c - 1] + w >= i - 1
    <3>1. i - 1 \in 0..m
      BY <1>3
    <3>2. g[i - 1] \in Counts /\ g[i - 1].count <= n
      BY <1>1, <1>2, <3>1
    <3> QED
      BY <1>3, <1>6, <3>2 DEF Counts
  <2>2. g[i] = IF w = MaxData THEN [width |-> 1, count |-> c + 1]
               ELSE [width |-> w + 1, count |-> c]
    BY <1>1, <1>4 DEF CountByte
  <2> HIDE DEF c, w
  <2>3. CASE w = MaxData
    <3>1. at[c] >= i - 1
      <4>1. /\ at[c] = at[c - 1] + sizes[c] /\ at[c - 1] \in Nat /\ at[c] \in Nat
            /\ sizes[c] = MaxData \/ at[c] >= m
            /\ c - 1 \in 0..n
        BY <1>3, <2>1
      <4> QED
        BY <1>3, <2>1, <2>3, <4>1
    <3>2. g[i].width = 1 /\ g[i].count - 1 = c
      BY <2>1, <2>2, <2>3
    <3>3. i \in 0..m /\ MaxData \in Nat \ {0} /\ at[c] \in Nat
      BY <1>3, <2>1
    <3>4. g[i].width <= MaxData /\ at[g[i].count - 1] + g[i].width >= i
      BY <3>1, <3>2, <3>3
    <3> QED
      BY <3>3, <3>4
  <2>4. CASE w # MaxData
    <3>1. g[i].width = w + 1 /\ g[i].count = c
      BY <2>2, <2>4
    <3>2. at[c - 1] \in Nat /\ i \in 0..m /\ MaxData \in Nat \ {0}
      BY <1>3, <2>1
    <3>3. g[i].width <= MaxData
      BY <2>1, <2>4, <3>1, <3>2
    <3>4. at[g[i].count - 1] + g[i].width >= i
      BY <2>1, <3>1, <3>2
    <3> QED
      BY <3>2, <3>3, <3>4
  <2> QED
    BY <2>3, <2>4
<1>7. m \in T
  <2> HIDE DEF T
  <2>1. \A i \in 0..m : i \in T
    BY <1>3, <1>5, <1>6, InductionUpTo
  <2> QED
    BY <1>3, <2>1
<1>8. g[m].count = n
  BY <1>1, SplitIsGood DEF n, m
<1>9. g[m].width \in Nat
  BY <1>1, <1>3 DEF Counts
<1>10. at[n] >= m
  <2>1. /\ at[n] = at[n - 1] + sizes[n] /\ at[n - 1] \in Nat /\ at[n] \in Nat
        /\ sizes[n] = MaxData \/ at[n] >= m
    BY <1>3
  <2>2. g[m].width <= MaxData /\ at[n - 1] + g[m].width >= m
    BY <1>7, <1>8
  <2> QED
    BY <1>3, <1>9, <2>1, <2>2
<1> QED
  BY <1>10 DEF at, m, n

------------------------------------------------------------------------------
(* The packets of the messages.                                              *)

\* The messages have the numbers from 1 on.
LEMMA MessagesAreNumbered == Len(Bytes) \in Nat /\ DOMAIN Bytes = 1..Len(Bytes)
<1>1. Bytes \in Seq(Seq(Widths))
  BY RadioConstants
<1> QED
  BY <1>1

\* The order the packets are sent in.
Sent(p, q) == p.message < q.message \/ (p.message = q.message /\ p.no < q.no)

Rising(s) == \A i, j \in DOMAIN s : i < j => Sent(s[i], s[j])

\* The order of sending is irreflexive.
LEMMA NotSentBeforeItself ==
  ASSUME NEW p \in Packets
  PROVE  ~ Sent(p, p)
<1>1. p.message \in Int /\ p.no \in Int
  BY MessagesAreNumbered DEF Packets
<1> QED
  BY <1>1 DEF Sent

\* The packets of one message.
LEMMA PacketsOfMessage ==
  ASSUME NEW m \in DOMAIN Bytes, NEW sizes \in Splits(Bytes[m])
  PROVE  /\ PacketsOf(m, sizes) \in Seq(Packets)
         /\ Len(PacketsOf(m, sizes)) = Len(sizes)
         /\ Len(sizes) \in Nat \ {0}
         /\ \A i \in 1..Len(sizes) :
              PacketsOf(m, sizes)[i] =
                [message |-> m, id |-> (m - 1) % IdCount, count |-> Len(sizes),
                 no |-> i, from |-> Offsets(sizes)[i - 1], size |-> sizes[i]]
<1>1. Bytes[m] \in Seq(Widths)
  BY RadioConstants
<1>2. /\ sizes \in Seq(Nat) /\ Len(sizes) \in Nat \ {0} /\ DOMAIN sizes = 1..Len(sizes)
      /\ \A i \in 1..Len(sizes) : sizes[i] \in 0..SizeCount - 1
  BY <1>1, SplitIsGood
<1>3. \A i \in 1..Len(sizes) : Offsets(sizes)[i - 1] \in Nat
  <2> SUFFICES ASSUME NEW i \in 1..Len(sizes) PROVE Offsets(sizes)[i - 1] \in Nat
    OBVIOUS
  <2>1. i - 1 \in 0..Len(sizes)
    BY <1>2
  <2> QED
    BY <1>2, <2>1, OffsetsLoop
<1>4. (m - 1) % IdCount \in 0..IdCount - 1
  BY RadioConstants
<1> DEFINE P == [i \in 1..Len(sizes) |->
                  [message |-> m, id |-> (m - 1) % IdCount, count |-> Len(sizes),
                   no |-> i, from |-> Offsets(sizes)[i - 1], size |-> sizes[i]]]
<1>5. PacketsOf(m, sizes) = P
  BY <1>2 DEF PacketsOf
<1>6. \A i \in 1..Len(sizes) : P[i] \in Packets
  BY <1>2, <1>3, <1>4 DEF Packets
<1>7. P \in Seq(Packets) /\ Len(P) = Len(sizes)
  <2>1. P \in [1..Len(sizes) -> Packets]
    BY <1>6
  <2> HIDE DEF P
  <2> QED
    BY <1>2, <2>1
<1> QED
  BY <1>2, <1>5, <1>7

\* How the messages given to transmit() were split.
Cut(cut) ==
  /\ cut \in Seq(Seq(Nat)) /\ Len(cut) <= Len(Bytes)
  /\ \A m \in 1..Len(cut) : cut[m] \in Splits(Bytes[m])

\* The packets they were split into.
Sound(cut) ==
  {p \in Packets : /\ p.message \in 1..Len(cut)
                   /\ \E i \in 1..Len(cut[p.message]) :
                        p = PacketsOf(p.message, cut[p.message])[i]}

\* What is known of a packet.
LEMMA SoundPacket ==
  ASSUME NEW cut, Cut(cut), NEW p \in Sound(cut)
  PROVE  /\ p \in Packets /\ p.message \in 1..Len(cut) /\ p.message \in DOMAIN Bytes
         /\ p.id = (p.message - 1) % IdCount
         /\ p.count = Len(cut[p.message])
         /\ \E i \in 1..Len(cut[p.message]) :
              /\ p = PacketsOf(p.message, cut[p.message])[i]
              /\ p.no = i
<1>1. p \in Packets /\ p.message \in 1..Len(cut) /\ p.message \in DOMAIN Bytes
  BY DEF Sound, Packets
<1>2. PICK i \in 1..Len(cut[p.message]) : p = PacketsOf(p.message, cut[p.message])[i]
  BY DEF Sound
<1>3. cut[p.message] \in Splits(Bytes[p.message])
  BY <1>1 DEF Cut
<1>4. p = [message |-> p.message, id |-> (p.message - 1) % IdCount,
           count |-> Len(cut[p.message]), no |-> i, from |-> Offsets(cut[p.message])[i - 1],
           size |-> cut[p.message][i]]
  <2>1. i \in 1..Len(cut[p.message]) =>
          PacketsOf(p.message, cut[p.message])[i] =
            [message |-> p.message, id |-> (p.message - 1) % IdCount,
             count |-> Len(cut[p.message]), no |-> i, from |-> Offsets(cut[p.message])[i - 1],
             size |-> cut[p.message][i]]
    BY <1>1, <1>3, PacketsOfMessage
  <2> QED
    BY <1>2, <2>1
<1>5. /\ p.id = (p.message - 1) % IdCount
      /\ p.count = Len(cut[p.message])
      /\ p.no = i
  BY <1>4
<1> QED
  BY <1>1, <1>2, <1>5, Zenon

\* Packets of one message have the same id and count, and one is before the other.
LEMMA OneMessage ==
  ASSUME NEW cut, Cut(cut), NEW p \in Sound(cut), NEW q \in Sound(cut),
         p.message = q.message
  PROVE  /\ p.id = q.id /\ p.count = q.count
         /\ p = q \/ Sent(p, q) \/ Sent(q, p)
<1> DEFINE m == p.message
<1>1. p.id = q.id /\ p.count = q.count
  BY SoundPacket
<1>2. PICK i \in 1..Len(cut[m]) :
        p = PacketsOf(m, cut[m])[i] /\ p.no = i
  BY SoundPacket
<1>3. PICK j \in 1..Len(cut[m]) :
        q = PacketsOf(m, cut[m])[j] /\ q.no = j
  BY SoundPacket
<1>4. m \in DOMAIN Bytes /\ cut[m] \in Splits(Bytes[m])
  BY SoundPacket DEF Cut
<1>5. (i < j => p.no < q.no) /\ (j < i => q.no < p.no)
  BY <1>2, <1>3
<1>6. i < j \/ j < i \/ i = j
  BY <1>4, PacketsOfMessage
<1>7. i = j => p = q
  BY <1>2, <1>3
<1> QED
  BY <1>1, <1>5, <1>6, <1>7 DEF Sent

\* Every message has a packet.
LEMMA MessageHasPacket ==
  ASSUME NEW cut, Cut(cut), NEW m \in 1..Len(cut), NEW i \in 1..Len(cut[m])
  PROVE  PacketsOf(m, cut[m])[i] \in Sound(cut) /\ PacketsOf(m, cut[m])[i].message = m
<1>1. m \in DOMAIN Bytes /\ cut[m] \in Splits(Bytes[m])
  BY MessagesAreNumbered DEF Cut
<1>2. PacketsOf(m, cut[m])[i] \in Packets /\ PacketsOf(m, cut[m])[i].message = m
  <2>1. /\ PacketsOf(m, cut[m]) \in Seq(Packets)
        /\ Len(PacketsOf(m, cut[m])) = Len(cut[m])
    BY <1>1, PacketsOfMessage
  <2>2. PacketsOf(m, cut[m])[i] \in Packets
    BY <2>1
  <2>3. PacketsOf(m, cut[m])[i].message = m
    <3> DEFINE s == cut[m]
    <3>1. PacketsOf(m, s)[i] = [message |-> m, id |-> (m - 1) % IdCount, count |-> Len(s),
                                no |-> i, from |-> Offsets(s)[i - 1], size |-> s[i]]
      <4> HIDE DEF s
      <4>1. s \in Splits(Bytes[m]) /\ i \in 1..Len(s)
        BY <1>1 DEF s
      <4> QED
        BY <1>1, <4>1, PacketsOfMessage
    <3> QED
      BY <3>1
  <2> QED
    BY <2>2, <2>3
<1> QED
  BY <1>2 DEF Sound

\* A strictly increasing map of indices.
LEMMA Increasing ==
  ASSUME NEW a \in Nat, NEW b \in Nat, NEW f, \A k \in 1..a : f[k] \in 1..b,
         \A k, l \in 1..a : k < l => f[k] < f[l]
  PROVE  (\A k \in 1..a : k <= f[k]) /\ a <= b
<1> DEFINE T == {k \in 0..a : k \in 1..a => k <= f[k]}
<1>1. 0 \in T
  OBVIOUS
<1>2. ASSUME NEW k \in 1..a, k - 1 \in T PROVE k \in T
  <2>1. f[k] \in 1..b
    OBVIOUS
  <2>2. CASE k = 1
    BY <2>1, <2>2
  <2>3. CASE k # 1
    <3>1. k - 1 \in 1..a /\ k - 1 < k
      BY <2>3
    <3>2. f[k - 1] < f[k] /\ k - 1 <= f[k - 1] /\ f[k - 1] \in 1..b
      BY <1>2, <3>1
    <3> QED
      BY <2>1, <3>2
  <2> QED
    BY <2>2, <2>3
<1>3. \A k \in 0..a : k \in T
  <2> HIDE DEF T
  <2> QED
    BY <1>1, <1>2, InductionUpTo
<1>4. \A k \in 1..a : k <= f[k]
  BY <1>3
<1>5. a = 0 \/ (a \in 1..a /\ f[a] \in 1..b)
  OBVIOUS
<1> QED
  BY <1>4, <1>5

\* It is the identity when there are as many.
LEMMA IncreasingOnto ==
  ASSUME NEW a \in Nat, NEW f, \A k \in 1..a : f[k] \in 1..a,
         \A k, l \in 1..a : k < l => f[k] < f[l]
  PROVE  \A k \in 1..a : f[k] = k
<1>1. \A k \in 1..a : k <= f[k]
  BY Increasing
<1> DEFINE h == [k \in 1..a |-> (a + 1) - f[(a + 1) - k]]
<1>2. \A k \in 1..a : (a + 1) - k \in 1..a
  OBVIOUS
<1>3. \A k \in 1..a : h[k] \in 1..a
  <2> SUFFICES ASSUME NEW k \in 1..a PROVE h[k] \in 1..a
    OBVIOUS
  <2>1. f[(a + 1) - k] \in 1..a
    BY <1>2
  <2> QED
    BY <2>1
<1>4. ASSUME NEW k \in 1..a, NEW l \in 1..a, k < l PROVE h[k] < h[l]
  <2>1. (a + 1) - l < (a + 1) - k
    BY <1>4
  <2>2. f[(a + 1) - l] < f[(a + 1) - k]
    BY <1>2, <2>1
  <2>3. f[(a + 1) - l] \in 1..a /\ f[(a + 1) - k] \in 1..a
    BY <1>2
  <2> QED
    BY <2>2, <2>3
<1>5. \A k \in 1..a : k <= h[k]
  <2> HIDE DEF h
  <2> QED
    BY <1>3, <1>4, Increasing
<1>6. ASSUME NEW k \in 1..a PROVE f[k] <= k
  <2> DEFINE j == (a + 1) - k
  <2>1. j \in 1..a /\ (a + 1) - j = k
    OBVIOUS
  <2>2. h[j] = (a + 1) - f[k]
    BY <2>1
  <2>3. j <= h[j]
    BY <1>5, <2>1
  <2> QED
    BY <2>2, <2>3
<1> QED
  BY <1>1, <1>6

\* Packets of one message m, each after the ones before.
RunOf(s, cut, m) ==
  /\ s \in Seq(Sound(cut)) /\ Rising(s)
  /\ \A k \in 1..Len(s) : s[k].message = m

\* A packet of a message is before another one when its index is lower.
LEMMA IndexOrder ==
  ASSUME NEW cut, Cut(cut), NEW m \in 1..Len(cut),
         NEW i \in 1..Len(cut[m]), NEW j \in 1..Len(cut[m])
  PROVE  Sent(PacketsOf(m, cut[m])[i], PacketsOf(m, cut[m])[j]) <=> i < j
<1> DEFINE s == cut[m]
           P == PacketsOf(m, s)
<1>1. m \in DOMAIN Bytes /\ s \in Splits(Bytes[m]) /\ m \in Int
  BY MessagesAreNumbered DEF Cut
<1>2. ASSUME NEW k \in 1..Len(s) PROVE P[k].message = m /\ P[k].no = k
  <2>1. P[k] = [message |-> m, id |-> (m - 1) % IdCount, count |-> Len(s), no |-> k,
                from |-> Offsets(s)[k - 1], size |-> s[k]]
    <3> HIDE DEF s
    <3> QED
      BY <1>1, PacketsOfMessage
  <2> QED
    BY <2>1
<1> HIDE DEF P, s
<1>3. i \in 1..Len(s) /\ j \in 1..Len(s)
  BY DEF s
<1>4. Sent(P[i], P[j]) <=> i < j
  BY <1>1, <1>2, <1>3 DEF Sent
<1> QED
  BY <1>4 DEF P, s

\* The indices of the packets of a run.
LEMMA RunIndices ==
  ASSUME NEW cut, Cut(cut), NEW m \in 1..Len(cut), NEW s, RunOf(s, cut, m)
  PROVE  \E f : /\ \A k \in 1..Len(s) : /\ f[k] \in 1..Len(cut[m])
                                        /\ s[k] = PacketsOf(m, cut[m])[f[k]]
                /\ \A k, l \in 1..Len(s) : k < l => f[k] < f[l]
<1> DEFINE P == PacketsOf(m, cut[m])
           f == [k \in 1..Len(s) |-> CHOOSE i \in 1..Len(cut[m]) : s[k] = P[i]]
<1>1. ASSUME NEW k \in 1..Len(s) PROVE f[k] \in 1..Len(cut[m]) /\ s[k] = P[f[k]]
  <2>1. s[k] \in Sound(cut) /\ s[k].message = m
    BY DEF RunOf
  <2>2. \E i \in 1..Len(cut[m]) : s[k] = P[i]
    BY <2>1, SoundPacket
  <2> HIDE DEF P
  <2>3. f[k] = CHOOSE i \in 1..Len(cut[m]) : s[k] = P[i]
    OBVIOUS
  <2> QED
    BY <2>2, <2>3, Zenon
<1> HIDE DEF f
<1>2. ASSUME NEW k \in 1..Len(s), NEW l \in 1..Len(s), k < l PROVE f[k] < f[l]
  <2>1. Sent(s[k], s[l])
    BY <1>2 DEF RunOf, Rising
  <2>2. Sent(P[f[k]], P[f[l]])
    BY <1>1, <2>1
  <2>3. f[k] \in 1..Len(cut[m]) /\ f[l] \in 1..Len(cut[m])
    BY <1>1
  <2> QED
    BY <2>2, <2>3, IndexOrder
<1> QED
  BY <1>1, <1>2

\* As many of them as the message has are the packets of the message.
LEMMA FullRun ==
  ASSUME NEW cut, Cut(cut), NEW m \in 1..Len(cut), NEW s, RunOf(s, cut, m),
         Len(s) = Len(cut[m])
  PROVE  s = PacketsOf(m, cut[m])
<1>1. PICK f : /\ \A k \in 1..Len(s) : /\ f[k] \in 1..Len(cut[m])
                                       /\ s[k] = PacketsOf(m, cut[m])[f[k]]
               /\ \A k, l \in 1..Len(s) : k < l => f[k] < f[l]
  BY RunIndices
<1>2. m \in DOMAIN Bytes /\ cut[m] \in Splits(Bytes[m])
  BY MessagesAreNumbered DEF Cut
<1>3. Len(s) \in Nat
  BY DEF RunOf
<1>4. \A k \in 1..Len(s) : f[k] = k
  <2>1. \A k \in 1..Len(s) : f[k] \in 1..Len(s)
    BY <1>1
  <2> QED
    BY <1>1, <1>3, <2>1, IncreasingOnto
<1>5. \A k \in 1..Len(s) : s[k] = PacketsOf(m, cut[m])[k]
  BY <1>1, <1>4
<1>6. PacketsOf(m, cut[m]) \in Seq(Packets) /\ Len(PacketsOf(m, cut[m])) = Len(s)
  BY <1>2, PacketsOfMessage
<1> DEFINE P == PacketsOf(m, cut[m])
<1>7. s \in Seq(Sound(cut)) /\ P \in Seq(Packets) /\ Len(P) = Len(s)
      /\ \A k \in 1..Len(s) : s[k] = P[k]
  BY <1>5, <1>6 DEF RunOf
<1> HIDE DEF P
<1>8. s = P
  BY <1>7
<1> QED
  BY <1>8 DEF P

\* A run of all of them has the length of the message.
LEMMA RunOfAll ==
  ASSUME NEW cut, Cut(cut), NEW m \in 1..Len(cut), NEW s, RunOf(s, cut, m),
         \A i \in 1..Len(cut[m]) : PacketsOf(m, cut[m])[i] \in Range(s)
  PROVE  Len(s) = Len(cut[m])
<1> DEFINE P == PacketsOf(m, cut[m])
           n == Len(cut[m])
           at == [i \in 1..n |-> CHOOSE k \in 1..Len(s) : s[k] = P[i]]
<1>1. Len(s) \in Nat /\ n \in Nat
  <2>1. m \in DOMAIN Bytes /\ cut[m] \in Splits(Bytes[m])
    BY MessagesAreNumbered DEF Cut
  <2> QED
    BY <2>1, PacketsOfMessage DEF RunOf
<1>2. PICK f : /\ \A k \in 1..Len(s) : f[k] \in 1..n
               /\ \A k, l \in 1..Len(s) : k < l => f[k] < f[l]
  BY RunIndices
<1>3. Len(s) <= n
  <2> HIDE DEF n
  <2> QED
    BY <1>1, <1>2, Increasing
<1>4. ASSUME NEW i \in 1..n PROVE at[i] \in 1..Len(s) /\ s[at[i]] = P[i]
  <2>1. \E k \in 1..Len(s) : s[k] = P[i]
    BY DEF Range, RunOf
  <2> HIDE DEF P, n
  <2>2. at[i] = CHOOSE k \in 1..Len(s) : s[k] = P[i]
    OBVIOUS
  <2> QED
    BY <2>1, <2>2, Zenon
<1> HIDE DEF at
<1>5. ASSUME NEW i \in 1..n, NEW j \in 1..n, i < j PROVE at[i] < at[j]
  <2>1. Sent(P[i], P[j]) /\ ~ Sent(P[j], P[i])
    BY <1>1, <1>5, IndexOrder
  <2>2. at[i] \in 1..Len(s) /\ at[j] \in 1..Len(s)
    BY <1>4
  <2>3. at[i] # at[j]
    <3>1. P[i] \in Packets
      BY MessageHasPacket, SoundPacket
    <3>2. P[i] # P[j]
      BY <2>1, <3>1, NotSentBeforeItself
    <3> QED
      BY <1>4, <3>2
  <2>4. ~ (at[j] < at[i])
    <3> SUFFICES ASSUME at[j] < at[i] PROVE FALSE
      OBVIOUS
    <3>1. Sent(s[at[j]], s[at[i]])
      BY <2>2 DEF RunOf, Rising
    <3>2. s[at[i]] = P[i] /\ s[at[j]] = P[j]
      BY <1>4
    <3> QED
      BY <2>1, <3>1, <3>2
  <2> QED
    BY <1>1, <2>2, <2>3, <2>4
<1>6. n <= Len(s)
  <2> HIDE DEF n
  <2> QED
    BY <1>1, <1>4, <1>5, Increasing
<1> QED
  BY <1>1, <1>3, <1>6

------------------------------------------------------------------------------
(* The loops over packets.                                                   *)

Fitting(p, limit) == FrameSize(p) \in limit

\* What one turn leaves of the packets.
KeepTurn(packets, limit, g, i) ==
  IF i = 0 THEN <<>>
  ELSE IF FrameSize(packets[i]) \in limit THEN Append(g[i - 1], packets[i]) ELSE g[i - 1]

\* The packets that are left are those which fit, in the order they had.
LEMMA OfSizeKeeps ==
  ASSUME NEW packets \in Seq(Packets), NEW limit
  PROVE  /\ OfSize(packets, limit) \in Seq(Packets)
         /\ \A p : p \in Range(OfSize(packets, limit)) <=>
                     p \in Range(packets) /\ Fitting(p, limit)
         /\ Rising(packets) => Rising(OfSize(packets, limit))
<1> DEFINE V == Seq(Packets)
           m == Len(packets)
           a == <<>>
           next(s, i) == IF FrameSize(packets[i]) \in limit THEN Append(s, packets[i]) ELSE s
           step == [i \in 1..m |-> [s \in V |-> next(s, i)]]
           G == CHOOSE g : g = [i \in 0..m |-> KeepTurn(packets, limit, g, i)]
<1>1. m \in Nat /\ a \in V
  OBVIOUS
<1>2. step \in Turns(m, V)
  <2> SUFFICES ASSUME NEW i \in 1..m, NEW s \in V PROVE next(s, i) \in V
    BY DEF Turns
  <2>1. packets[i] \in Packets
    OBVIOUS
  <2> QED
    BY <2>1
<1>3. PICK g : /\ \A i \in 0..m : g[i] \in V
               /\ g = [i \in 0..m |-> IF i = 0 THEN a ELSE step[i][g[i - 1]]]
  <2> HIDE DEF step, m, V, a
  <2> QED
    BY <1>1, <1>2, LoopComputes DEF Loop
<1>4. \A i \in 0..m : g[i] = KeepTurn(packets, limit, g, i)
  <2> SUFFICES ASSUME NEW i \in 0..m PROVE g[i] = KeepTurn(packets, limit, g, i)
    OBVIOUS
  <2>1. g[i] = IF i = 0 THEN a ELSE step[i][g[i - 1]]
    BY <1>3, Zenon
  <2>2. CASE i = 0
    BY <2>1, <2>2 DEF KeepTurn
  <2>3. CASE i # 0
    <3>1. i \in 1..m /\ i - 1 \in 0..m
      BY <2>3
    <3>2. g[i - 1] \in V
      BY <1>3, <3>1, Zenon
    <3>3. step[i][g[i - 1]] = next(g[i - 1], i)
      <4> HIDE DEF next, V
      <4> QED
        BY <3>1, <3>2
    <3> QED
      BY <2>1, <2>3, <3>3 DEF KeepTurn
  <2> QED
    BY <2>2, <2>3
<1>5. g = [i \in 0..m |-> KeepTurn(packets, limit, g, i)]
  <2>1. g = [i \in 0..m |-> g[i]]
    BY <1>3
  <2> QED
    BY <1>4, <2>1, Zenon
<1>6. G = [i \in 0..m |-> KeepTurn(packets, limit, G, i)]
  BY <1>5, Zenon
<1>7. OfSize(packets, limit) = G[Len(packets)]
  BY DEF OfSize, KeepTurn
<1>8. G[0] = a /\ \A i \in 1..m : G[i] = next(G[i - 1], i)
  <2> HIDE DEF G
  <2>1. \A i \in 0..m : G[i] = KeepTurn(packets, limit, G, i)
    BY <1>6, Zenon
  <2> QED
    BY <2>1 DEF KeepTurn
<1> HIDE DEF G
<1> DEFINE Kept(s, i) ==
             /\ s \in Seq(Packets)
             /\ \A k \in DOMAIN s : \E j \in 1..i : s[k] = packets[j] /\ Fitting(packets[j], limit)
             /\ \A j \in 1..i : Fitting(packets[j], limit) => \E k \in DOMAIN s : s[k] = packets[j]
             /\ Rising(packets) => Rising(s)
           T == {i \in 0..m : Kept(G[i], i)}
<1>9. 0 \in T
  <2>1. Kept(<<>>, 0)
    BY DEF Rising
  <2>2. G[0] = <<>> /\ 0 \in 0..m
    BY <1>1, <1>8
  <2> HIDE DEF Kept
  <2> QED
    BY <2>1, <2>2
<1>10. ASSUME NEW i \in 1..m, i - 1 \in T PROVE i \in T
  <2> DEFINE s == G[i - 1]
             p == packets[i]
  <2>1. Kept(s, i - 1) /\ p \in Packets
    BY <1>10
  <2>2. G[i] = IF Fitting(p, limit) THEN Append(s, p) ELSE s
    BY <1>8 DEF Fitting
  <2>3. \A j \in 1..i : j \in 1..(i - 1) \/ j = i
    OBVIOUS
  <2> HIDE DEF s
  <2>4. CASE ~ Fitting(p, limit)
    <3>1. Kept(s, i)
      BY <2>1, <2>3, <2>4
    <3>2. G[i] = s /\ i \in 0..m
      BY <1>1, <2>2, <2>4
    <3> HIDE DEF Kept
    <3> QED
      BY <3>1, <3>2
  <2>5. CASE Fitting(p, limit)
    <3> DEFINE t == Append(s, p)
    <3>1. t \in Seq(Packets) /\ DOMAIN t = 1..(Len(s) + 1) /\ t[Len(s) + 1] = p
          /\ DOMAIN s = 1..Len(s) /\ Len(s) \in Nat
          /\ \A k \in DOMAIN s : t[k] = s[k]
      <4> HIDE DEF p, Kept
      <4>1. s \in Seq(Packets)
        BY <2>1 DEF Kept
      <4> QED
        BY <2>1, <4>1
    <3> HIDE DEF t
    <3>2. \A k \in DOMAIN t : k \in DOMAIN s \/ k = Len(s) + 1
      BY <3>1
    <3>3. \A k \in DOMAIN t : \E j \in 1..i : t[k] = packets[j] /\ Fitting(packets[j], limit)
      <4> SUFFICES ASSUME NEW k \in DOMAIN t
                   PROVE  \E j \in 1..i : t[k] = packets[j] /\ Fitting(packets[j], limit)
        OBVIOUS
      <4>1. CASE k = Len(s) + 1
        BY <2>5, <3>1, <4>1
      <4>2. CASE k \in DOMAIN s
        <5>1. PICK j \in 1..(i - 1) : s[k] = packets[j] /\ Fitting(packets[j], limit)
          BY <2>1, <4>2
        <5> QED
          BY <3>1, <4>2, <5>1
      <4> QED
        BY <3>2, <4>1, <4>2
    <3>4. \A j \in 1..i : Fitting(packets[j], limit) => \E k \in DOMAIN t : t[k] = packets[j]
      <4>1. \A k \in DOMAIN s : k \in DOMAIN t
        BY <3>1
      <4>2. Len(s) + 1 \in DOMAIN t
        BY <3>1
      <4> QED
        BY <2>1, <2>3, <3>1, <4>1, <4>2
    <3>5. ASSUME Rising(packets) PROVE Rising(t)
      <4> SUFFICES ASSUME NEW k \in DOMAIN t, NEW l \in DOMAIN t, k < l
                   PROVE  Sent(t[k], t[l])
        BY DEF Rising
      <4>1. k \in DOMAIN s
        BY <3>1
      <4>2. CASE l \in DOMAIN s
        BY <2>1, <3>1, <3>5, <4>1, <4>2 DEF Rising
      <4>3. CASE l = Len(s) + 1
        <5>1. PICK j \in 1..(i - 1) : s[k] = packets[j]
          BY <2>1, <4>1
        <5>2. Sent(packets[j], packets[i])
          BY <3>5 DEF Rising
        <5> QED
          BY <3>1, <4>1, <4>3, <5>1, <5>2
      <4> QED
        BY <3>2, <4>2, <4>3
    <3>6. Kept(t, i)
      BY <3>1, <3>3, <3>4, <3>5
    <3>7. G[i] = t /\ i \in 0..m
      BY <1>1, <2>2, <2>5 DEF t
    <3> HIDE DEF Kept
    <3> QED
      BY <3>6, <3>7
  <2> QED
    BY <2>4, <2>5
<1>11. Kept(G[m], m)
  <2> HIDE DEF T
  <2>1. \A i \in 0..m : i \in T
    BY <1>1, <1>9, <1>10, InductionUpTo
  <2> QED
    BY <1>1, <2>1 DEF T
<1> DEFINE r == OfSize(packets, limit)
<1>12. Kept(r, m)
  BY <1>7, <1>11
<1> HIDE DEF r
<1>13. ASSUME NEW p PROVE p \in Range(r) <=> p \in Range(packets) /\ Fitting(p, limit)
  <2>1. DOMAIN packets = 1..m
    OBVIOUS
  <2> HIDE DEF m
  <2>2. ASSUME p \in Range(r) PROVE p \in Range(packets) /\ Fitting(p, limit)
    <3>1. PICK k \in DOMAIN r : p = r[k]
      BY <2>2 DEF Range
    <3>2. PICK j \in 1..m : r[k] = packets[j] /\ Fitting(packets[j], limit)
      BY <1>12
    <3> QED
      BY <2>1, <3>1, <3>2 DEF Range
  <2>3. ASSUME p \in Range(packets), Fitting(p, limit) PROVE p \in Range(r)
    <3>1. PICK j \in 1..m : p = packets[j]
      BY <2>1, <2>3 DEF Range
    <3>2. PICK k \in DOMAIN r : r[k] = packets[j]
      BY <1>12, <2>3, <3>1
    <3> QED
      BY <3>1, <3>2 DEF Range
  <2> QED
    BY <2>2, <2>3
<1>14. /\ r \in Seq(Packets)
       /\ Rising(packets) => Rising(r)
  BY <1>12
<1> QED
  BY <1>13, <1>14 DEF r

------------------------------------------------------------------------------
(* What the receiver has called back with and what it still has.             *)

\* What a sequence holds after Append.
LEMMA RangeOfAppend ==
  ASSUME NEW X, NEW s \in Seq(X), NEW e \in X
  PROVE  Range(Append(s, e)) = Range(s) \cup {e}
<1> DEFINE t == Append(s, e)
<1>1. /\ DOMAIN t = 1..(Len(s) + 1) /\ DOMAIN s = 1..Len(s) /\ Len(s) \in Nat
      /\ \A k \in 1..Len(s) : t[k] = s[k]
      /\ t[Len(s) + 1] = e
  OBVIOUS
<1> HIDE DEF t
<1>2. \A k \in 1..(Len(s) + 1) : k \in 1..Len(s) \/ k = Len(s) + 1
  BY <1>1
<1>3. ASSUME NEW x \in Range(t) PROVE x \in Range(s) \cup {e}
  <2>1. PICK k \in DOMAIN t : x = t[k]
    BY DEF Range
  <2> QED
    BY <1>1, <1>2, <2>1 DEF Range
<1>4. ASSUME NEW x \in Range(s) PROVE x \in Range(t)
  <2>1. PICK k \in DOMAIN s : x = s[k]
    BY DEF Range
  <2>2. k \in DOMAIN t /\ t[k] = x
    BY <1>1, <2>1
  <2> QED
    BY <2>2 DEF Range
<1>5. e \in Range(t)
  <2>1. Len(s) + 1 \in DOMAIN t
    BY <1>1
  <2> QED
    BY <1>1, <2>1 DEF Range
<1> QED
  BY <1>3, <1>4, <1>5 DEF t

\* What two sequences hold one behind the other.
LEMMA RangeOfConcat ==
  ASSUME NEW X, NEW s \in Seq(X), NEW t \in Seq(X)
  PROVE  Range(s \o t) = Range(s) \cup Range(t)
<1> DEFINE u == s \o t
<1>1. /\ DOMAIN u = 1..(Len(s) + Len(t)) /\ DOMAIN s = 1..Len(s) /\ DOMAIN t = 1..Len(t)
      /\ Len(s) \in Nat /\ Len(t) \in Nat
      /\ \A k \in 1..Len(s) : u[k] = s[k]
      /\ \A k \in 1..Len(t) : u[Len(s) + k] = t[k]
  OBVIOUS
<1> HIDE DEF u
<1>2. ASSUME NEW x \in Range(u) PROVE x \in Range(s) \cup Range(t)
  <2>1. PICK k \in 1..(Len(s) + Len(t)) : x = u[k]
    BY <1>1 DEF Range
  <2>2. CASE k \in 1..Len(s)
    BY <1>1, <2>1, <2>2 DEF Range
  <2>3. CASE k \notin 1..Len(s)
    <3>1. k - Len(s) \in 1..Len(t) /\ Len(s) + (k - Len(s)) = k
      BY <1>1, <2>3
    <3>2. x = t[k - Len(s)]
      BY <1>1, <2>1, <3>1
    <3> QED
      BY <1>1, <3>1, <3>2 DEF Range
  <2> QED
    BY <2>2, <2>3
<1>3. ASSUME NEW x \in Range(s) PROVE x \in Range(u)
  <2>1. PICK k \in 1..Len(s) : x = s[k]
    BY <1>1 DEF Range
  <2>2. k \in DOMAIN u /\ u[k] = x
    BY <1>1, <2>1
  <2> QED
    BY <2>2 DEF Range
<1>4. ASSUME NEW x \in Range(t) PROVE x \in Range(u)
  <2>1. PICK k \in 1..Len(t) : x = t[k]
    BY <1>1 DEF Range
  <2>2. Len(s) + k \in DOMAIN u /\ u[Len(s) + k] = x
    BY <1>1, <2>1
  <2> QED
    BY <2>2 DEF Range
<1> QED
  BY <1>2, <1>3, <1>4 DEF u

\* The packets of a callback: sent in this order, with one id, and as many as the
\* first one says.
Good(cut, c) ==
  /\ c \in Seq(Sound(cut)) /\ c # <<>> /\ Rising(c)
  /\ \A k \in DOMAIN c : c[k].id = c[1].id
  /\ Len(c) = c[1].count

\* The packet q was sent after those of the callback c, unless c is a message of
\* one packet and the one of q, with the same id, has several.
After(c, q) == Sent(Last(c), q) \/ (Len(c) = 1 /\ c[1].id = q.id /\ q.count > 1)

\* The callbacks there were, when the packets in S may still come.
Calls(cut, calls, S) ==
  /\ \A i \in DOMAIN calls : Good(cut, calls[i])
  /\ \A i, j \in DOMAIN calls : i < j => After(calls[i], calls[j][1])
  /\ \A i \in DOMAIN calls : \A q \in S : After(calls[i], q)

\* One more callback.
LEMMA AddCall ==
  ASSUME NEW cut, NEW X, NEW calls \in Seq(X), NEW S, Calls(cut, calls, S),
         NEW c \in X, Good(cut, c), c[1] \in S, NEW T \in SUBSET S,
         \A q \in T : After(c, q)
  PROVE  Calls(cut, Append(calls, c), T)
<1> DEFINE t == Append(calls, c)
           n == Len(calls) + 1
<1>1. /\ DOMAIN t = 1..n /\ DOMAIN calls = 1..Len(calls) /\ Len(calls) \in Nat
      /\ \A k \in DOMAIN calls : t[k] = calls[k]
      /\ t[n] = c
  OBVIOUS
<1> HIDE DEF t
<1>2. \A k \in DOMAIN t : k \in DOMAIN calls \/ k = n
  BY <1>1
<1> HIDE DEF n
<1>3. \A i \in DOMAIN t : Good(cut, t[i])
  BY <1>1, <1>2 DEF Calls
<1>4. ASSUME NEW i \in DOMAIN t, NEW j \in DOMAIN t, i < j PROVE After(t[i], t[j][1])
  <2>1. i \in DOMAIN calls
    BY <1>1, <1>2, <1>4 DEF n
  <2>2. CASE j \in DOMAIN calls
    BY <1>1, <1>4, <2>1, <2>2 DEF Calls
  <2>3. CASE j = n
    BY <1>1, <2>1, <2>3 DEF Calls
  <2> QED
    BY <1>2, <2>2, <2>3
<1>5. \A i \in DOMAIN t : \A q \in T : After(t[i], q)
  BY <1>1, <1>2 DEF Calls
<1> QED
  BY <1>3, <1>4, <1>5 DEF Calls, t

\* Packets of one id that were sent before those in L.
Queued(cut, s, id, L) ==
  /\ s \in Seq(Sound(cut)) /\ Rising(s)
  /\ \A k \in DOMAIN s : s[k].id = id
  /\ \A k \in DOMAIN s : \A q \in L : Sent(s[k], q)

\* They are waiting for the rest of their message.
Waits(cut, s, id, L) ==
  Queued(cut, s, id, L) /\ \A k \in DOMAIN s : s[k].count > 1

\* When enough of them have come, the callback gets them.
LEMMA JoinCalls ==
  ASSUME NEW cut, NEW s, NEW id, NEW L, Queued(cut, s, id, L), s # <<>>,
         NEW calls \in Seq(Seq(Packets)), Calls(cut, calls, Range(s) \cup L)
  PROVE  Calls(cut, calls \o Joined(s), L)
<1>1. s \in Seq(Sound(cut)) /\ Len(s) \in Nat \ {0} /\ s \in Seq(Packets)
      /\ DOMAIN s = 1..Len(s)
  <2>1. s \in Seq(Sound(cut)) /\ Sound(cut) \subseteq Packets
    BY DEF Queued, Sound
  <2> QED
    BY <2>1
<1>2. 1 \in DOMAIN s /\ Len(s) \in DOMAIN s /\ s[1] \in Range(s)
  BY <1>1 DEF Range
<1>3. CASE Len(s) = s[1].count
  <2>1. Good(cut, s)
    BY <1>1, <1>2, <1>3 DEF Good, Queued
  <2>2. \A q \in L : After(s, q)
    BY <1>2 DEF After, Queued, Last
  <2>3. calls \o Joined(s) = Append(calls, s)
    <3>1. Joined(s) = <<s>>
      BY <1>3 DEF Joined
    <3> QED
      BY <1>1, <3>1
  <2>4. Calls(cut, Append(calls, s), L)
    <3> DEFINE X == Seq(Packets)
    <3>1. s \in X /\ calls \in Seq(X)
      BY <1>1
    <3> HIDE DEF X
    <3> QED
      BY <1>2, <2>1, <2>2, <3>1, AddCall
  <2> QED
    BY <2>3, <2>4
<1>4. CASE Len(s) # s[1].count
  <2>1. calls \o Joined(s) = calls
    <3>1. Joined(s) = <<>>
      BY <1>4 DEF Joined
    <3> QED
      BY <3>1
  <2> QED
    BY <2>1 DEF Calls
<1> QED
  BY <1>3, <1>4

\* A message of one packet goes to the callback at once.
LEMMA SingleCalls ==
  ASSUME NEW cut, NEW s, NEW id, NEW L, NEW p \in Sound(cut), p.count = 1,
         Waits(cut, s, id, L \cup {p}), s = <<>> \/ p.id = id,
         \A q \in L : Sent(p, q),
         NEW calls \in Seq(Seq(Packets)), Calls(cut, calls, Range(s) \cup (L \cup {p}))
  PROVE  Calls(cut, Append(calls, <<p>>), Range(s) \cup L)
<1>1. p \in Packets
  BY DEF Sound
<1>2. Good(cut, <<p>>)
  <2>1. <<p>> \in Seq(Sound(cut)) /\ Len(<<p>>) = 1 /\ <<p>>[1] = p /\ DOMAIN <<p>> = {1}
    OBVIOUS
  <2>2. Rising(<<p>>)
    BY <2>1 DEF Rising
  <2> QED
    BY <2>1, <2>2 DEF Good
<1>3. ASSUME NEW q \in Range(s) \cup L PROVE After(<<p>>, q)
  <2>1. Len(<<p>>) = 1 /\ <<p>>[1] = p /\ Last(<<p>>) = p
    BY DEF Last
  <2>2. CASE q \in L
    BY <2>1, <2>2 DEF After
  <2>3. CASE q \in Range(s)
    <3>1. PICK k \in DOMAIN s : q = s[k]
      BY <2>3 DEF Range
    <3>2. q.count > 1 /\ q.id = id /\ s # <<>>
      BY <3>1 DEF Waits, Queued
    <3> QED
      BY <2>1, <3>2 DEF After
  <2> QED
    BY <2>2, <2>3
<1> DEFINE X == Seq(Packets)
           S == Range(s) \cup (L \cup {p})
           T == Range(s) \cup L
           c == <<p>>
<1>4. c \in X /\ calls \in Seq(X) /\ c[1] \in S /\ T \in SUBSET S /\ Good(cut, c)
      /\ (\A q \in T : After(c, q)) /\ Calls(cut, calls, S)
  BY <1>1, <1>2, <1>3
<1>5. Calls(cut, Append(calls, c), T)
  <2> HIDE DEF X, S, T, c
  <2> QED
    BY <1>4, AddCall
<1> QED
  BY <1>5

\* One packet more waits.
LEMMA WaitsForMore ==
  ASSUME NEW cut, NEW s, NEW id, NEW L, NEW p \in Sound(cut), p.count > 1,
         Waits(cut, s, id, L \cup {p}), s = <<>> \/ p.id = id,
         \A q \in L : Sent(p, q)
  PROVE  /\ Waits(cut, Append(s, p), p.id, L)
         /\ Range(Append(s, p)) \cup L = Range(s) \cup (L \cup {p})
<1> DEFINE t == Append(s, p)
           n == Len(s) + 1
<1>1. s \in Seq(Sound(cut))
  BY DEF Waits, Queued
<1>2. /\ DOMAIN t = 1..n /\ DOMAIN s = 1..Len(s) /\ Len(s) \in Nat
      /\ \A k \in DOMAIN s : t[k] = s[k]
      /\ t[n] = p /\ t \in Seq(Sound(cut))
  BY <1>1
<1> HIDE DEF t
<1>3. \A k \in DOMAIN t : k \in DOMAIN s \/ k = n
  BY <1>2
<1>4. \A k \in DOMAIN s : s[k].id = p.id /\ s[k].count > 1 /\ Sent(s[k], p)
  BY DEF Waits, Queued
<1> HIDE DEF n
<1>5. ASSUME NEW k \in DOMAIN t, NEW l \in DOMAIN t, k < l PROVE Sent(t[k], t[l])
  <2>1. k \in DOMAIN s
    BY <1>2, <1>3, <1>5 DEF n
  <2>2. CASE l \in DOMAIN s
    BY <1>2, <1>5, <2>1, <2>2 DEF Waits, Queued, Rising
  <2>3. CASE l = n
    BY <1>2, <1>4, <2>1, <2>3
  <2> QED
    BY <1>3, <2>2, <2>3
<1>6. \A k \in DOMAIN t : t[k].id = p.id /\ t[k].count > 1
  BY <1>2, <1>3, <1>4
<1>7. \A k \in DOMAIN t : \A q \in L : Sent(t[k], q)
  BY <1>2, <1>3 DEF Waits, Queued
<1>8. Waits(cut, t, p.id, L)
  BY <1>2, <1>5, <1>6, <1>7 DEF Waits, Queued, Rising
<1>9. Range(t) = Range(s) \cup {p}
  BY <1>1, RangeOfAppend DEF t
<1> QED
  BY <1>8, <1>9 DEF t

\* The messages up to d have come, and every packet of the others is in S.
Until(cut, d, calls, S) ==
  /\ d \in 0..Len(cut)
  /\ \A m \in 1..d : \E i \in DOMAIN calls : Last(calls[i]).message = m
  /\ \A p \in Sound(cut) : p \in S <=> p.message > d

Complete(cut, calls, S) == \E d \in Nat : Until(cut, d, calls, S)

\* Messages with the same id are a multiple of the number of ids apart.
LEMMA SameRemainder ==
  ASSUME NEW a \in Int, NEW b \in Int, NEW n \in Nat \ {0}, a % n = b % n
  PROVE  (a - b) % n = 0
OBVIOUS

\* Messages that follow each other have different ids.
LEMMA NeighboursDiffer ==
  ASSUME NEW m \in Int
  PROVE  m % IdCount # (m + 1) % IdCount
<1>1. IdCount \in Nat /\ IdCount > 1
  BY RadioConstants
<1>2. ASSUME m % IdCount = (m + 1) % IdCount PROVE 1 % IdCount = 0
  <2>1. PICK k \in Int : k = m + 1
    OBVIOUS
  <2>2. k % IdCount = m % IdCount /\ IdCount \in Nat \ {0}
    BY <1>1, <1>2, <2>1
  <2>3. (k - m) % IdCount = 0
    BY <2>2, SameRemainder
  <2>4. k - m = 1
    BY <2>1
  <2> QED
    BY <2>3, <2>4
<1>3. 1 % IdCount = 1
  BY <1>1
<1> QED
  BY <1>2, <1>3

\* When nothing was lost, the packets of one id that are first are those of the
\* next message.
LEMMA NextMessage ==
  ASSUME NEW cut, Cut(cut), NEW s, NEW id, NEW L, NEW d, NEW calls,
         Queued(cut, s, id, L), s # <<>>, Until(cut, d, calls, Range(s) \cup L)
  PROVE  d + 1 \in 1..Len(cut) /\ RunOf(s, cut, d + 1)
<1>1. s \in Seq(Sound(cut)) /\ Len(s) \in Nat \ {0} /\ DOMAIN s = 1..Len(s) /\ d \in Nat
      /\ Len(cut) \in Nat
  BY DEF Queued, Until, Cut
<1>2. ASSUME NEW k \in DOMAIN s
      PROVE  /\ s[k] \in Sound(cut) /\ s[k].message \in 1..Len(cut) /\ s[k].message > d
             /\ s[k].id = id /\ s[k].id = (s[k].message - 1) % IdCount /\ s[k] \in Range(s)
  <2>1. s[k] \in Sound(cut) /\ s[k] \in Range(s)
    BY <1>1 DEF Range
  <2>2. s[k].message > d
    BY <2>1 DEF Until
  <2> QED
    BY <2>1, <2>2, SoundPacket DEF Queued
<1>3. \A k \in DOMAIN s : d + 1 <= s[k].message
  BY <1>1, <1>2
\* A message in between has a packet in s.
<1>4. ASSUME NEW m \in 1..Len(cut), m > d, NEW k \in DOMAIN s, m < s[k].message
      PROVE  \E l \in DOMAIN s : s[l].message = m
  <2>1. 1 \in 1..Len(cut[m])
    <3>1. m \in DOMAIN Bytes /\ cut[m] \in Splits(Bytes[m])
      BY MessagesAreNumbered DEF Cut
    <3> QED
      BY <3>1, PacketsOfMessage
  <2>2. PICK r \in Sound(cut) : r.message = m
    BY <2>1, MessageHasPacket
  <2>3. r \in Range(s) \cup L
    BY <1>4, <2>2 DEF Until
  <2>4. r \notin L
    <3> SUFFICES ASSUME r \in L PROVE FALSE
      OBVIOUS
    <3>1. Sent(s[k], r)
      BY DEF Queued
    <3>2. s[k].message \in Int /\ r.message \in Int
      BY <1>2, <2>2
    <3> QED
      BY <1>4, <2>2, <3>1, <3>2 DEF Sent
  <2> QED
    BY <2>2, <2>3, <2>4 DEF Range
<1>5. 1 \in DOMAIN s /\ d + 1 \in 1..Len(cut)
  BY <1>1, <1>2, <1>3
<1>6. PICK l \in DOMAIN s : s[l].message = d + 1
  <2>1. CASE s[1].message = d + 1
    BY <1>5, <2>1
  <2>2. CASE s[1].message # d + 1
    <3>1. d + 1 < s[1].message /\ d + 1 > d
      BY <1>1, <1>2, <1>3, <1>5, <2>2
    <3> QED
      BY <1>4, <1>5, <3>1
  <2> QED
    BY <2>1, <2>2
<1>7. id = d % IdCount
  BY <1>1, <1>2, <1>6
<1>8. \A k \in DOMAIN s : s[k].message # d + 2
  <2> SUFFICES ASSUME NEW k \in DOMAIN s, s[k].message = d + 2 PROVE FALSE
    OBVIOUS
  <2>1. id = (d + 1) % IdCount
    BY <1>1, <1>2
  <2> QED
    BY <1>1, <1>7, <2>1, NeighboursDiffer
<1>9. ASSUME NEW k \in DOMAIN s PROVE s[k].message = d + 1
  <2> SUFFICES ASSUME s[k].message # d + 1 PROVE FALSE
    OBVIOUS
  <2>1. d + 2 < s[k].message /\ d + 2 \in 1..Len(cut) /\ d + 2 > d
    BY <1>1, <1>2, <1>3, <1>8
  <2> QED
    BY <1>4, <1>8, <2>1
<1>10. RunOf(s, cut, d + 1)
  BY <1>1, <1>9 DEF RunOf, Queued
<1> QED
  BY <1>5, <1>10

\* When they are all its packets, the callback gets that message.
LEMMA NextComes ==
  ASSUME NEW cut, Cut(cut), NEW s, NEW id, NEW L, NEW d,
         NEW X, NEW calls \in Seq(X), s \in X,
         Queued(cut, s, id, L), s # <<>>, Until(cut, d, calls, Range(s) \cup L),
         Len(s) = Len(cut[d + 1])
  PROVE  Until(cut, d + 1, Append(calls, s), L)
<1>1. d + 1 \in 1..Len(cut) /\ RunOf(s, cut, d + 1)
  BY NextMessage
<1>2. s = PacketsOf(d + 1, cut[d + 1])
  BY <1>1, FullRun
<1>3. s \in Seq(Sound(cut)) /\ Len(s) \in Nat \ {0} /\ DOMAIN s = 1..Len(s) /\ d \in Nat
  BY DEF Queued, Until
<1> DEFINE t == Append(calls, s)
           n == Len(calls) + 1
<1>4. /\ DOMAIN t = 1..n /\ DOMAIN calls = 1..Len(calls) /\ Len(calls) \in Nat
      /\ \A k \in DOMAIN calls : t[k] = calls[k]
      /\ t[n] = s
  OBVIOUS
<1> HIDE DEF t
<1>5. \A m \in 1..d + 1 : \E i \in DOMAIN t : Last(t[i]).message = m
  <2> SUFFICES ASSUME NEW m \in 1..d + 1 PROVE \E i \in DOMAIN t : Last(t[i]).message = m
    OBVIOUS
  <2>1. CASE m = d + 1
    <3>1. Last(t[n]).message = m
      BY <1>1, <1>3, <1>4, <2>1 DEF Last, RunOf
    <3> QED
      BY <1>4, <3>1
  <2>2. CASE m # d + 1
    <3>1. m \in 1..d
      BY <1>3, <2>2
    <3>2. PICK i \in DOMAIN calls : Last(calls[i]).message = m
      BY <3>1 DEF Until
    <3>3. i \in DOMAIN t /\ t[i] = calls[i]
      BY <1>4
    <3> QED
      BY <3>2, <3>3
  <2> QED
    BY <2>1, <2>2
<1>6. ASSUME NEW q \in Sound(cut) PROVE q \in L <=> q.message > d + 1
  <2>1. q.message \in Int
    BY SoundPacket, MessagesAreNumbered
  <2>2. q \in Range(s) \cup L <=> q.message > d
    BY DEF Until
  <2>3. q \in Range(s) <=> q.message = d + 1
    <3>1. q \in Range(s) => q.message = d + 1
      BY <1>1, <1>3 DEF RunOf, Range
    <3>2. q.message = d + 1 => q \in Range(s)
      <4> SUFFICES ASSUME q.message = d + 1 PROVE q \in Range(s)
        OBVIOUS
      <4>1. PICK i \in 1..Len(cut[q.message]) : q = PacketsOf(q.message, cut[q.message])[i]
        BY SoundPacket
      <4>2. i \in DOMAIN s /\ q = s[i]
        BY <1>2, <1>3, <4>1
      <4> QED
        BY <4>2 DEF Range
    <3> QED
      BY <3>1, <3>2
  <2>4. q \in Range(s) => q \notin L
    <3> SUFFICES ASSUME q \in Range(s), q \in L PROVE FALSE
      OBVIOUS
    <3>1. Sent(q, q)
      BY DEF Range, Queued
    <3> QED
      BY <3>1, SoundPacket, NotSentBeforeItself
  <2> QED
    BY <1>3, <2>1, <2>2, <2>3, <2>4
<1> QED
  BY <1>1, <1>5, <1>6 DEF Until, t

\* The waiting packets of the next message are all there: the callback with them
\* keeps the calls complete.
LEMMA JoinComplete ==
  ASSUME NEW cut, Cut(cut), NEW s, NEW id, NEW L, Queued(cut, s, id, L), s # <<>>,
         NEW calls \in Seq(Seq(Packets)), Complete(cut, calls, Range(s) \cup L),
         Len(s) = s[1].count
  PROVE  Complete(cut, calls \o Joined(s), L)
<1>1. PICK d \in Nat : Until(cut, d, calls, Range(s) \cup L)
  BY DEF Complete
<1>2. d + 1 \in 1..Len(cut) /\ RunOf(s, cut, d + 1)
  BY <1>1, NextMessage
<1>3. s \in Seq(Sound(cut)) /\ Sound(cut) \subseteq Packets
  BY DEF Queued, Sound
<1>4. s[1] \in Sound(cut) /\ s[1].message = d + 1
  <2>1. 1 \in 1..Len(s)
    BY <1>3
  <2> QED
    BY <1>2, <1>3, <2>1 DEF RunOf
<1>5. Len(s) = Len(cut[d + 1])
  <2>1. s[1].count = Len(cut[s[1].message])
    BY <1>4, SoundPacket
  <2> QED
    BY <1>4, <2>1
<1>6. calls \o Joined(s) = Append(calls, s)
  <2>1. Joined(s) = <<s>>
    BY DEF Joined
  <2> QED
    BY <1>3, <2>1
<1>7. Until(cut, d + 1, Append(calls, s), L)
  <2> DEFINE X == Seq(Packets)
  <2>1. s \in X /\ calls \in Seq(X)
    BY <1>3
  <2> HIDE DEF X
  <2> QED
    BY <1>1, <1>5, <2>1, NextComes
<1> QED
  BY <1>6, <1>7 DEF Complete

\* When nothing was lost, a message is complete when a packet with another id comes.
LEMMA EndedIsWhole ==
  ASSUME NEW cut, Cut(cut), NEW s, NEW id, NEW L, NEW p \in Sound(cut),
         Queued(cut, s, id, L \cup {p}), s # <<>>, p.id # id, \A q \in L : Sent(p, q),
         NEW calls, Complete(cut, calls, Range(s) \cup (L \cup {p}))
  PROVE  Len(s) = s[1].count
<1> DEFINE R == L \cup {p}
<1>1. PICK d \in Nat : Until(cut, d, calls, Range(s) \cup R)
  BY DEF Complete
<1>2. d + 1 \in 1..Len(cut) /\ RunOf(s, cut, d + 1)
  BY <1>1, NextMessage
<1>3. 1 \in DOMAIN s /\ s[1] \in Sound(cut) /\ s[1].message = d + 1 /\ s[1].id = id
  BY <1>2 DEF RunOf, Queued
<1>4. p.message > d + 1
  <2>1. p.message \in Int
    BY SoundPacket, MessagesAreNumbered
  <2>2. p.message > d
    BY <1>1 DEF Until
  <2>3. p.message # d + 1
    BY <1>3, OneMessage
  <2> QED
    BY <2>1, <2>2, <2>3
<1>5. ASSUME NEW i \in 1..Len(cut[d + 1])
      PROVE  PacketsOf(d + 1, cut[d + 1])[i] \in Range(s)
  <2> DEFINE q == PacketsOf(d + 1, cut[d + 1])[i]
  <2>1. q \in Sound(cut) /\ q.message = d + 1
    BY <1>2, MessageHasPacket
  <2> HIDE DEF q
  <2>2. q \in Range(s) \cup R
    BY <1>1, <2>1 DEF Until
  <2>3. q \notin R
    <3>1. p.message \in Int /\ q.message \in Int
      BY <2>1, SoundPacket, MessagesAreNumbered
    <3>2. ~ Sent(p, q)
      BY <1>4, <2>1, <3>1 DEF Sent
    <3>3. q # p
      BY <1>4, <2>1
    <3> QED
      BY <3>2, <3>3
  <2> QED
    BY <2>2, <2>3 DEF q
<1>6. Len(s) = Len(cut[d + 1])
  BY <1>2, <1>5, RunOfAll
<1>7. s[1].count = Len(cut[s[1].message])
  BY <1>3, SoundPacket
<1> QED
  BY <1>3, <1>6, <1>7

\* No packets are waiting when a message of one packet comes with their id.
LEMMA SingleComplete ==
  ASSUME NEW cut, Cut(cut), NEW s, NEW id, NEW L, NEW p \in Sound(cut), p.count = 1,
         Waits(cut, s, id, L \cup {p}), s = <<>> \/ p.id = id, \A q \in L : Sent(p, q),
         NEW calls \in Seq(Seq(Packets)), Complete(cut, calls, Range(s) \cup (L \cup {p}))
  PROVE  Complete(cut, Append(calls, <<p>>), Range(s) \cup L)
<1> DEFINE R == L \cup {p}
<1>1. PICK d \in Nat : Until(cut, d, calls, Range(s) \cup R)
  BY DEF Complete
<1>2. p \in Packets /\ p.message \in Int /\ p.message \in 1..Len(cut) /\ Len(cut) \in Nat
  BY SoundPacket, MessagesAreNumbered DEF Cut
<1>3. s = <<>>
  <2> SUFFICES ASSUME s # <<>> PROVE FALSE
    OBVIOUS
  <2>1. Queued(cut, s, id, R)
    BY DEF Waits
  <2>2. d + 1 \in 1..Len(cut) /\ RunOf(s, cut, d + 1)
    <3> HIDE DEF R
    <3> QED
      BY <1>1, <2>1, NextMessage
  <2>3. /\ 1 \in DOMAIN s /\ s[1] \in Sound(cut) /\ s[1].message = d + 1 /\ s[1].id = id
        /\ s[1].count > 1
    BY <2>2 DEF RunOf, Waits, Queued
  <2>4. p.message # d + 1
    BY <2>3, OneMessage
  <2>5. d + 1 < p.message
    <3>1. p.message > d
      BY <1>1 DEF Until
    <3> QED
      BY <1>2, <2>4, <3>1
  <2>6. id = d % IdCount /\ id = (p.message - 1) % IdCount
    <3>1. s[1].id = (s[1].message - 1) % IdCount
      BY <2>3, SoundPacket
    <3>2. p.id = (p.message - 1) % IdCount
      BY SoundPacket
    <3> QED
      BY <2>3, <3>1, <3>2
  <2>7. p.message # d + 2
    <3> SUFFICES ASSUME p.message = d + 2 PROVE FALSE
      OBVIOUS
    <3>1. id = (d + 1) % IdCount
      BY <2>6
    <3> QED
      BY <2>6, <3>1, NeighboursDiffer
  <2>8. d + 2 \in 1..Len(cut) /\ d + 2 < p.message
    BY <1>2, <2>5, <2>7
  <2>9. PICK q \in Sound(cut) : q.message = d + 2
    <3> DEFINE m == d + 2
    <3>1. m \in 1..Len(cut)
      BY <2>8
    <3>2. 1 \in 1..Len(cut[m])
      <4>1. m \in DOMAIN Bytes /\ cut[m] \in Splits(Bytes[m])
        BY <3>1, MessagesAreNumbered DEF Cut
      <4> HIDE DEF m
      <4> QED
        BY <4>1, PacketsOfMessage
    <3> HIDE DEF m
    <3>3. PacketsOf(m, cut[m])[1] \in Sound(cut) /\ PacketsOf(m, cut[m])[1].message = m
      BY <3>1, <3>2, MessageHasPacket, Zenon
    <3> QED
      BY <3>3 DEF m
  <2>10. q \in Range(s) \cup R
    BY <1>1, <2>9 DEF Until
  <2>11. q \notin Range(s)
    BY <2>2, <2>9 DEF RunOf, Range
  <2>12. ~ Sent(p, q) /\ p # q
    BY <1>2, <2>8, <2>9 DEF Sent
  <2> QED
    BY <2>10, <2>11, <2>12
<1>4. Until(cut, d, calls, Range(<<p>>) \cup L)
  <2>1. Range(<<p>>) = {p} /\ Range(<<>>) = {}
    BY DEF Range
  <2>2. Range(s) \cup R = Range(<<p>>) \cup L
    BY <1>3, <2>1
  <2> QED
    BY <1>1, <2>2
<1>5. Queued(cut, <<p>>, p.id, L)
  BY DEF Queued, Rising
<1>6. Complete(cut, calls \o Joined(<<p>>), L)
  <2> DEFINE c == <<p>>
  <2>1. c # <<>> /\ Len(c) = c[1].count
    OBVIOUS
  <2>2. Queued(cut, c, p.id, L) /\ Complete(cut, calls, Range(c) \cup L)
    BY <1>4, <1>5 DEF Complete
  <2> HIDE DEF c
  <2>3. Complete(cut, calls \o Joined(c), L)
    BY <2>1, <2>2, JoinComplete
  <2> QED
    BY <2>3 DEF c
<1>7. calls \o Joined(<<p>>) = Append(calls, <<p>>)
  BY <1>2 DEF Joined
<1>8. Range(s) \cup L = L
  BY <1>3 DEF Range
<1> QED
  BY <1>6, <1>7, <1>8

\* The variables of processReceivedPackets().
States == [multi : Seq(Packets), calls : Seq(Seq(Packets)), lastId : 0..IdCount - 1]

\* The loop, in the middle: prev are the callbacks of earlier calls, L the packets
\* which have not been looked at, and intact says that nothing was lost.
Stands(cut, prev, s, L, intact) ==
  /\ s \in States
  /\ Waits(cut, s.multi, s.lastId, L)
  /\ Calls(cut, prev \o s.calls, Range(s.multi) \cup L)
  /\ intact => Complete(cut, prev \o s.calls, Range(s.multi) \cup L)

\* The first half of a turn: an id ended.
Ended(s, p) == s.multi # <<>> /\ p.id # s.lastId

AfterEnd(s, p) ==
  IF Ended(s, p)
  THEN [multi |-> <<>>, calls |-> s.calls \o Joined(s.multi), lastId |-> s.lastId]
  ELSE s

\* The second half: the packet joins the others or is a message.
Added(s, p) ==
  [multi |-> IF p.count > 1 THEN Append(s.multi, p) ELSE s.multi,
   calls |-> IF p.count > 1 THEN s.calls ELSE Append(s.calls, <<p>>),
   lastId |-> p.id]

\* One turn ends the message before it, if it has to, and then adds the packet.
LEMMA TakeInHalves ==
  ASSUME NEW s \in States, NEW p
  PROVE  Take(s, p) = Added(AfterEnd(s, p), p)
<1>1. CASE Ended(s, p)
  BY <1>1 DEF Take, Added, AfterEnd, Ended
<1>2. CASE ~ Ended(s, p)
  BY <1>2 DEF Take, Added, AfterEnd, Ended
<1> QED
  BY <1>1, <1>2

\* Joined() makes at most one callback, of packets.
LEMMA JoinedType ==
  ASSUME NEW s \in Seq(Packets)
  PROVE  Joined(s) \in Seq(Seq(Packets))
BY DEF Joined

\* Both halves of a turn keep the type of the loop's state.
LEMMA TakeType ==
  ASSUME NEW s \in States, NEW p \in Packets
  PROVE  AfterEnd(s, p) \in States /\ Take(s, p) \in States
<1>1. s.multi \in Seq(Packets) /\ s.calls \in Seq(Seq(Packets)) /\ s.lastId \in 0..IdCount - 1
  BY DEF States
<1>2. s.calls \o Joined(s.multi) \in Seq(Seq(Packets))
  BY <1>1, JoinedType
<1>3. AfterEnd(s, p) \in States
  BY <1>1, <1>2 DEF AfterEnd, States
<1> DEFINE t == AfterEnd(s, p)
<1>4. t.multi \in Seq(Packets) /\ t.calls \in Seq(Seq(Packets))
  BY <1>3 DEF States
<1> HIDE DEF t
<1>5. Append(t.multi, p) \in Seq(Packets) /\ Append(t.calls, <<p>>) \in Seq(Seq(Packets))
      /\ p.id \in 0..IdCount - 1
  BY <1>4 DEF Packets
<1>6. Added(t, p) \in States
  BY <1>4, <1>5 DEF Added, States
<1> QED
  BY <1>3, <1>6, TakeInHalves DEF t

\* Concatenation is associative.
LEMMA Joining ==
  ASSUME NEW X, NEW s \in Seq(X), NEW t \in Seq(X), NEW u \in Seq(X)
  PROVE  (s \o t) \o u = s \o (t \o u)
BY ConcatAssociative

\* The first half.
LEMMA EndStands ==
  ASSUME NEW cut, Cut(cut), NEW prev \in Seq(Seq(Packets)), NEW s, NEW L,
         NEW intact \in BOOLEAN, NEW p \in Sound(cut), \A q \in L : Sent(p, q),
         Stands(cut, prev, s, L \cup {p}, intact)
  PROVE  /\ Stands(cut, prev, AfterEnd(s, p), L \cup {p}, intact)
         /\ AfterEnd(s, p).multi = <<>> \/ p.id = AfterEnd(s, p).lastId
<1> DEFINE R == L \cup {p}
           t == AfterEnd(s, p)
<1>1. CASE ~ Ended(s, p)
  BY <1>1 DEF AfterEnd, Ended
<1>2. CASE Ended(s, p)
  <2> DEFINE calls == prev \o s.calls
             multi == s.multi
             id == s.lastId
  <2>1. /\ s \in States /\ Waits(cut, multi, id, R)
        /\ Calls(cut, calls, Range(multi) \cup R)
        /\ intact => Complete(cut, calls, Range(multi) \cup R)
    BY DEF Stands
  <2>2. p \in Packets
    BY DEF Sound
  <2>3. t \in States
    BY <2>1, <2>2, TakeType
  <2>4. t.multi = <<>> /\ t.calls = s.calls \o Joined(multi) /\ t.lastId = s.lastId
    BY <1>2 DEF AfterEnd
  <2>5. calls \in Seq(Seq(Packets)) /\ Joined(multi) \in Seq(Seq(Packets))
        /\ s.calls \in Seq(Seq(Packets))
    BY <2>1, JoinedType DEF States
  <2>6. prev \o t.calls = calls \o Joined(multi)
    <3> DEFINE X == Seq(Packets)
               j == Joined(multi)
               k == s.calls
    <3>1. prev \in Seq(X) /\ k \in Seq(X) /\ j \in Seq(X) /\ t.calls = k \o j
      BY <2>4, <2>5
    <3> HIDE DEF X, j, k, t
    <3>2. prev \o (k \o j) = (prev \o k) \o j
      <4>1. (prev \o k) \o j = prev \o (k \o j)
        BY <3>1, Joining
      <4> QED
        BY <4>1
    <3> QED
      BY <3>1, <3>2 DEF j, k
  <2>7. multi # <<>> /\ p.id # id
    BY <1>2 DEF Ended
  <2>8. Queued(cut, multi, id, R)
    BY <2>1 DEF Waits
  <2> HIDE DEF calls, multi, id, t
  <2>9. Calls(cut, prev \o t.calls, R)
    <3> HIDE DEF R
    <3> QED
      BY <2>1, <2>5, <2>6, <2>7, <2>8, JoinCalls
  <2>10. ASSUME intact PROVE Complete(cut, prev \o t.calls, R)
    <3>1. Len(multi) = multi[1].count
      BY <2>1, <2>7, <2>8, <2>10, EndedIsWhole
    <3> HIDE DEF R
    <3> QED
      BY <2>1, <2>5, <2>6, <2>7, <2>8, <2>10, <3>1, JoinComplete
  <2>11. Range(t.multi) \cup R = R
    BY <2>4 DEF Range
  <2>12. Waits(cut, t.multi, t.lastId, R)
    BY <2>4 DEF Waits, Queued, Rising
  <2> QED
    BY <2>3, <2>4, <2>9, <2>10, <2>11, <2>12 DEF Stands, t
<1> QED
  BY <1>1, <1>2

\* Append at the end of a concatenation.
LEMMA ConcatAppend ==
  ASSUME NEW X, NEW s \in Seq(X), NEW t \in Seq(X), NEW e \in X
  PROVE  s \o Append(t, e) = Append(s \o t, e)
OBVIOUS

\* The second half.
LEMMA AddStands ==
  ASSUME NEW cut, Cut(cut), NEW prev \in Seq(Seq(Packets)), NEW s, NEW L,
         NEW intact \in BOOLEAN, NEW p \in Sound(cut), \A q \in L : Sent(p, q),
         Stands(cut, prev, s, L \cup {p}, intact),
         s.multi = <<>> \/ p.id = s.lastId, Added(s, p) \in States
  PROVE  Stands(cut, prev, Added(s, p), L, intact)
<1> DEFINE R == L \cup {p}
           t == Added(s, p)
           calls == prev \o s.calls
           multi == s.multi
           id == s.lastId
<1>1. /\ s \in States /\ Waits(cut, multi, id, R)
      /\ Calls(cut, calls, Range(multi) \cup R)
      /\ intact => Complete(cut, calls, Range(multi) \cup R)
      /\ multi = <<>> \/ p.id = id
  BY DEF Stands
<1>2. s.calls \in Seq(Seq(Packets)) /\ calls \in Seq(Seq(Packets))
  BY <1>1 DEF States
<1>3. p \in Packets /\ p.count \in Nat \ {0}
  BY DEF Sound, Packets
<1>4. CASE p.count > 1
  <2>1. t.multi = Append(multi, p) /\ t.calls = s.calls /\ t.lastId = p.id
    BY <1>4 DEF Added
  <2> HIDE DEF t, multi, id
  <2>2. Waits(cut, t.multi, p.id, L) /\ Range(t.multi) \cup L = Range(multi) \cup R
    <3>1. Waits(cut, Append(multi, p), p.id, L)
      BY <1>1, <1>4, WaitsForMore
    <3>2. Range(Append(multi, p)) \cup L = Range(multi) \cup R
      BY <1>1, <1>4, WaitsForMore
    <3> QED
      BY <2>1, <3>1, <3>2
  <2> QED
    BY <1>1, <2>1, <2>2 DEF Stands, t
<1>5. CASE p.count = 1
  <2>1. t.multi = multi /\ t.calls = Append(s.calls, <<p>>) /\ t.lastId = p.id
    BY <1>5 DEF Added
  <2>2. prev \o t.calls = Append(calls, <<p>>)
    <3> DEFINE X == Seq(Packets)
               c == <<p>>
    <3>1. c \in X /\ prev \in Seq(X) /\ s.calls \in Seq(X)
      BY <1>2, <1>3
    <3> HIDE DEF X, c
    <3>2. prev \o Append(s.calls, c) = Append(prev \o s.calls, c)
      BY <3>1, ConcatAppend
    <3> QED
      BY <2>1, <3>2 DEF c
  <2> HIDE DEF t, multi, id, calls
  <2>3. Calls(cut, Append(calls, <<p>>), Range(multi) \cup L)
    BY <1>1, <1>2, <1>5, SingleCalls
  <2>4. ASSUME intact PROVE Complete(cut, Append(calls, <<p>>), Range(multi) \cup L)
    BY <1>1, <1>2, <1>5, <2>4, SingleComplete
  <2>5. Waits(cut, multi, p.id, L)
    BY <1>1 DEF Waits, Queued
  <2> QED
    BY <2>1, <2>2, <2>3, <2>4, <2>5 DEF Stands, t
<1> QED
  BY <1>3, <1>4, <1>5

First(queue) == [multi |-> <<>>, calls |-> <<>>, lastId |-> Head(queue).id]

\* One turn of processReceivedPackets(), when g says what the turns before did.
ProcessTurn(queue, g, i) == IF i = 0 THEN First(queue) ELSE Take(g[i - 1], queue[i])

\* Process() is a loop of Take(): there are the states it goes through.
LEMMA ProcessLoop ==
  ASSUME NEW queue \in Seq(Packets), queue # <<>>
  PROVE  \E g : /\ g[0] = First(queue) /\ First(queue) \in States
                /\ \A i \in 1..Len(queue) : g[i] = Take(g[i - 1], queue[i])
                /\ Process(queue) = g[Len(queue)]
<1> DEFINE V == States
           m == Len(queue)
           a == First(queue)
           step == [i \in 1..m |-> [s \in V |-> Take(s, queue[i])]]
           G == CHOOSE g : g = [i \in 0..m |-> ProcessTurn(queue, g, i)]
<1>1. m \in Nat /\ a \in V
  <2>1. Head(queue) \in Packets
    OBVIOUS
  <2>2. Head(queue).id \in 0..IdCount - 1
    BY <2>1 DEF Packets
  <2> QED
    BY <2>2 DEF First, States
<1>2. step \in Turns(m, V)
  <2> SUFFICES ASSUME NEW i \in 1..m, NEW s \in V PROVE Take(s, queue[i]) \in V
    BY DEF Turns
  <2>1. queue[i] \in Packets
    OBVIOUS
  <2> QED
    BY <2>1, TakeType
<1>3. PICK g : /\ \A i \in 0..m : g[i] \in V
               /\ g = [i \in 0..m |-> IF i = 0 THEN a ELSE step[i][g[i - 1]]]
  <2> HIDE DEF step, m, V, a, G
  <2>1. m \in Nat /\ a \in V /\ step \in Turns(m, V)
    BY <1>1, <1>2
  <2>2. \E g : (\A i \in 0..m : g[i] \in V) /\ Loop(m, a, step, g)
    BY <2>1, LoopComputes
  <2> QED
    BY <2>2 DEF Loop
<1>4. \A i \in 0..m : g[i] = ProcessTurn(queue, g, i)
  <2> SUFFICES ASSUME NEW i \in 0..m PROVE g[i] = ProcessTurn(queue, g, i)
    OBVIOUS
  <2>1. g[i] = IF i = 0 THEN a ELSE step[i][g[i - 1]]
    BY <1>3, Zenon
  <2>2. CASE i = 0
    BY <2>1, <2>2 DEF ProcessTurn
  <2>3. CASE i # 0
    <3>1. i \in 1..m /\ i - 1 \in 0..m
      BY <2>3
    <3>2. g[i - 1] \in V
      BY <1>3, <3>1, Zenon
    <3>3. step[i][g[i - 1]] = Take(g[i - 1], queue[i])
      <4> HIDE DEF V
      <4> QED
        BY <3>1, <3>2
    <3> QED
      BY <2>1, <2>3, <3>3 DEF ProcessTurn
  <2> QED
    BY <2>2, <2>3
<1>5. g = [i \in 0..m |-> ProcessTurn(queue, g, i)]
  <2>1. g = [i \in 0..m |-> g[i]]
    BY <1>3
  <2> QED
    BY <1>4, <2>1, Zenon
<1>6. G = [i \in 0..m |-> ProcessTurn(queue, G, i)]
  BY <1>5, Zenon
<1>7. Process(queue) = G[Len(queue)]
  BY DEF Process, ProcessTurn, First
<1>8. G[0] = a /\ \A i \in 1..m : G[i] = Take(G[i - 1], queue[i])
  <2> HIDE DEF G, a
  <2>1. \A i \in 0..m : G[i] = ProcessTurn(queue, G, i)
    BY <1>6, Zenon
  <2> QED
    BY <2>1 DEF ProcessTurn, a
<1> HIDE DEF G
<1> QED
  BY <1>1, <1>7, <1>8

\* What the loop has done when it ends.
LEMMA ProcessStands ==
  ASSUME NEW cut, Cut(cut), NEW prev \in Seq(Seq(Packets)),
         NEW queue \in Seq(Sound(cut)), queue # <<>>, Rising(queue),
         NEW L, \A k \in DOMAIN queue : \A q \in L : Sent(queue[k], q),
         NEW intact \in BOOLEAN, Calls(cut, prev, Range(queue) \cup L),
         intact => Complete(cut, prev, Range(queue) \cup L)
  PROVE  Stands(cut, prev, Process(queue), L, intact)
<1> DEFINE m == Len(queue)
           Later(i) == {queue[j] : j \in i + 1..m} \cup L
<1>1. queue \in Seq(Packets) /\ m \in Nat /\ DOMAIN queue = 1..m
  <2>1. Sound(cut) \subseteq Packets
    BY DEF Sound
  <2> QED
    BY <2>1
<1>2. PICK g : /\ g[0] = First(queue) /\ First(queue) \in States
               /\ \A i \in 1..m : g[i] = Take(g[i - 1], queue[i])
               /\ Process(queue) = g[m]
  BY <1>1, ProcessLoop
<1>3. Later(0) = Range(queue) \cup L /\ Later(m) = L
  BY <1>1 DEF Range
<1> DEFINE T == {i \in 0..m : Stands(cut, prev, g[i], Later(i), intact)}
<1>4. 0 \in T
  <2> DEFINE s == First(queue)
  <2>1. s.multi = <<>> /\ s.calls = <<>>
    BY DEF First
  <2>2. prev \o <<>> = prev
    OBVIOUS
  <2>3. Range(<<>>) = {}
    BY DEF Range
  <2>4. Waits(cut, s.multi, s.lastId, Later(0))
    BY <2>1 DEF Waits, Queued, Rising
  <2> HIDE DEF s, Later
  <2>5. Range(s.multi) \cup Later(0) = Range(queue) \cup L
    BY <1>3, <2>1, <2>3
  <2>6. Stands(cut, prev, s, Later(0), intact)
    BY <1>2, <2>1, <2>2, <2>4, <2>5 DEF Stands, s
  <2> QED
    BY <1>1, <1>2, <2>6 DEF s
<1>5. ASSUME NEW i \in 1..m, i - 1 \in T PROVE i \in T
  <2> DEFINE p == queue[i]
             s == g[i - 1]
             R == Later(i)
  <2>1. Stands(cut, prev, s, Later(i - 1), intact) /\ p \in Sound(cut) /\ s \in States
        /\ p \in Packets
    BY <1>1, <1>5 DEF Stands
  <2>2. Later(i - 1) = R \cup {p}
    <3>1. \A j \in (i - 1) + 1..m : j = i \/ j \in i + 1..m
      OBVIOUS
    <3>2. \A j \in i + 1..m : j \in (i - 1) + 1..m
      OBVIOUS
    <3>3. i \in (i - 1) + 1..m
      OBVIOUS
    <3> QED
      BY <3>1, <3>2, <3>3
  <2>3. ASSUME NEW q \in R PROVE Sent(p, q)
    <3>1. CASE q \in L
      BY <1>1, <3>1
    <3>2. CASE q \notin L
      <4>1. PICK j \in i + 1..m : q = queue[j]
        BY <3>2
      <4>2. j \in DOMAIN queue /\ i \in DOMAIN queue /\ i < j
        BY <1>1
      <4> QED
        BY <4>1, <4>2 DEF Rising
    <3> QED
      BY <3>1, <3>2
  <2>4. g[i] = Take(s, p)
    BY <1>2
  <2> HIDE DEF p, s, R
  <2> DEFINE t == AfterEnd(s, p)
  <2>5. Stands(cut, prev, s, R \cup {p}, intact)
    BY <2>1, <2>2
  <2>6. Stands(cut, prev, t, R \cup {p}, intact) /\ (t.multi = <<>> \/ p.id = t.lastId)
    <3>1. \A q \in R : Sent(p, q)
      BY <2>3
    <3>2. p \in Sound(cut)
      BY <2>1
    <3>3. Stands(cut, prev, AfterEnd(s, p), R \cup {p}, intact)
      BY <2>5, <3>1, <3>2, EndStands, ZenonT(60)
    <3>4. AfterEnd(s, p).multi = <<>> \/ p.id = AfterEnd(s, p).lastId
      BY <2>5, <3>1, <3>2, EndStands, ZenonT(60)
    <3> QED
      BY <3>3, <3>4
  <2>7. Take(s, p) = Added(t, p) /\ Added(t, p) \in States
    BY <2>1, TakeInHalves, TakeType
  <2> HIDE DEF t
  <2>8. Stands(cut, prev, Added(t, p), R, intact)
    BY <2>1, <2>3, <2>6, <2>7, AddStands
  <2>9. Stands(cut, prev, g[i], Later(i), intact)
    BY <2>4, <2>7, <2>8 DEF R
  <2> HIDE DEF Later
  <2> QED
    BY <1>1, <2>9
<1>6. m \in T
  <2> HIDE DEF T
  <2>1. \A i \in 0..m : i \in T
    BY <1>1, <1>4, <1>5, InductionUpTo
  <2> QED
    BY <1>1, <2>1
<1> HIDE DEF Later
<1> QED
  BY <1>2, <1>3, <1>6

------------------------------------------------------------------------------
(* The invariant.                                                            *)

Before(S, T) == \A p \in S : \A q \in T : Sent(p, q)

\* A sequence is one over every set its elements belong to.
LEMMA SeqOfElements ==
  ASSUME NEW X, NEW s \in Seq(X), NEW Y, \A k \in DOMAIN s : s[k] \in Y
  PROVE  s \in Seq(Y)
OBVIOUS

\* The same, with the set of its elements.
LEMMA SeqInto ==
  ASSUME NEW X, NEW s \in Seq(X), NEW Y, Range(s) \subseteq Y
  PROVE  s \in Seq(Y)
<1>1. \A k \in DOMAIN s : s[k] \in Range(s)
  BY DEF Range
<1>2. \A k \in DOMAIN s : s[k] \in Y
  BY <1>1
<1> QED
  BY <1>2, SeqOfElements

\* Two sequences in order, one before the other, are in order together.
LEMMA RisingConcat ==
  ASSUME NEW X, NEW s \in Seq(X), NEW t \in Seq(X), Rising(s), Rising(t),
         Before(Range(s), Range(t))
  PROVE  Rising(s \o t)
<1> DEFINE u == s \o t
<1>1. /\ DOMAIN u = 1..(Len(s) + Len(t)) /\ DOMAIN s = 1..Len(s) /\ DOMAIN t = 1..Len(t)
      /\ Len(s) \in Nat /\ Len(t) \in Nat
      /\ \A k \in 1..Len(s) : u[k] = s[k]
      /\ \A k \in 1..Len(t) : u[Len(s) + k] = t[k]
  OBVIOUS
<1> HIDE DEF u
<1>2. ASSUME NEW k \in DOMAIN u, k \notin DOMAIN s
      PROVE  k - Len(s) \in DOMAIN t /\ u[k] = t[k - Len(s)]
  <2>1. k - Len(s) \in 1..Len(t) /\ Len(s) + (k - Len(s)) = k
    BY <1>1, <1>2
  <2>2. u[Len(s) + (k - Len(s))] = t[k - Len(s)]
    BY <1>1, <2>1
  <2> QED
    BY <1>1, <2>1, <2>2
<1>3. ASSUME NEW k \in DOMAIN u, NEW l \in DOMAIN u, k < l PROVE Sent(u[k], u[l])
  <2>1. CASE l \in DOMAIN s
    <3>1. k \in DOMAIN s
      BY <1>1, <1>3, <2>1
    <3> QED
      BY <1>1, <1>3, <2>1, <3>1 DEF Rising
  <2>2. CASE l \notin DOMAIN s /\ k \in DOMAIN s
    <3>1. u[k] \in Range(s)
      BY <1>1, <2>2 DEF Range
    <3>2. u[l] \in Range(t)
      BY <1>2, <2>2 DEF Range
    <3> QED
      BY <3>1, <3>2 DEF Before
  <2>3. CASE l \notin DOMAIN s /\ k \notin DOMAIN s
    <3>1. k - Len(s) \in DOMAIN t /\ u[k] = t[k - Len(s)]
      BY <1>2, <2>3
    <3>2. l - Len(s) \in DOMAIN t /\ u[l] = t[l - Len(s)]
      BY <1>2, <2>3
    <3>3. k - Len(s) < l - Len(s)
      BY <1>1, <1>3
    <3> QED
      BY <3>1, <3>2, <3>3 DEF Rising
  <2> QED
    BY <2>1, <2>2, <2>3
<1> QED
  BY <1>3 DEF Rising, u

\* The first packets and the others.
FirstOf(s, n) == SubSeq(s, 1, n)
Rest(s, n) == SubSeq(s, n + 1, Len(s))

\* They are those of the sequence, in order.
LEMMA HeadAndRest ==
  ASSUME NEW X, NEW s \in Seq(X), NEW n \in 0..Len(s)
  PROVE  /\ FirstOf(s, n) \in Seq(X) /\ Rest(s, n) \in Seq(X) /\ Len(FirstOf(s, n)) = n
         /\ Range(s) = Range(FirstOf(s, n)) \cup Range(Rest(s, n))
         /\ Rising(s) => /\ Rising(FirstOf(s, n)) /\ Rising(Rest(s, n))
                         /\ Before(Range(FirstOf(s, n)), Range(Rest(s, n)))
<1> DEFINE h == FirstOf(s, n)
           t == Rest(s, n)
<1>1. /\ h \in Seq(X) /\ t \in Seq(X) /\ Len(h) = n /\ Len(s) \in Nat
      /\ DOMAIN h = 1..n /\ DOMAIN t = 1..(Len(s) - n) /\ DOMAIN s = 1..Len(s)
      /\ \A k \in 1..n : h[k] = s[k]
      /\ \A k \in 1..(Len(s) - n) : t[k] = s[n + k]
  BY DEF FirstOf, Rest
<1> HIDE DEF h, t
<1>2. ASSUME NEW k \in DOMAIN s PROVE s[k] \in Range(h) \cup Range(t)
  <2>1. CASE k \in 1..n
    BY <1>1, <2>1 DEF Range
  <2>2. CASE k \notin 1..n
    <3>1. k - n \in 1..(Len(s) - n) /\ n + (k - n) = k
      <4>1. k \in 1..Len(s) /\ Len(s) \in Nat /\ n \in Nat
        BY <1>1
      <4> QED
        BY <2>2, <4>1
    <3>2. s[k] = t[k - n]
      BY <1>1, <3>1
    <3> QED
      BY <1>1, <3>1, <3>2 DEF Range
  <2> QED
    BY <2>1, <2>2
<1>3. \A k \in 1..n : k \in DOMAIN s
  BY <1>1
<1>4. \A k \in 1..(Len(s) - n) : n + k \in DOMAIN s
  BY <1>1
<1>5. Range(h) \subseteq Range(s)
  BY <1>1, <1>3 DEF Range
<1>6. ASSUME NEW q \in Range(t)
      PROVE  q \in Range(s) /\ \E l \in 1..(Len(s) - n) : q = s[n + l]
  <2>1. PICK l \in DOMAIN t : q = t[l]
    BY DEF Range
  <2>2. l \in 1..(Len(s) - n) /\ q = s[n + l]
    BY <1>1, <2>1
  <2>3. n + l \in DOMAIN s
    BY <1>4, <2>2
  <2> QED
    BY <2>2, <2>3 DEF Range
<1>7. ASSUME Rising(s) PROVE Rising(h) /\ Rising(t) /\ Before(Range(h), Range(t))
  <2>1. Rising(h)
    BY <1>1, <1>3, <1>7 DEF Rising
  <2>2. ASSUME NEW k \in DOMAIN t, NEW l \in DOMAIN t, k < l PROVE Sent(t[k], t[l])
    <3>1. n + k \in DOMAIN s /\ n + l \in DOMAIN s /\ n + k < n + l
      BY <1>1, <1>4, <2>2
    <3> QED
      BY <1>1, <1>7, <3>1 DEF Rising
  <2>3. ASSUME NEW p \in Range(h), NEW q \in Range(t) PROVE Sent(p, q)
    <3>1. PICK k \in 1..n : p = s[k]
      BY <1>1 DEF Range
    <3>2. PICK l \in 1..(Len(s) - n) : q = s[n + l]
      BY <1>6
    <3>3. k \in DOMAIN s /\ n + l \in DOMAIN s /\ k < n + l
      BY <1>1
    <3> QED
      BY <1>7, <3>1, <3>2, <3>3 DEF Rising
  <2> QED
    BY <2>1, <2>2, <2>3 DEF Rising, Before
<1>8. Range(s) \subseteq Range(h) \cup Range(t)
  BY <1>2 DEF Range
<1> QED
  BY <1>1, <1>5, <1>6, <1>7, <1>8 DEF h, t

\* Without one of them.
LEMMA OneRemoved ==
  ASSUME NEW X, NEW s \in Seq(X), NEW i \in DOMAIN s, NEW r, r = RemoveAt(s, i)
  PROVE  /\ r \in Seq(X) /\ Range(r) \subseteq Range(s)
         /\ Rising(s) => Rising(r)
<1> DEFINE h == SubSeq(s, 1, i - 1)
           t == SubSeq(s, i + 1, Len(s))
<1>1. r = h \o t
  BY DEF RemoveAt
<1>2. i \in 1..Len(s) /\ Len(s) \in Nat
  OBVIOUS
<1>3. h \in Seq(X) /\ Range(s) = Range(h) \cup Range(SubSeq(s, i, Len(s)))
      /\ (Rising(s) => Rising(h) /\ Before(Range(h), Range(SubSeq(s, i, Len(s)))))
  <2> DEFINE n == i - 1
  <2>1. n \in 0..Len(s) /\ h = FirstOf(s, n) /\ SubSeq(s, i, Len(s)) = Rest(s, n)
    BY <1>2 DEF FirstOf, Rest
  <2> HIDE DEF h, n
  <2> QED
    BY <2>1, HeadAndRest
<1>4. t \in Seq(X) /\ Range(t) \subseteq Range(s) /\ (Rising(s) => Rising(t))
  <2>1. i \in 0..Len(s) /\ t = Rest(s, i)
    BY <1>2 DEF Rest
  <2> HIDE DEF t
  <2> QED
    BY <2>1, HeadAndRest
<1>5. Range(t) \subseteq Range(SubSeq(s, i, Len(s)))
  <2> DEFINE u == SubSeq(s, i, Len(s))
  <2>1. /\ DOMAIN t = 1..(Len(s) - i) /\ DOMAIN u = 1..((Len(s) - i) + 1)
        /\ \A k \in 1..(Len(s) - i) : t[k] = s[i + k]
        /\ \A k \in 1..((Len(s) - i) + 1) : u[k] = s[(i + k) - 1]
    BY <1>2
  <2> HIDE DEF t, u
  <2>2. ASSUME NEW k \in 1..(Len(s) - i) PROVE t[k] \in Range(u)
    <3>1. k + 1 \in DOMAIN u /\ (i + (k + 1)) - 1 = i + k
      BY <1>2, <2>1
    <3>2. u[k + 1] = s[i + k]
      BY <2>1, <3>1
    <3> QED
      BY <2>1, <3>1, <3>2 DEF Range
  <2> QED
    BY <2>1, <2>2 DEF Range, u
<1> HIDE DEF h, t
<1>6. Range(r) = Range(h) \cup Range(t) /\ r \in Seq(X)
  BY <1>1, <1>3, <1>4, RangeOfConcat
<1>7. ASSUME Rising(s) PROVE Rising(r)
  <2>1. Before(Range(h), Range(t))
    BY <1>3, <1>5, <1>7 DEF Before
  <2> QED
    BY <1>1, <1>3, <1>4, <1>7, <2>1, RisingConcat
<1> QED
  BY <1>3, <1>4, <1>6, <1>7

\* The packets underway, in the order they were sent in.
Underway(cut) ==
  /\ receiveQueue \in Seq(Sound(cut)) /\ air \in Seq(Sound(cut))
  /\ transmitQueue \in Seq(Sound(cut))
  /\ Rising(receiveQueue) /\ Rising(air) /\ Rising(transmitQueue)
  /\ Before(Range(receiveQueue), Range(air))
  /\ Before(Range(receiveQueue), Range(transmitQueue))
  /\ Before(Range(air), Range(transmitQueue))

\* The receiver waits for packets of one id.
OneIdWaits ==
  \A k \in DOMAIN receiveQueue :
    receiveQueue[k].count > 1 /\ receiveQueue[k].id = receiveQueue[1].id

Coming == Range(receiveQueue) \cup (Range(air) \cup Range(transmitQueue))

Intact == lost = 0 /\ unfit = {}

Short == \A p \in Range(air) : Fitting(p, Receivable) \/ p.message \in unfit

RadioInv(cut) ==
  /\ Cut(cut) /\ Len(cut) = currPacket
  /\ Underway(cut)
  /\ OneIdWaits
  /\ Calls(cut, received, Coming)
  /\ Intact => Complete(cut, received, Coming)
  /\ Short

RadioInvariant == RadioTypeOK /\ \E cut : RadioInv(cut)

\* That fewer packets are still to come changes nothing about the calls.
LEMMA FewerCome ==
  ASSUME NEW cut, NEW calls, NEW S, Calls(cut, calls, S), NEW T \in SUBSET S
  PROVE  Calls(cut, calls, T)
BY DEF Calls

\* Nothing has been sent.
LEMMA RadioStarts == RadioInit => RadioInvariant
<1> SUFFICES ASSUME RadioInit PROVE RadioInvariant
  OBVIOUS
<1>1. RadioTypeOK
  BY RadioConstants, MessagesAreNumbered DEF RadioInit, RadioTypeOK
<1> DEFINE cut == <<>>
<1>2. Cut(cut) /\ Len(cut) = currPacket
  BY MessagesAreNumbered DEF Cut, RadioInit
<1>3. Sound(cut) = {}
  BY DEF Sound
<1>4. Coming = {}
  BY DEF Coming, RadioInit, Range
<1>5. Underway(cut) /\ OneIdWaits /\ Short
  BY DEF Underway, OneIdWaits, Short, RadioInit, Rising, Before, Range
<1>6. Calls(cut, received, Coming)
  BY DEF RadioInit, Calls
<1>7. Complete(cut, received, Coming)
  <2>1. Until(cut, 0, received, Coming)
    BY <1>3, <1>4 DEF Until
  <2> QED
    BY <2>1 DEF Complete
<1>8. RadioInv(cut)
  <2> HIDE DEF cut
  <2> QED
    BY <1>2, <1>5, <1>6, <1>7 DEF RadioInv
<1> QED
  BY <1>1, <1>8 DEF RadioInvariant

\* The sequences of sound packets are typed.
LEMMA UnderwayType ==
  ASSUME NEW cut, Underway(cut)
  PROVE  receiveQueue \in Seq(Packets) /\ air \in Seq(Packets) /\ transmitQueue \in Seq(Packets)
<1>1. Sound(cut) \subseteq Packets
  BY DEF Sound
<1> QED
  BY <1>1 DEF Underway

\* A frame is lost.
LEMMA LoseKeeps ==
  ASSUME RadioTypeOK, NEW cut, RadioInv(cut), Lose
  PROVE  RadioTypeOK' /\ RadioInv(cut)'
<1>1. PICK i \in DOMAIN air : air' = RemoveAt(air, i)
  BY DEF Lose
<1>2. /\ lost' = lost + 1 /\ lost < MaxLost
      /\ UNCHANGED <<currPacket, transmitQueue, receiveQueue, received, unfit>>
  BY DEF Lose
<1>3. Underway(cut)
  BY DEF RadioInv
<1>4. air' \in Seq(Sound(cut)) /\ Range(air') \subseteq Range(air) /\ Rising(air')
  <2>1. air \in Seq(Sound(cut)) /\ Rising(air)
    BY <1>3 DEF Underway
  <2>2. air' \in Seq(Sound(cut)) /\ Range(air') \subseteq Range(air)
    BY <1>1, <2>1, OneRemoved
  <2>3. Rising(air')
    BY <1>1, <2>1, OneRemoved
  <2> QED
    BY <2>2, <2>3
<1>5. Underway(cut)'
  BY <1>2, <1>3, <1>4 DEF Underway, Before
<1>6. Coming' \subseteq Coming
  BY <1>2, <1>4 DEF Coming
<1>7. Calls(cut, received, Coming)'
  <2>1. Calls(cut, received, Coming)
    BY DEF RadioInv
  <2>2. Calls(cut, received, Coming')
    BY <1>6, <2>1, FewerCome
  <2> QED
    BY <1>2, <2>2
<1>8. lost \in Nat /\ lost' \in 0..MaxLost /\ ~ Intact'
  BY <1>2, RadioConstants DEF RadioTypeOK, Intact
<1>9. Short'
  BY <1>2, <1>4 DEF RadioInv, Short
<1>10. OneIdWaits'
  BY <1>2 DEF RadioInv, OneIdWaits
<1>11. RadioInv(cut)'
  BY <1>2, <1>5, <1>7, <1>8, <1>9, <1>10 DEF RadioInv
<1>12. RadioTypeOK'
  <2>1. (receiveQueue \in Seq(Packets) /\ air \in Seq(Packets) /\ transmitQueue \in Seq(Packets))'
    <3>1. Sound(cut) \subseteq Packets
      BY DEF Sound
    <3> QED
      BY <1>5, <3>1 DEF Underway
  <2> QED
    BY <1>2, <1>8, <2>1 DEF RadioTypeOK
<1> QED
  BY <1>11, <1>12

\* The type of the whole, from what a step changes.
LEMMA NextTypes ==
  ASSUME NEW cut, Underway(cut)', (currPacket \in 0..Len(Bytes))',
         (received \in Seq(Seq(Packets)))', (unfit \subseteq DOMAIN Bytes)',
         (lost \in 0..MaxLost)'
  PROVE  RadioTypeOK'
<1>1. Sound(cut) \subseteq Packets
  BY DEF Sound
<1>2. (receiveQueue \in Seq(Packets) /\ air \in Seq(Packets) /\ transmitQueue \in Seq(Packets))'
  BY <1>1 DEF Underway
<1> QED
  BY <1>2 DEF RadioTypeOK

\* A burst leaves: the first packets of the queue are in the air.
LEMMA BurstKeeps ==
  ASSUME RadioTypeOK, NEW cut, RadioInv(cut), TransmitPackets
  PROVE  RadioTypeOK' /\ RadioInv(cut)'
<1> DEFINE n == Min({Burst, Len(transmitQueue)})
           burst == SubSeq(transmitQueue, 1, n)
           frames == OfSize(burst, Sendable)
<1>1. /\ air' = air \o frames
      /\ unfit' = unfit \cup
           {p.message : p \in {q \in Range(burst) : FrameSize(q) \notin Receivable}}
      /\ transmitQueue' = SubSeq(transmitQueue, Len(burst) + 1, Len(transmitQueue))
      /\ UNCHANGED <<currPacket, receiveQueue, received, lost>>
  BY DEF TransmitPackets
<1>2. Underway(cut)
  BY DEF RadioInv
<1>3. Sound(cut) \subseteq Packets
  BY DEF Sound
<1>4. n \in 0..Len(transmitQueue)
  <2>1. Burst \in Nat /\ Len(transmitQueue) \in Nat
    BY RadioConstants DEF RadioTypeOK
  <2> QED
    BY <2>1, MinOfTwo
<1>5. burst = FirstOf(transmitQueue, n)
  BY DEF FirstOf
<1> HIDE DEF n, burst
<1>6. /\ burst \in Seq(Sound(cut)) /\ Len(burst) = n
      /\ Rest(transmitQueue, n) \in Seq(Sound(cut))
      /\ Range(transmitQueue) = Range(burst) \cup Range(Rest(transmitQueue, n))
  BY <1>2, <1>4, <1>5, HeadAndRest DEF Underway
<1>7. /\ Rising(burst) /\ Rising(Rest(transmitQueue, n))
      /\ Before(Range(burst), Range(Rest(transmitQueue, n)))
  BY <1>2, <1>4, <1>5, HeadAndRest DEF Underway
<1>8. transmitQueue' = Rest(transmitQueue, n)
  BY <1>1, <1>6 DEF Rest
<1>9. /\ frames \in Seq(Packets)
      /\ \A p : p \in Range(frames) <=> p \in Range(burst) /\ Fitting(p, Sendable)
      /\ Rising(frames)
  <2>1. burst \in Seq(Packets)
    BY <1>3, <1>6
  <2>2. /\ frames \in Seq(Packets)
        /\ \A p : p \in Range(frames) <=> p \in Range(burst) /\ Fitting(p, Sendable)
    BY <2>1, OfSizeKeeps
  <2>3. Rising(frames)
    BY <1>7, <2>1, OfSizeKeeps
  <2> QED
    BY <2>2, <2>3
<1> HIDE DEF frames
<1>10. frames \in Seq(Sound(cut))
  <2>1. Range(burst) \subseteq Sound(cut)
    BY <1>6 DEF Range
  <2>2. Range(frames) \subseteq Sound(cut)
    BY <1>9, <2>1
  <2> QED
    BY <1>9, <2>2, SeqInto
<1>11. /\ air' \in Seq(Sound(cut)) /\ Range(air') = Range(air) \cup Range(frames)
       /\ Rising(air')
  <2>1. air \in Seq(Sound(cut)) /\ Rising(air)
    BY <1>2 DEF Underway
  <2>2. Range(air \o frames) = Range(air) \cup Range(frames)
    BY <1>10, <2>1, RangeOfConcat
  <2>3. Before(Range(air), Range(frames))
    BY <1>2, <1>6, <1>9 DEF Underway, Before
  <2>4. Rising(air \o frames)
    BY <1>9, <1>10, <2>1, <2>3, RisingConcat
  <2> QED
    BY <1>1, <1>10, <2>1, <2>2, <2>4
<1>12. Range(frames) \subseteq Range(transmitQueue)
       /\ Range(transmitQueue') \subseteq Range(transmitQueue)
  BY <1>6, <1>8, <1>9
<1>13. Underway(cut)'
  <2>1. (/\ receiveQueue \in Seq(Sound(cut)) /\ air \in Seq(Sound(cut))
         /\ transmitQueue \in Seq(Sound(cut))
         /\ Rising(receiveQueue) /\ Rising(air) /\ Rising(transmitQueue))'
    BY <1>1, <1>2, <1>6, <1>7, <1>8, <1>11 DEF Underway
  <2>2. Before(Range(receiveQueue'), Range(air'))
    BY <1>1, <1>2, <1>11, <1>12 DEF Underway, Before
  <2>3. Before(Range(receiveQueue'), Range(transmitQueue'))
    BY <1>1, <1>2, <1>12 DEF Underway, Before
  <2>4. Before(Range(air'), Range(transmitQueue'))
    BY <1>2, <1>7, <1>8, <1>9, <1>11, <1>12 DEF Underway, Before
  <2> QED
    BY <2>1, <2>2, <2>3, <2>4 DEF Underway
<1>14. Coming' \subseteq Coming
  BY <1>1, <1>11, <1>12 DEF Coming
<1>15. Calls(cut, received, Coming)'
  <2>1. Calls(cut, received, Coming)
    BY DEF RadioInv
  <2>2. Calls(cut, received, Coming')
    BY <1>14, <2>1, FewerCome
  <2> QED
    BY <1>1, <2>2
<1>16. \A p \in Range(burst) : p.message \in DOMAIN Bytes
  <2>1. \A p \in Range(burst) : p \in Packets
    BY <1>3, <1>6 DEF Range
  <2> QED
    BY <2>1 DEF Packets
<1>17. \A p \in Range(burst) : FrameSize(p) \notin Receivable => p.message \in unfit'
  BY <1>1
<1>18. Receivable \subseteq Sendable
  BY RadioConstants DEF Receivable, Sendable
<1>19. Short'
  <2> SUFFICES ASSUME NEW p \in Range(air')
               PROVE  Fitting(p, Receivable) \/ p.message \in unfit'
    BY DEF Short
  <2>1. CASE p \in Range(air)
    BY <1>1, <2>1 DEF RadioInv, Short
  <2>2. CASE p \in Range(burst)
    BY <1>17, <2>2 DEF Fitting
  <2> QED
    BY <1>9, <1>11, <2>1, <2>2
<1>20. ASSUME Intact' PROVE Complete(cut, received, Coming)'
  <2>1. Intact /\ unfit' = {}
    BY <1>1, <1>20 DEF Intact
  <2>2. \A p \in Range(burst) : Fitting(p, Sendable)
    <3> SUFFICES ASSUME NEW p \in Range(burst) PROVE Fitting(p, Sendable)
      OBVIOUS
    <3>1. FrameSize(p) \in Receivable
      BY <1>17, <2>1
    <3> QED
      BY <1>18, <3>1 DEF Fitting
  <2>3. Range(frames) = Range(burst)
    BY <1>9, <2>2
  <2>4. Coming' = Coming
    BY <1>1, <1>6, <1>8, <1>11, <2>3 DEF Coming
  <2>5. Complete(cut, received, Coming)
    BY <2>1 DEF RadioInv
  <2> QED
    BY <1>1, <2>4, <2>5
<1>21. OneIdWaits'
  BY <1>1 DEF RadioInv, OneIdWaits
<1>22. RadioInv(cut)'
  BY <1>1, <1>13, <1>15, <1>19, <1>20, <1>21 DEF RadioInv
<1>23. RadioTypeOK'
  <2>1. (unfit \subseteq DOMAIN Bytes)'
    BY <1>1, <1>16 DEF RadioTypeOK
  <2>2. (currPacket \in 0..Len(Bytes) /\ received \in Seq(Seq(Packets)) /\ lost \in 0..MaxLost)'
    BY <1>1 DEF RadioTypeOK
  <2> QED
    BY <1>13, <2>1, <2>2, NextTypes
<1> QED
  BY <1>22, <1>23

\* Frames have been read, when n of those in the air have come; some had a size
\* that the receiver does not take.
Arrived(n) == OfSize(FirstOf(air, n), Receivable)

\* The frames that arrive and those that stay on the air keep soundness and order,
\* the former before the latter; while nothing is lost all of them arrive.
LEMMA FramesArrive ==
  ASSUME NEW cut, RadioInv(cut), NEW n \in 0..Len(air), NEW frames, frames = Arrived(n)
  PROVE  /\ frames \in Seq(Sound(cut)) /\ Rising(frames)
         /\ Rest(air, n) \in Seq(Sound(cut)) /\ Rising(Rest(air, n))
         /\ Range(frames) \subseteq Range(air) /\ Range(Rest(air, n)) \subseteq Range(air)
         /\ Before(Range(frames), Range(Rest(air, n)))
         /\ Intact => Range(air) = Range(frames) \cup Range(Rest(air, n))
<1> DEFINE h == FirstOf(air, n)
           t == Rest(air, n)
<1>1. air \in Seq(Sound(cut)) /\ Rising(air) /\ Sound(cut) \subseteq Packets
  BY DEF RadioInv, Underway, Sound
<1>2. h \in Seq(Sound(cut)) /\ t \in Seq(Sound(cut)) /\ Range(air) = Range(h) \cup Range(t)
  BY <1>1, HeadAndRest
<1>3. Rising(h) /\ Rising(t) /\ Before(Range(h), Range(t))
  BY <1>1, HeadAndRest
<1>4. h \in Seq(Packets)
  BY <1>1, <1>2
<1>5. /\ frames \in Seq(Packets)
      /\ \A p : p \in Range(frames) <=> p \in Range(h) /\ Fitting(p, Receivable)
  <2> HIDE DEF h
  <2>1. frames = OfSize(h, Receivable)
    BY DEF Arrived, h
  <2> QED
    BY <1>4, <2>1, OfSizeKeeps
<1>6. Rising(frames)
  <2> HIDE DEF h
  <2>1. frames = OfSize(h, Receivable)
    BY DEF Arrived, h
  <2> QED
    BY <1>3, <1>4, <2>1, OfSizeKeeps
<1> HIDE DEF h, t
<1>7. Range(frames) \subseteq Range(h)
  BY <1>5
<1>8. frames \in Seq(Sound(cut))
  <2>1. Range(h) \subseteq Sound(cut)
    BY <1>2 DEF Range
  <2>2. Range(frames) \subseteq Sound(cut)
    BY <1>7, <2>1
  <2> QED
    BY <1>5, <2>2, SeqInto
<1>9. Before(Range(frames), Range(t))
  BY <1>3, <1>7 DEF Before
<1>10. ASSUME Intact PROVE Range(frames) = Range(h)
  <2>1. \A p \in Range(air) : Fitting(p, Receivable)
    BY <1>10 DEF RadioInv, Short, Intact
  <2> QED
    BY <1>2, <1>5, <2>1
<1>11. Intact => Range(air) = Range(frames) \cup Range(t)
  BY <1>2, <1>10
<1> QED
  BY <1>2, <1>3, <1>6, <1>7, <1>8, <1>9, <1>11 DEF t

\* What is processed are the packets which waited and those which have come.
LEMMA QueueReady ==
  ASSUME NEW cut, RadioInv(cut), NEW n \in 0..Len(air), NEW queue, NEW L,
         queue = receiveQueue \o Arrived(n),
         L = Range(Rest(air, n)) \cup Range(transmitQueue)
  PROVE  /\ queue \in Seq(Sound(cut)) /\ Rising(queue)
         /\ Before(Range(queue), L)
         /\ Range(queue) \cup L \subseteq Coming
         /\ Intact => Range(queue) \cup L = Coming
<1> DEFINE frames == Arrived(n)
           t == Rest(air, n)
<1>1. /\ frames \in Seq(Sound(cut)) /\ Rising(frames)
      /\ Range(frames) \subseteq Range(air) /\ Range(t) \subseteq Range(air)
      /\ Before(Range(frames), Range(t))
  BY FramesArrive
<1>2. Intact => Range(air) = Range(frames) \cup Range(t)
  BY FramesArrive
<1> HIDE DEF frames, t
<1>3. Underway(cut)
  BY DEF RadioInv
<1>4. Before(Range(receiveQueue), Range(frames))
  BY <1>1, <1>3 DEF Underway, Before
<1>5. queue = receiveQueue \o frames
  BY DEF frames
<1>6. queue \in Seq(Sound(cut)) /\ Range(queue) = Range(receiveQueue) \cup Range(frames)
  <2>1. receiveQueue \in Seq(Sound(cut))
    BY <1>3 DEF Underway
  <2>2. Range(receiveQueue \o frames) = Range(receiveQueue) \cup Range(frames)
    BY <1>1, <2>1, RangeOfConcat
  <2> QED
    BY <1>1, <1>5, <2>1, <2>2
<1>7. Rising(queue)
  <2>1. receiveQueue \in Seq(Sound(cut)) /\ Rising(receiveQueue)
    BY <1>3 DEF Underway
  <2> QED
    BY <1>1, <1>4, <1>5, <2>1, RisingConcat
<1>8. L = Range(t) \cup Range(transmitQueue)
  BY DEF t
<1>9. Before(Range(queue), L)
  BY <1>1, <1>3, <1>6, <1>8 DEF Underway, Before
<1>10. Range(queue) \cup L \subseteq Coming
  BY <1>1, <1>6, <1>8 DEF Coming
<1>11. ASSUME Intact PROVE Range(queue) \cup L = Coming
  BY <1>2, <1>6, <1>8, <1>11 DEF Coming
<1> QED
  BY <1>6, <1>7, <1>9, <1>10, <1>11

\* Packets have come.
LEMMA ReceiveKeeps ==
  ASSUME RadioTypeOK, NEW cut, RadioInv(cut), ReceivePackets
  PROVE  RadioTypeOK' /\ RadioInv(cut)'
<1>1. PICK n \in 0..Min({MaxReceive, Len(air)}) :
        LET frames == OfSize(SubSeq(air, 1, n), Receivable)
            queue == receiveQueue \o frames
            end == Process(queue)
            complete == IF end.multi = <<>> THEN <<>> ELSE Joined(end.multi)
        IN /\ air' = SubSeq(air, n + 1, Len(air))
           /\ IF queue = <<>> THEN UNCHANGED <<receiveQueue, received>>
              ELSE /\ received' = received \o end.calls \o complete
                   /\ receiveQueue' = IF complete = <<>> THEN end.multi ELSE <<>>
           /\ UNCHANGED <<currPacket, transmitQueue, unfit, lost>>
  BY DEF ReceivePackets
<1> DEFINE queue == receiveQueue \o Arrived(n)
           end == Process(queue)
           complete == IF end.multi = <<>> THEN <<>> ELSE Joined(end.multi)
           L == Range(Rest(air, n)) \cup Range(transmitQueue)
<1>2. /\ air' = Rest(air, n)
      /\ UNCHANGED <<currPacket, transmitQueue, unfit, lost>>
  BY <1>1 DEF Rest
<1>3. queue = <<>> => UNCHANGED <<receiveQueue, received>>
  BY <1>1 DEF Arrived, FirstOf
<1>4. queue # <<>> => /\ received' = (received \o end.calls) \o complete
                      /\ receiveQueue' = IF complete = <<>> THEN end.multi ELSE <<>>
  BY <1>1 DEF Arrived, FirstOf
<1>5. n \in 0..Len(air)
  <2>1. MaxReceive \in Nat /\ Len(air) \in Nat
    BY RadioConstants DEF RadioTypeOK
  <2>2. Min({MaxReceive, Len(air)}) \in 0..Len(air)
    BY <2>1, MinOfTwo
  <2> QED
    BY <2>1, <2>2
<1>6. /\ queue \in Seq(Sound(cut)) /\ Rising(queue) /\ Before(Range(queue), L)
      /\ Range(queue) \cup L \subseteq Coming
  BY <1>5, QueueReady
<1>7. Intact => Range(queue) \cup L = Coming
  BY <1>5, QueueReady
<1> HIDE DEF queue, L
<1>8. Cut(cut) /\ Underway(cut) /\ received \in Seq(Seq(Packets))
  BY DEF RadioInv, RadioTypeOK
<1>9. Calls(cut, received, Range(queue) \cup L)
  <2>1. Calls(cut, received, Coming)
    BY DEF RadioInv
  <2> DEFINE S == Range(queue) \cup L
  <2>2. S \subseteq Coming
    BY <1>6
  <2> HIDE DEF S
  <2>3. Calls(cut, received, S)
    BY <2>1, <2>2, FewerCome
  <2> QED
    BY <2>3 DEF S
<1>10. Intact => Complete(cut, received, Range(queue) \cup L)
  BY <1>7 DEF RadioInv
<1>11. /\ Rest(air, n) \in Seq(Sound(cut)) /\ Rising(Rest(air, n))
       /\ Range(Rest(air, n)) \subseteq Range(air)
  BY <1>5, FramesArrive
<1>12. transmitQueue \in Seq(Sound(cut)) /\ Rising(transmitQueue)
       /\ Before(Range(Rest(air, n)), Range(transmitQueue))
  BY <1>8, <1>11 DEF Underway, Before
<1>13. Short'
  BY <1>2, <1>11 DEF RadioInv, Short
<1>14. Intact' <=> Intact
  BY <1>2 DEF Intact
\* It is enough to look at the queue and the callbacks.
<1>15. ASSUME (receiveQueue \in Seq(Sound(cut)) /\ Rising(receiveQueue))',
              Before(Range(receiveQueue'), L), OneIdWaits',
              received' \in Seq(Seq(Packets)),
              Calls(cut, received', Range(receiveQueue') \cup L),
              Intact => Complete(cut, received', Range(receiveQueue') \cup L)
       PROVE  RadioTypeOK' /\ RadioInv(cut)'
  <2>1. Coming' = Range(receiveQueue') \cup L
    BY <1>2 DEF Coming, L
  <2>2. Underway(cut)'
    BY <1>2, <1>11, <1>12, <1>15 DEF Underway, Before, L
  <2>3. RadioInv(cut)'
    <3>1. Calls(cut, received, Coming)'
      BY <1>15, <2>1
    <3>2. Intact' => Complete(cut, received, Coming)'
      BY <1>14, <1>15, <2>1
    <3>3. Len(cut) = currPacket'
      BY <1>2 DEF RadioInv
    <3> QED
      BY <1>8, <1>13, <1>15, <2>2, <3>1, <3>2, <3>3 DEF RadioInv
  <2>4. (currPacket \in 0..Len(Bytes) /\ unfit \subseteq DOMAIN Bytes /\ lost \in 0..MaxLost)'
    BY <1>2 DEF RadioTypeOK
  <2>5. RadioTypeOK'
    BY <1>15, <2>2, <2>4, NextTypes
  <2> QED
    BY <2>3, <2>5
<1>16. CASE queue = <<>>
  <2>1. receiveQueue = <<>>
    <3>1. receiveQueue \in Seq(Sound(cut)) /\ Arrived(n) \in Seq(Sound(cut))
      BY <1>5, <1>8, FramesArrive DEF Underway
    <3> QED
      BY <1>16, <3>1 DEF queue
  <2>2. receiveQueue' = <<>> /\ received' = received /\ Range(queue) = Range(receiveQueue')
    BY <1>3, <1>16, <2>1
  <2>3. Before(Range(receiveQueue'), L)
    BY <1>6, <2>2
  <2>4. (receiveQueue \in Seq(Sound(cut)) /\ Rising(receiveQueue))' /\ OneIdWaits'
    BY <2>2 DEF Rising, OneIdWaits
  <2>5. Calls(cut, received', Range(receiveQueue') \cup L)
    BY <1>9, <2>2
  <2>6. Intact => Complete(cut, received', Range(receiveQueue') \cup L)
    BY <1>10, <2>2
  <2> QED
    BY <1>8, <1>15, <2>2, <2>3, <2>4, <2>5, <2>6
<1>17. CASE queue # <<>>
  <2>1. PICK intact \in BOOLEAN : intact <=> Intact
    OBVIOUS
  <2>2. Stands(cut, received, end, L, intact)
    <3>1. \A k \in DOMAIN queue : \A q \in L : Sent(queue[k], q)
      BY <1>6 DEF Before, Range
    <3>2. intact => Complete(cut, received, Range(queue) \cup L)
      BY <1>10, <2>1
    <3> QED
      BY <1>6, <1>8, <1>9, <1>17, <3>1, <3>2, ProcessStands
  <2> DEFINE multi == end.multi
             id == end.lastId
             calls == received \o end.calls
  <2>3. /\ Waits(cut, multi, id, L) /\ end \in States
        /\ Calls(cut, calls, Range(multi) \cup L)
        /\ intact => Complete(cut, calls, Range(multi) \cup L)
    BY <2>2 DEF Stands
  <2>4. multi \in Seq(Packets) /\ end.calls \in Seq(Seq(Packets)) /\ calls \in Seq(Seq(Packets))
    BY <1>8, <2>3 DEF States
  <2>5. Queued(cut, multi, id, L)
    BY <2>3 DEF Waits
  <2>6. received' = calls \o complete
        /\ receiveQueue' = IF complete = <<>> THEN multi ELSE <<>>
    BY <1>4, <1>17
  <2>7. CASE complete = <<>>
    <3>1. received' = calls /\ receiveQueue' = multi
      <4> HIDE DEF calls, complete, multi
      <4>1. calls \o <<>> = calls
        BY <2>4
      <4>2. received' = calls \o <<>>
        BY <2>6, <2>7
      <4> QED
        BY <2>6, <2>7, <4>1, <4>2
    <3> HIDE DEF multi, id, calls, end, complete
    <3>2. (receiveQueue \in Seq(Sound(cut)) /\ Rising(receiveQueue))'
      BY <2>5, <3>1 DEF Queued
    <3>3. Before(Range(receiveQueue'), L)
      BY <2>5, <3>1 DEF Queued, Before, Range
    <3>4. OneIdWaits'
      <4> SUFFICES ASSUME NEW k \in DOMAIN multi
                   PROVE  multi[k].count > 1 /\ multi[k].id = multi[1].id
        BY <3>1 DEF OneIdWaits
      <4>1. 1 \in DOMAIN multi
        BY <2>4
      <4> QED
        BY <2>3, <4>1 DEF Waits, Queued
    <3> QED
      BY <1>15, <2>1, <2>3, <2>4, <3>1, <3>2, <3>3, <3>4
  <2>8. CASE complete # <<>>
    <3>1. multi # <<>> /\ Len(multi) = multi[1].count /\ complete = Joined(multi)
      BY <2>8 DEF Joined
    <3>2. complete \in Seq(Seq(Packets))
      BY <2>4, <3>1, JoinedType
    <3>3. receiveQueue' = <<>> /\ received' = calls \o Joined(multi)
      BY <2>6, <2>8, <3>1
    <3> HIDE DEF multi, id, calls, end, complete
    <3>4. Calls(cut, received', L)
      BY <2>3, <2>4, <2>5, <3>1, <3>3, JoinCalls
    <3>5. intact => Complete(cut, received', L)
      BY <1>8, <2>3, <2>4, <2>5, <3>1, <3>3, JoinComplete
    <3>6. Range(receiveQueue') = {}
      BY <3>3 DEF Range
    <3>7. Range(receiveQueue') \cup L = L /\ Before(Range(receiveQueue'), L)
      BY <3>6 DEF Before
    <3>8. (receiveQueue \in Seq(Sound(cut)) /\ Rising(receiveQueue))' /\ OneIdWaits'
      BY <3>3 DEF Rising, OneIdWaits
    <3>9. received' \in Seq(Seq(Packets))
      BY <2>4, <3>1, <3>2, <3>3
    <3> QED
      BY <1>15, <2>1, <3>4, <3>5, <3>7, <3>8, <3>9
  <2> QED
    BY <2>7, <2>8
<1> QED
  BY <1>16, <1>17

\* When one more message is split, the packets of the others stay what they are.
Grows(cut, m, sizes, more) ==
  /\ Cut(more) /\ Len(more) = m /\ m \in Nat
  /\ Sound(cut) \subseteq Sound(more)
  /\ \A p \in Sound(more) : p.message < m => p \in Sound(cut)
  /\ PacketsOf(m, sizes) \in Seq(Sound(more))
  /\ Rising(PacketsOf(m, sizes))
  /\ \A p \in Sound(more) : p \in Range(PacketsOf(m, sizes)) <=> p.message = m
  /\ \A p \in Range(PacketsOf(m, sizes)) : p.message = m

\* With a further message cut, the packets are the old ones and those of the message.
LEMMA SoundGrows ==
  ASSUME NEW cut, Cut(cut), NEW m, m = Len(cut) + 1, m \in DOMAIN Bytes,
         NEW sizes \in Splits(Bytes[m]), NEW more, more = Append(cut, sizes)
  PROVE  Grows(cut, m, sizes, more)
<1> DEFINE P == PacketsOf(m, sizes)
<1>1. cut \in Seq(Seq(Nat)) /\ Len(cut) \in Nat /\ m \in 1..Len(Bytes)
  BY MessagesAreNumbered DEF Cut
<1>2. sizes \in Seq(Nat)
  <2>1. Bytes[m] \in Seq(Widths)
    BY RadioConstants
  <2> QED
    BY <2>1, SplitIsGood
<1>3. /\ more \in Seq(Seq(Nat)) /\ Len(more) = m /\ more[m] = sizes
      /\ \A k \in 1..Len(cut) : more[k] = cut[k]
  <2> DEFINE X == Seq(Nat)
  <2>1. sizes \in X /\ cut \in Seq(X)
    BY <1>1, <1>2
  <2> HIDE DEF X
  <2>2. /\ more \in Seq(X) /\ Len(more) = Len(cut) + 1 /\ more[Len(cut) + 1] = sizes
        /\ \A k \in 1..Len(cut) : more[k] = cut[k]
    BY <2>1
  <2> QED
    BY <2>2 DEF X
<1>4. \A k \in 1..m : k \in 1..Len(cut) \/ k = m
  BY <1>1
<1>5. Cut(more)
  <2>1. \A k \in 1..m : more[k] \in Splits(Bytes[k])
    BY <1>3, <1>4 DEF Cut
  <2>2. m <= Len(Bytes)
    BY <1>1, MessagesAreNumbered
  <2> QED
    BY <1>3, <2>1, <2>2 DEF Cut
<1>6. ASSUME NEW p \in Sound(cut) PROVE p \in Sound(more)
  <2>1. p \in Packets /\ p.message \in 1..Len(cut)
    BY SoundPacket
  <2>2. \E i \in 1..Len(cut[p.message]) : p = PacketsOf(p.message, cut[p.message])[i]
    BY SoundPacket
  <2>3. p.message \in 1..Len(more) /\ more[p.message] = cut[p.message]
    BY <1>1, <1>3, <2>1
  <2> QED
    BY <2>1, <2>2, <2>3 DEF Sound
<1>7. ASSUME NEW p \in Sound(more), p.message < m PROVE p \in Sound(cut)
  <2>1. p \in Packets /\ p.message \in 1..Len(more)
    BY <1>5, SoundPacket
  <2>2. \E i \in 1..Len(more[p.message]) : p = PacketsOf(p.message, more[p.message])[i]
    BY DEF Sound
  <2>3. p.message \in 1..Len(cut)
    BY <1>1, <1>3, <1>7, <2>1
  <2>4. more[p.message] = cut[p.message]
    BY <1>3, <2>3
  <2> QED
    BY <2>1, <2>2, <2>3, <2>4 DEF Sound
<1>8. P \in Seq(Packets) /\ Len(P) = Len(sizes) /\ Len(sizes) \in Nat
  BY PacketsOfMessage
<1>9. ASSUME NEW i \in 1..Len(sizes) PROVE P[i] \in Sound(more) /\ P[i].message = m
  <2>1. m \in 1..Len(more) /\ i \in 1..Len(more[m])
    BY <1>1, <1>3
  <2>2. PacketsOf(m, more[m])[i] \in Sound(more) /\ PacketsOf(m, more[m])[i].message = m
    BY <1>5, <2>1, MessageHasPacket
  <2> QED
    BY <1>3, <2>2
<1>10. ASSUME NEW i \in 1..Len(sizes), NEW j \in 1..Len(sizes), i < j PROVE Sent(P[i], P[j])
  <2>1. m \in 1..Len(more) /\ i \in 1..Len(more[m]) /\ j \in 1..Len(more[m])
    BY <1>1, <1>3
  <2>2. Sent(PacketsOf(m, more[m])[i], PacketsOf(m, more[m])[j])
    BY <1>5, <1>10, <2>1, IndexOrder
  <2> QED
    BY <1>3, <2>2
<1> HIDE DEF P
<1>11. P \in Seq(Sound(more)) /\ Rising(P)
  <2>1. \A k \in DOMAIN P : P[k] \in Sound(more)
    BY <1>8, <1>9
  <2>2. P \in Seq(Sound(more))
    BY <1>8, <2>1, SeqOfElements
  <2> QED
    BY <1>8, <1>10, <2>2 DEF Rising
<1>12. \A p \in Range(P) : p.message = m
  BY <1>8, <1>9 DEF Range
<1>13. ASSUME NEW p \in Sound(more), p.message = m PROVE p \in Range(P)
  <2>1. \E i \in 1..Len(more[p.message]) : p = PacketsOf(p.message, more[p.message])[i]
    BY DEF Sound
  <2>2. PICK i \in 1..Len(sizes) : p = P[i]
    BY <1>3, <1>13, <2>1 DEF P
  <2> QED
    BY <1>8, <2>2 DEF Range
<1> QED
  BY <1>1, <1>3, <1>5, <1>6, <1>7, <1>11, <1>12, <1>13 DEF P, Grows

\* The callbacks there were are as they were, and the new packets come after them.
LEMMA CallsGrow ==
  ASSUME NEW cut, Cut(cut), NEW more, Sound(cut) \subseteq Sound(more), NEW m \in Int,
         Len(cut) < m, NEW calls, NEW S, Calls(cut, calls, S), NEW T,
         \A q \in T : q \in S \/ q.message = m
  PROVE  Calls(more, calls, T)
<1>1. ASSUME NEW i \in DOMAIN calls PROVE Good(more, calls[i]) /\ Last(calls[i]) \in Sound(cut)
  <2> DEFINE c == calls[i]
  <2>1. Good(cut, c)
    BY DEF Calls
  <2> HIDE DEF c
  <2>2. c \in Seq(Sound(more))
    <3>1. \A k \in DOMAIN c : c[k] \in Sound(more)
      BY <2>1 DEF Good
    <3>2. c \in Seq(Sound(cut))
      BY <2>1 DEF Good
    <3> QED
      BY <3>1, <3>2, SeqOfElements
  <2>3. Good(more, c)
    BY <2>1, <2>2 DEF Good
  <2>4. Last(c) \in Sound(cut)
    BY <2>1 DEF Good, Last
  <2> QED
    BY <2>3, <2>4 DEF c
<1>2. ASSUME NEW i \in DOMAIN calls, NEW q \in T PROVE After(calls[i], q)
  <2>1. CASE q \in S
    BY <2>1 DEF Calls
  <2>2. CASE q.message = m
    <3>1. Last(calls[i]).message \in 1..Len(cut) /\ Len(cut) \in Nat
      BY <1>1, SoundPacket DEF Cut
    <3>2. Last(calls[i]).message < q.message
      BY <2>2, <3>1
    <3> QED
      BY <3>2 DEF After, Sent
  <2> QED
    BY <2>1, <2>2
<1> QED
  BY <1>1, <1>2 DEF Calls

\* transmit() queues the packets of the next message.
LEMMA MessageKeeps ==
  ASSUME RadioTypeOK, NEW cut, RadioInv(cut), TransmitMessage
  PROVE  RadioTypeOK' /\ \E more : RadioInv(more)'
<1> DEFINE m == Len(cut) + 1
<1>1. Len(cut) = currPacket /\ Cut(cut) /\ Len(cut) \in Nat
  BY DEF RadioInv, Cut
<1>2. PICK sizes \in Splits(Bytes[m]) : transmitQueue' = transmitQueue \o PacketsOf(m, sizes)
  BY <1>1 DEF TransmitMessage
<1>3. /\ currPacket' = m /\ m \in 0..Len(Bytes) /\ m \in DOMAIN Bytes
      /\ UNCHANGED <<air, receiveQueue, received, unfit, lost>>
  <2>1. currPacket < Len(Bytes) /\ currPacket' = currPacket + 1
        /\ UNCHANGED <<air, receiveQueue, received, unfit, lost>>
    BY DEF TransmitMessage
  <2> QED
    BY <1>1, <2>1, MessagesAreNumbered
<1> DEFINE more == Append(cut, sizes)
           P == PacketsOf(m, sizes)
<1>4. /\ Cut(more) /\ Len(more) = m /\ m \in Nat
      /\ Sound(cut) \subseteq Sound(more)
      /\ \A p \in Sound(more) : p.message < m => p \in Sound(cut)
      /\ P \in Seq(Sound(more)) /\ Rising(P)
      /\ \A p \in Sound(more) : p \in Range(P) <=> p.message = m
      /\ \A p \in Range(P) : p.message = m
  <2>1. m = Len(cut) + 1 /\ more = Append(cut, sizes) /\ P = PacketsOf(m, sizes)
        /\ m \in DOMAIN Bytes
    BY <1>3
  <2> HIDE DEF m, more, P
  <2>2. sizes \in Splits(Bytes[m])
    BY DEF m
  <2>3. Grows(cut, m, sizes, more)
    BY <1>1, <2>1, <2>2, SoundGrows
  <2> QED
    BY <2>3 DEF Grows, P
<1>5. Len(cut) < m
  BY <1>1
<1>6. transmitQueue' = transmitQueue \o P
  BY <1>2
<1> HIDE DEF more, P, m
<1>7. Underway(cut)
  BY DEF RadioInv
<1>8. ASSUME NEW s, s \in Seq(Sound(cut))
      PROVE  /\ s \in Seq(Sound(more))
             /\ \A p \in Range(s) : p \in Sound(cut) /\ p.message \in 1..Len(cut)
  <2>1. \A k \in DOMAIN s : s[k] \in Sound(cut)
    BY <1>8
  <2>2. \A k \in DOMAIN s : s[k] \in Sound(more)
    BY <1>4, <2>1
  <2>3. s \in Seq(Sound(more))
    BY <1>8, <2>2, SeqOfElements
  <2>4. \A p \in Range(s) : p \in Sound(cut)
    BY <2>1 DEF Range
  <2>5. \A p \in Range(s) : p.message \in 1..Len(cut)
    BY <1>1, <2>4, SoundPacket
  <2> QED
    BY <2>3, <2>4, <2>5
<1>9. /\ receiveQueue \in Seq(Sound(more)) /\ air \in Seq(Sound(more))
      /\ transmitQueue \in Seq(Sound(more))
  BY <1>7, <1>8 DEF Underway
<1>10. \A p \in Coming : p \in Sound(cut) /\ p.message \in 1..Len(cut)
  <2>1. \A p \in Range(receiveQueue) : p \in Sound(cut) /\ p.message \in 1..Len(cut)
    BY <1>7, <1>8 DEF Underway
  <2>2. \A p \in Range(air) : p \in Sound(cut) /\ p.message \in 1..Len(cut)
    BY <1>7, <1>8 DEF Underway
  <2>3. \A p \in Range(transmitQueue) : p \in Sound(cut) /\ p.message \in 1..Len(cut)
    BY <1>7, <1>8 DEF Underway
  <2> QED
    BY <2>1, <2>2, <2>3 DEF Coming
<1>11. Before(Coming, Range(P))
  <2> SUFFICES ASSUME NEW p \in Coming, NEW q \in Range(P) PROVE Sent(p, q)
    BY DEF Before
  <2>1. p.message \in 1..Len(cut) /\ q.message = m
    BY <1>4, <1>10
  <2>2. p.message < q.message
    BY <1>1, <1>5, <2>1 DEF m
  <2> QED
    BY <2>2 DEF Sent
<1>12. /\ transmitQueue' \in Seq(Sound(more))
       /\ Range(transmitQueue') = Range(transmitQueue) \cup Range(P)
       /\ Rising(transmitQueue')
  <2>1. Range(transmitQueue \o P) = Range(transmitQueue) \cup Range(P)
    BY <1>4, <1>9, RangeOfConcat
  <2>2. Rising(transmitQueue)
    BY <1>7 DEF Underway
  <2>3. Before(Range(transmitQueue), Range(P))
    BY <1>11 DEF Before, Coming
  <2>4. Rising(transmitQueue \o P)
    BY <1>4, <1>9, <2>2, <2>3, RisingConcat
  <2>5. transmitQueue \o P \in Seq(Sound(more))
    BY <1>4, <1>9
  <2> QED
    BY <1>6, <2>1, <2>4, <2>5
<1>13. Underway(more)'
  <2>1. (/\ receiveQueue \in Seq(Sound(more)) /\ air \in Seq(Sound(more))
         /\ transmitQueue \in Seq(Sound(more))
         /\ Rising(receiveQueue) /\ Rising(air) /\ Rising(transmitQueue)
         /\ Before(Range(receiveQueue), Range(air)))'
    BY <1>3, <1>7, <1>9, <1>12 DEF Underway
  <2>2. Before(Range(receiveQueue'), Range(transmitQueue'))
    BY <1>3, <1>7, <1>11, <1>12 DEF Underway, Before, Coming
  <2>3. Before(Range(air'), Range(transmitQueue'))
    BY <1>3, <1>7, <1>11, <1>12 DEF Underway, Before, Coming
  <2> QED
    BY <2>1, <2>2, <2>3 DEF Underway
<1>14. Coming' = Coming \cup Range(P)
  BY <1>3, <1>12 DEF Coming
<1>15. Calls(more, received, Coming)'
  <2>1. Calls(cut, received, Coming)
    BY DEF RadioInv
  <2>2. m \in Int /\ \A q \in Coming' : q \in Coming \/ q.message = m
    BY <1>4, <1>14
  <2> DEFINE T == Coming'
  <2>3. Calls(more, received, T)
    <3> HIDE DEF T
    <3>1. \A q \in T : q \in Coming \/ q.message = m
      BY <2>2 DEF T
    <3> QED
      BY <1>1, <1>4, <1>5, <2>1, <2>2, <3>1, CallsGrow
  <2> QED
    BY <1>3, <2>3
<1>16. ASSUME Intact' PROVE Complete(more, received, Coming)'
  <2>1. Intact
    BY <1>3, <1>16 DEF Intact
  <2>2. PICK d \in Nat : Until(cut, d, received, Coming)
    BY <2>1 DEF RadioInv, Complete
  <2>3. d \in 0..Len(cut) /\ d \in 0..Len(more) /\ d < m
    BY <1>1, <1>4, <1>5, <2>2 DEF Until, m
  <2>4. ASSUME NEW p \in Sound(more) PROVE p \in Coming' <=> p.message > d
    <3>1. p.message \in 1..Len(more)
      BY <1>4, SoundPacket
    <3>2. CASE p.message < m
      <4>1. p \in Sound(cut) /\ p \notin Range(P)
        BY <1>4, <3>1, <3>2
      <4> QED
        BY <1>14, <2>2, <4>1 DEF Until
    <3>3. CASE p.message = m
      <4>1. p \in Coming'
        BY <1>4, <1>14, <3>3
      <4> QED
        BY <1>4, <2>3, <3>3, <4>1
    <3> QED
      BY <1>4, <3>1, <3>2, <3>3
  <2>5. Until(more, d, received, Coming')
    BY <2>2, <2>3, <2>4 DEF Until
  <2>6. Complete(more, received', Coming')
    BY <1>3, <2>5 DEF Complete
  <2> QED
    BY <2>6
<1>17. OneIdWaits' /\ Short'
  BY <1>3 DEF RadioInv, OneIdWaits, Short
<1>18. RadioInv(more)'
  BY <1>3, <1>4, <1>13, <1>15, <1>16, <1>17 DEF RadioInv
<1>19. RadioTypeOK'
  <2>1. (currPacket \in 0..Len(Bytes) /\ received \in Seq(Seq(Packets))
         /\ unfit \subseteq DOMAIN Bytes /\ lost \in 0..MaxLost)'
    BY <1>3 DEF RadioTypeOK
  <2> QED
    BY <1>13, <2>1, NextTypes
<1> QED
  BY <1>18, <1>19

\* Every step keeps the invariant.
LEMMA RadioKeeps == RadioInvariant /\ [RadioNext]_radioVars => RadioInvariant'
<1> SUFFICES ASSUME RadioInvariant, [RadioNext]_radioVars PROVE RadioInvariant'
  OBVIOUS
<1>1. RadioTypeOK
  BY DEF RadioInvariant
<1>2. PICK cut : RadioInv(cut)
  BY DEF RadioInvariant
<1>3. CASE TransmitMessage
  BY <1>1, <1>2, <1>3, MessageKeeps DEF RadioInvariant
<1>4. CASE TransmitPackets
  BY <1>1, <1>2, <1>4, BurstKeeps DEF RadioInvariant
<1>5. CASE Lose
  BY <1>1, <1>2, <1>5, LoseKeeps DEF RadioInvariant
<1>6. CASE ReceivePackets
  BY <1>1, <1>2, <1>6, ReceiveKeeps DEF RadioInvariant
<1>7. CASE UNCHANGED radioVars
  <2>1. RadioTypeOK'
    BY <1>1, <1>7 DEF RadioTypeOK, radioVars
  <2>2. RadioInv(cut)'
    BY <1>2, <1>7 DEF RadioInv, Underway, OneIdWaits, Coming, Intact, Short, radioVars
  <2> QED
    BY <2>1, <2>2 DEF RadioInvariant
<1> QED
  BY <1>3, <1>4, <1>5, <1>6, <1>7 DEF RadioNext

\* The inductive invariant of the radio link holds in every reachable state, for any
\* messages, payload and frame sizes, bursts and losses.
THEOREM RadioInvariance == RadioSpec => []RadioInvariant
BY RadioStarts, RadioKeeps, PTL DEF RadioSpec

\* RadioTypeOK: the queues of XbeePacketNetwork and the frames on the air hold packets
\* of the messages that have been given to transmit().
THEOREM RadioTypeCorrect == RadioSpec => []RadioTypeOK
<1>1. RadioInvariant => RadioTypeOK
  BY DEF RadioInvariant
<1> QED
  BY <1>1, RadioInvariance, PTL

------------------------------------------------------------------------------
(* What the callback gets.                                                   *)

\* Two packets of a callback have the same id, so their messages are a multiple of
\* the number of ids apart.
LEMMA SameIdApart ==
  ASSUME NEW cut, Cut(cut), NEW p \in Sound(cut), NEW q \in Sound(cut), p.id = q.id
  PROVE  (p.message - q.message) % IdCount = 0
<1>1. /\ p.message \in Int /\ q.message \in Int
      /\ p.id = (p.message - 1) % IdCount /\ q.id = (q.message - 1) % IdCount
  BY SoundPacket, MessagesAreNumbered
<1>2. IdCount \in Nat \ {0}
  BY RadioConstants
<1>3. PICK a \in Int : a = p.message - 1
  BY <1>1
<1>4. PICK b \in Int : b = q.message - 1
  BY <1>1
<1>5. a % IdCount = b % IdCount
  BY <1>1, <1>3, <1>4
<1>6. (a - b) % IdCount = 0
  BY <1>2, <1>5, SameRemainder
<1>7. a - b = p.message - q.message
  BY <1>1, <1>3, <1>4
<1> QED
  BY <1>6, <1>7

\* Division with remainder.
LEMMA Division ==
  ASSUME NEW a \in Nat, NEW n \in Nat \ {0}
  PROVE  a = n * (a \div n) + (a % n) /\ a \div n \in Int /\ a % n \in 0..(n - 1)
OBVIOUS

\* There is only one remainder.
LEMMA OneRemainder ==
  ASSUME NEW a \in Int, NEW n \in Nat \ {0}, NEW r \in 0..(n - 1), NEW q \in Int,
         a = n * q + r
  PROVE  a % n = r
OBVIOUS

\* One times more.
LEMMA OnceMore ==
  ASSUME NEW q \in Int, NEW n \in Nat \ {0}
  PROVE  n * (q + 1) = n * q + n /\ n * q \in Int
OBVIOUS

\* The remainder may be taken after each step of a sum.
LEMMA SumRemainder ==
  ASSUME NEW a \in Nat, NEW n \in Nat \ {0}, NEW b \in 0..(n - 1)
  PROVE  ((a % n) + b) % n = (a + b) % n
<1> DEFINE q == a \div n
           r == a % n
<1>1. a = n * q + r /\ q \in Int /\ r \in 0..(n - 1)
  BY Division
<1> HIDE DEF q, r
<1>2. n * q \in Int /\ n * (q + 1) = n * q + n /\ q + 1 \in Int
  BY <1>1, OnceMore
<1>3. CASE r + b < n
  <2>1. r + b \in 0..(n - 1) /\ a + b = n * q + (r + b) /\ a + b \in Int
    BY <1>1, <1>2, <1>3
  <2>2. (a + b) % n = r + b
    BY <1>1, <2>1, OneRemainder
  <2>3. (r + b) % n = r + b
    BY <1>1, <1>3
  <2> QED
    BY <2>2, <2>3 DEF r
<1>4. CASE r + b >= n
  <2>1. r + b - n \in 0..(n - 1) /\ a + b = n * (q + 1) + (r + b - n) /\ a + b \in Int
    BY <1>1, <1>2, <1>4
  <2>2. (a + b) % n = r + b - n
    BY <1>2, <2>1, OneRemainder
  <2>3. (r + b) % n = r + b - n
    <3>1. r + b = n * 1 + (r + b - n) /\ r + b \in Int
      BY <1>1
    <3> QED
      BY <2>1, <3>1, OneRemainder
  <2> QED
    BY <2>2, <2>3 DEF r
<1> QED
  BY <1>1, <1>3, <1>4

\* What processPacket() has summed up before.
SumTurn(c, g, i) == IF i = 0 THEN 0 ELSE (g[i - 1] + c[i].size) % SizeCount

\* The 8 bits processPacket() sums up are the sum modulo 256.
LEMMA PayloadLoop ==
  ASSUME NEW c \in Seq(Packets), NEW s \in Seq(Nat), Len(c) = Len(s),
         \A i \in 1..Len(s) : c[i].size = s[i]
  PROVE  PayloadSize(c) = Offsets(s)[Len(s)] % SizeCount
<1> DEFINE V == Nat
           m == Len(c)
           step == [i \in 1..m |-> [x \in Nat |-> (x + c[i].size) % SizeCount]]
           G == CHOOSE g : g = [i \in 0..m |-> SumTurn(c, g, i)]
           at == Offsets(s)
<1>1. m \in Nat /\ 0 \in V
  OBVIOUS
<1>13. SizeCount \in Nat \ {0}
  BY RadioConstants
<1>14. \A i \in 1..m : c[i].size \in 0..(SizeCount - 1)
  <2> SUFFICES ASSUME NEW i \in 1..m PROVE c[i].size \in 0..(SizeCount - 1)
    OBVIOUS
  <2>1. c[i] \in Packets
    OBVIOUS
  <2> QED
    BY <2>1 DEF Packets
<1>2. step \in Turns(m, V)
  <2> SUFFICES ASSUME NEW i \in 1..m, NEW x \in Nat
               PROVE  (x + c[i].size) % SizeCount \in Nat
    BY DEF Turns
  <2>1. PICK b \in Nat : b = c[i].size
    BY <1>13, <1>14
  <2>2. (x + b) % SizeCount \in Nat
    BY <1>13
  <2> QED
    BY <2>1, <2>2
<1>3. PICK g : /\ \A i \in 0..m : g[i] \in V
               /\ g = [i \in 0..m |-> IF i = 0 THEN 0 ELSE step[i][g[i - 1]]]
  <2> HIDE DEF step, m, V, G, at
  <2>1. \E g : (\A i \in 0..m : g[i] \in V) /\ Loop(m, 0, step, g)
    BY <1>1, <1>2, LoopComputes, Zenon
  <2> QED
    BY <2>1 DEF Loop
<1>4. \A i \in 0..m : g[i] = SumTurn(c, g, i)
  <2> SUFFICES ASSUME NEW i \in 0..m PROVE g[i] = SumTurn(c, g, i)
    OBVIOUS
  <2>1. g[i] = IF i = 0 THEN 0 ELSE step[i][g[i - 1]]
    BY <1>3, Zenon
  <2>2. CASE i = 0
    BY <2>1, <2>2 DEF SumTurn
  <2>3. CASE i # 0
    <3>1. i \in 1..m /\ i - 1 \in 0..m
      BY <2>3
    <3>2. g[i - 1] \in Nat
      BY <1>3, <3>1, Zenon
    <3> QED
      BY <2>1, <2>3, <3>1, <3>2 DEF SumTurn
  <2> QED
    BY <2>2, <2>3
<1>5. g = [i \in 0..m |-> SumTurn(c, g, i)]
  <2>1. g = [i \in 0..m |-> g[i]]
    BY <1>3
  <2> QED
    BY <1>4, <2>1, Zenon
<1>6. G = [i \in 0..m |-> SumTurn(c, G, i)]
  BY <1>5, Zenon
<1>7. PayloadSize(c) = G[Len(c)]
  BY DEF PayloadSize, SumTurn
<1>8. G[0] = 0 /\ \A i \in 1..m : G[i] = (G[i - 1] + c[i].size) % SizeCount
  <2> HIDE DEF G
  <2>1. \A i \in 0..m : G[i] = SumTurn(c, G, i)
    BY <1>6, Zenon
  <2> QED
    BY <2>1 DEF SumTurn
<1> HIDE DEF G
<1>9. /\ \A i \in 0..m : at[i] \in Nat
      /\ at[0] = 0
      /\ \A i \in 1..m : at[i] = at[i - 1] + c[i].size
  BY OffsetsLoop
<1> HIDE DEF at, m
<1> DEFINE T == {i \in 0..m : G[i] = at[i] % SizeCount}
<1>10. 0 \in T
  <2>1. 0 % SizeCount = 0
    BY <1>13
  <2> QED
    BY <1>1, <1>8, <1>9, <2>1
<1>11. ASSUME NEW i \in 1..m, i - 1 \in T PROVE i \in T
  <2>1. i - 1 \in 0..m /\ i \in 0..m
    BY <1>1
  <2>2. PICK a \in Nat, b \in 0..(SizeCount - 1) :
          a = at[i - 1] /\ b = c[i].size
    BY <1>9, <1>14, <2>1
  <2>3. G[i - 1] = a % SizeCount
    BY <1>11, <2>2
  <2>4. G[i] = ((a % SizeCount) + b) % SizeCount
    BY <1>8, <2>2, <2>3
  <2>5. G[i] = (a + b) % SizeCount
    BY <1>13, <2>4, SumRemainder
  <2>6. at[i] = a + b
    BY <1>9, <2>2
  <2>7. G[i] = at[i] % SizeCount
    BY <2>5, <2>6
  <2> QED
    BY <2>1, <2>7
<1>12. m \in T
  <2> HIDE DEF T
  <2>1. \A i \in 0..m : i \in T
    BY <1>1, <1>10, <1>11, InductionUpTo
  <2> QED
    BY <1>1, <2>1
<1> QED
  BY <1>7, <1>12 DEF at, m

\* The packets a message is split into are the whole message.
LEMMA PacketsAreWhole ==
  ASSUME NEW cut, Cut(cut), NEW m \in 1..Len(cut), NEW c, c = PacketsOf(m, cut[m])
  PROVE  WholeMessage(c) /\ c[1].no = 1
<1> DEFINE s == cut[m]
           n == Len(s)
           at == Offsets(s)
<1>1. m \in DOMAIN Bytes /\ s \in Splits(Bytes[m])
  BY MessagesAreNumbered DEF Cut
<1>2. c \in Seq(Packets) /\ Len(c) = n /\ n \in Nat \ {0}
  BY <1>1, PacketsOfMessage
<1>3. ASSUME NEW i \in 1..n
      PROVE  /\ c[i].message = m /\ c[i].count = n /\ c[i].from = at[i - 1]
             /\ c[i].size = s[i] /\ c[i].no = i
  <2>1. c[i] = [message |-> m, id |-> (m - 1) % IdCount, count |-> Len(s),
                no |-> i, from |-> Offsets(s)[i - 1], size |-> s[i]]
    <3>1. c = PacketsOf(m, s) /\ i \in 1..Len(s)
      OBVIOUS
    <3> HIDE DEF s
    <3> QED
      BY <1>1, <3>1, PacketsOfMessage
  <2> HIDE DEF s, n
  <2> QED
    BY <2>1 DEF n
<1>4. Bytes[m] \in Seq(Widths)
  BY <1>1, RadioConstants
<1>5. s \in Seq(Nat)
  BY <1>1, <1>4, SplitIsGood
<1>6. at[0] = 0 /\ (\A i \in 1..n : at[i] = at[i - 1] + s[i])
  <2> HIDE DEF s
  <2> QED
    BY <1>5, OffsetsLoop
<1>7. Plain(Bytes[m]) /\ 2 * Len(Bytes[m]) < SizeCount => at[n] >= Len(Bytes[m])
  <2> HIDE DEF s
  <2> QED
    BY <1>1, <1>4, PlainIsCovered
<1>8. PayloadSize(c) = at[n] % SizeCount
  <2> HIDE DEF s
  <2>1. \A i \in 1..n : c[i].size = s[i]
    BY <1>3
  <2> QED
    BY <1>2, <1>5, <2>1, PayloadLoop
<1> HIDE DEF at, n, s
<1>13. c[1].message = m /\ c[1].count = n /\ c[1].from = 0 /\ c[1].no = 1
  <2>1. 1 \in 1..n /\ 1 - 1 = 0
    BY <1>2
  <2> QED
    BY <1>3, <1>6, <2>1
<1>9. \A p \in Range(c) : p.message = m
  BY <1>2, <1>3 DEF Range
<1>10. ASSUME NEW i \in 1..n - 1 PROVE c[i + 1].from = c[i].from + c[i].size
  <2>1. i \in 1..n /\ i + 1 \in 1..n /\ (i + 1) - 1 = i
    BY <1>2
  <2> QED
    BY <1>3, <1>6, <2>1
<1>11. Copied(c) = at[n]
  <2>1. n \in 1..n
    BY <1>2
  <2> QED
    BY <1>2, <1>3, <1>6, <2>1 DEF Last, Copied
<1> QED
  BY <1>2, <1>7, <1>8, <1>9, <1>10, <1>11, <1>13 DEF WholeMessage

\* A callback gets a whole message, or its packets are of several ones.
LEMMA GoodIsWhole ==
  ASSUME NEW cut, Cut(cut), NEW c, Good(cut, c)
  PROVE  \/ /\ RunOf(c, cut, c[1].message) /\ c[1].no = 1
            /\ WholeMessage(c)
         \/ Aliased(c)
<1> DEFINE m == c[1].message
<1>1. c \in Seq(Sound(cut)) /\ Len(c) \in Nat \ {0} /\ DOMAIN c = 1..Len(c) /\ 1 \in DOMAIN c
  BY DEF Good
<1>2. c[1] \in Sound(cut) /\ m \in 1..Len(cut) /\ c[1].count = Len(cut[m])
  BY <1>1, SoundPacket
<1>3. CASE \A k \in 1..Len(c) : c[k].message = m
  <2>1. RunOf(c, cut, m)
    BY <1>1, <1>3 DEF RunOf, Good
  <2>2. c = PacketsOf(m, cut[m])
    <3>1. Len(c) = Len(cut[m])
      BY <1>2 DEF Good
    <3> HIDE DEF m
    <3> QED
      BY <1>2, <2>1, <3>1, FullRun
  <2> HIDE DEF m
  <2>3. WholeMessage(c) /\ c[1].no = 1
    BY <1>2, <2>2, PacketsAreWhole
  <2> QED
    BY <2>1, <2>3 DEF m
<1>4. ASSUME NEW k \in 1..Len(c), c[k].message # m PROVE Aliased(c)
  <2>1. c[1] \in Range(c) /\ c[k] \in Range(c) /\ c[k].message # c[1].message
    BY <1>1, <1>4 DEF Range
  <2>2. ASSUME NEW p \in Range(c), NEW q \in Range(c)
        PROVE  (p.message - q.message) % IdCount = 0
    <3>1. p \in Sound(cut) /\ q \in Sound(cut)
      BY <1>1 DEF Range
    <3>2. p.id = q.id
      BY DEF Good, Range
    <3> QED
      BY <3>1, <3>2, SameIdApart
  <2> QED
    BY <2>1, <2>2 DEF Aliased
<1> QED
  BY <1>3, <1>4

\* A callback after another one is of a later message, or it was overtaken.
LEMMA LaterOrOvertaken ==
  ASSUME NEW cut, Cut(cut), NEW c, Good(cut, c), NEW e, Good(cut, e), After(c, e[1])
  PROVE  Last(c).message < Last(e).message \/ Overtook(c, e)
<1>1. /\ c \in Seq(Sound(cut)) /\ Len(c) \in Nat \ {0} /\ DOMAIN c = 1..Len(c)
      /\ e \in Seq(Sound(cut)) /\ Len(e) \in Nat \ {0} /\ DOMAIN e = 1..Len(e)
  BY DEF Good
<1>2. /\ Last(c) \in Sound(cut) /\ e[1] \in Sound(cut) /\ Last(e) \in Sound(cut)
      /\ Last(e) = e[Len(e)]
  BY <1>1 DEF Last
<1>3. /\ Last(c).message \in Int /\ e[1].message \in Int /\ Last(e).message \in Int
      /\ Last(c).no \in Nat \ {0} /\ e[1].no \in Nat
  <2>1. \A p \in Sound(cut) : p.message \in Int
    BY SoundPacket, MessagesAreNumbered
  <2>2. \A p \in Sound(cut) : p.no \in Nat \ {0}
    BY DEF Sound, Packets
  <2> QED
    BY <1>2, <2>1, <2>2
<1>4. ASSUME NEW k \in 1..Len(e)
      PROVE  e[1].message <= e[k].message /\ e[k].message <= Last(e).message
             /\ e[k].message \in Int
  <2>1. e[k].message \in Int
    BY <1>1, SoundPacket, MessagesAreNumbered
  <2>2. k = 1 \/ Sent(e[1], e[k])
    BY <1>1 DEF Good, Rising
  <2>3. k = Len(e) \/ Sent(e[k], e[Len(e)])
    BY <1>1 DEF Good, Rising
  <2> QED
    BY <1>2, <1>3, <2>1, <2>2, <2>3 DEF Sent
<1>5. CASE Sent(Last(c), e[1])
  <2>1. e[1].message <= Last(e).message
    BY <1>1, <1>4
  <2>2. Last(c).message <= e[1].message
    BY <1>3, <1>5 DEF Sent
  <2>3. Last(c).message # Last(e).message
    <3> SUFFICES ASSUME Last(c).message = Last(e).message PROVE FALSE
      OBVIOUS
    <3>1. Last(c).message = e[1].message
      BY <1>3, <2>1, <2>2
    <3>2. \A k \in 1..Len(e) : e[k].message = e[1].message
      BY <1>3, <1>4, <3>1
    <3>3. ~ Aliased(e)
      BY <1>1, <3>2 DEF Aliased, Range
    <3>4. e[1].no = 1
      BY <3>3, GoodIsWhole
    <3> QED
      BY <1>3, <1>5, <3>1, <3>4 DEF Sent
  <2> QED
    BY <1>3, <2>1, <2>2, <2>3
<1>6. CASE Len(c) = 1 /\ c[1].id = e[1].id /\ e[1].count > 1
  <2>1. c[1] \in Sound(cut) /\ c[1].count = 1 /\ Range(c) = {c[1]}
    BY <1>1, <1>6 DEF Good, Range
  <2>2. Len(e) > 1
    BY <1>6 DEF Good
  <2>3. Range(e \o c) = Range(e) \cup {c[1]}
    BY <1>1, <2>1, RangeOfConcat
  <2>4. e[1].message # c[1].message
    BY <1>2, <1>6, <2>1, OneMessage
  <2>5. e[1] \in Range(e)
    BY <1>1 DEF Range
  <2>6. ASSUME NEW p \in Range(e \o c) PROVE p \in Sound(cut) /\ p.id = c[1].id
    <3>1. CASE p = c[1]
      BY <2>1, <3>1
    <3>2. CASE p \in Range(e)
      BY <1>1, <1>6, <3>2 DEF Good, Range
    <3> QED
      BY <2>3, <3>1, <3>2
  <2>7. \A p, q \in Range(e \o c) : (p.message - q.message) % IdCount = 0
    <3> SUFFICES ASSUME NEW p \in Range(e \o c), NEW q \in Range(e \o c)
                 PROVE  (p.message - q.message) % IdCount = 0
      OBVIOUS
    <3>1. p \in Sound(cut) /\ q \in Sound(cut) /\ p.id = q.id
      BY <2>6
    <3> QED
      BY <3>1, SameIdApart
  <2>8. Aliased(e \o c)
    BY <2>3, <2>4, <2>5, <2>7 DEF Aliased
  <2> QED
    BY <1>6, <2>2, <2>8 DEF Overtook
<1> QED
  BY <1>5, <1>6 DEF After

\* The invariant implies ReceivedAsSent: good calls are whole messages or of one
\* id, their order is that of the messages, and completeness leaves no message out.
LEMMA InvariantIsAsSent == RadioInvariant => ReceivedAsSent
<1> SUFFICES ASSUME RadioInvariant PROVE ReceivedAsSent
  OBVIOUS
<1>1. RadioTypeOK
  BY DEF RadioInvariant
<1>2. PICK cut : RadioInv(cut)
  BY DEF RadioInvariant
<1>3. Cut(cut) /\ Calls(cut, received, Coming) /\ Len(cut) = currPacket
  BY <1>2 DEF RadioInv
<1>4. \A i \in DOMAIN received : WholeMessage(received[i]) \/ Aliased(received[i])
  BY <1>3, GoodIsWhole DEF Calls
<1>5. ASSUME NEW i \in DOMAIN received, NEW j \in DOMAIN received, i < j
      PROVE  \/ Last(received[i]).message < Last(received[j]).message
             \/ Overtook(received[i], received[j])
  <2>1. Good(cut, received[i]) /\ Good(cut, received[j]) /\ After(received[i], received[j][1])
    BY <1>3, <1>5 DEF Calls
  <2> QED
    BY <1>3, <2>1, LaterOrOvertaken
<1>6. ASSUME lost = 0, unfit = {}, NEW m \in 1..currPacket
      PROVE  \/ \E i \in DOMAIN received : Last(received[i]).message = m
             \/ \E p \in Range(transmitQueue \o air \o receiveQueue) : p.message = m
  <2>1. PICK d \in Nat : Until(cut, d, received, Coming)
    BY <1>2, <1>6 DEF RadioInv, Intact, Complete
  <2>2. currPacket \in Nat
    BY <1>1, MessagesAreNumbered DEF RadioTypeOK
  <2>3. CASE m <= d
    <3>1. m \in 1..d
      BY <2>2, <2>3
    <3> QED
      BY <2>1, <3>1 DEF Until
  <2>4. CASE m > d
    <3>1. m \in 1..Len(cut)
      BY <1>3
    <3>2. m \in DOMAIN Bytes /\ cut[m] \in Splits(Bytes[m])
      BY <1>3, <3>1, MessagesAreNumbered DEF Cut
    <3>3. Len(cut[m]) \in Nat \ {0}
      BY <3>2, PacketsOfMessage
    <3>4. 1 \in 1..Len(cut[m])
      BY <3>3
    <3>5. PICK p \in Sound(cut) : p.message = m
      BY <1>3, <3>1, <3>4, MessageHasPacket
    <3>6. p \in Coming
      BY <2>1, <2>4, <3>5 DEF Until
    <3>7. Range(transmitQueue \o air \o receiveQueue) = Coming
      <4>1. /\ transmitQueue \in Seq(Packets) /\ air \in Seq(Packets)
            /\ receiveQueue \in Seq(Packets)
        BY <1>1 DEF RadioTypeOK
      <4>2. Range(transmitQueue \o air) = Range(transmitQueue) \cup Range(air)
            /\ transmitQueue \o air \in Seq(Packets)
        BY <4>1, RangeOfConcat
      <4>3. Range((transmitQueue \o air) \o receiveQueue)
              = Range(transmitQueue \o air) \cup Range(receiveQueue)
        <5> DEFINE s == transmitQueue \o air
        <5>1. s \in Seq(Packets)
          BY <4>2
        <5> HIDE DEF s
        <5>2. Range(s \o receiveQueue) = Range(s) \cup Range(receiveQueue)
          BY <4>1, <5>1, RangeOfConcat
        <5> QED
          BY <5>2 DEF s
      <4> QED
        BY <4>2, <4>3 DEF Coming
    <3> QED
      BY <3>5, <3>6, <3>7
  <2> QED
    BY <2>2, <2>3, <2>4
<1> QED
  BY <1>4, <1>5, <1>6 DEF ReceivedAsSent

\* Whatever is lost on the way, a callback gets one message as it was sent unless
\* frames of messages with the same id have met, in the order they were sent in;
\* and when nothing is lost every message comes.
THEOREM MessagesComeAsSent == RadioSpec => []ReceivedAsSent
BY InvariantIsAsSent, RadioInvariance, PTL
==============================================================================
