--------------------------- MODULE HuffmanProofs ---------------------------
(***************************************************************************)
(* Proofs about the compression of messages: what decompress_data makes of *)
(* the output of compress_data is what was compressed, for all data of     *)
(* less than 2^31 bytes.                                                   *)
(*                                                                         *)
(* The argument follows the bytes.  A stream of bits and its bytes stand   *)
(* for each other (ByteComesBack, BitsComeBack).  The dictionary has every *)
(* byte of the data (DictionaryIs) and the merging makes one tree of it,   *)
(* whose leaves are the entries of the dictionary and whose nodes have     *)
(* higher numbers than their sons (TreeIs, TreeOfIs); so a statement about *)
(* all nodes is proved from the leaves upwards (TreeInduction), and the    *)
(* recursive definitions have values (TreeRecursion).  The bits of the     *)
(* tree are its nodes in preorder (PreorderIs, NodesAre); ReadTree finds   *)
(* the k-th of them as its node k, with the sons in the same places        *)
(* (DecodesAll, NextIs, ReadTreeIs).  Walking that tree along the code of  *)
(* a leaf ends in the leaf (CodeWalk), so the codes of the data are read   *)
(* back one after the other (ContentRead).  The header tells where the     *)
(* content ends and how long the data were (PaddingIs, SizeRead).          *)
(***************************************************************************)
EXTENDS Huffman, SequenceLemmas

Bits == {0, 1}

(* A function from 1..n is a sequence. *)
LEMMA FunctionIsSeq ==
    ASSUME NEW S, NEW n \in Nat, NEW s \in [1 .. n -> S]
    PROVE  s \in Seq(S) /\ Len(s) = n
OBVIOUS

-----------------------------------------------------------------------------
(* Bits and bytes. *)

\* The byte with the bits a, b, ..., h.
ByteWith(a, b, c, d, e, f, g, h) ==
    128 * a + 64 * b + 32 * c + 16 * d + 8 * e + 4 * f + 2 * g + h

LEMMA BitsOfByteIs ==
    ASSUME NEW b \in Bytes
    PROVE  /\ BitsOfByte(b) \in Seq(Bits) /\ Len(BitsOfByte(b)) = 8
           /\ BitsOfByte(b)[1] = (b \div 128) % 2 /\ BitsOfByte(b)[2] = (b \div 64) % 2
           /\ BitsOfByte(b)[3] = (b \div 32) % 2 /\ BitsOfByte(b)[4] = (b \div 16) % 2
           /\ BitsOfByte(b)[5] = (b \div 8) % 2 /\ BitsOfByte(b)[6] = (b \div 4) % 2
           /\ BitsOfByte(b)[7] = (b \div 2) % 2 /\ BitsOfByte(b)[8] = b % 2
<1>0. b \in 0 .. 255
    BY DEF Bytes
<1>1. PICK s : s = BitsOfByte(b)
    OBVIOUS
<1>2. s = [i \in 1 .. 8 |-> (b \div 2^(8 - i)) % 2]
    BY <1>1 DEF BitsOfByte
<1>3. /\ s[1] = (b \div 128) % 2 /\ s[2] = (b \div 64) % 2
      /\ s[3] = (b \div 32) % 2 /\ s[4] = (b \div 16) % 2
      /\ s[5] = (b \div 8) % 2 /\ s[6] = (b \div 4) % 2
      /\ s[7] = (b \div 2) % 2 /\ s[8] = (b \div 1) % 2
    BY <1>2
<1>4. b \div 1 = b
    BY <1>0
<1>5. ASSUME NEW i \in 1 .. 8 PROVE s[i] \in Bits
    BY <1>0, <1>3 DEF Bits
<1>6. s \in [1 .. 8 -> Bits]
    BY <1>2, <1>5
<1>7. s \in Seq(Bits) /\ Len(s) = 8
    BY <1>6, FunctionIsSeq, 8 \in Nat
<1> QED
    BY <1>1, <1>3, <1>4, <1>7

HasBits(x, a, b, c, d, e, f, g, h) ==
    /\ x \in Bytes
    /\ (x \div 128) % 2 = a /\ (x \div 64) % 2 = b /\ (x \div 32) % 2 = c
    /\ (x \div 16) % 2 = d /\ (x \div 8) % 2 = e /\ (x \div 4) % 2 = f
    /\ (x \div 2) % 2 = g /\ x % 2 = h

LEMMA BitsOfSum ==
    ASSUME NEW a \in Bits, NEW b \in Bits, NEW c \in Bits, NEW d \in Bits,
           NEW e \in Bits, NEW f \in Bits, NEW g \in Bits, NEW h \in Bits,
           NEW x, x = ByteWith(a, b, c, d, e, f, g, h)
    PROVE  HasBits(x, a, b, c, d, e, f, g, h)
<1>0. /\ a \in 0 .. 1 /\ b \in 0 .. 1 /\ c \in 0 .. 1 /\ d \in 0 .. 1
      /\ e \in 0 .. 1 /\ f \in 0 .. 1 /\ g \in 0 .. 1 /\ h \in 0 .. 1
    BY DEF Bits
<1>1. x = 128 * a + 64 * b + 32 * c + 16 * d + 8 * e + 4 * f + 2 * g + h
    BY DEF ByteWith
<1>2. x \in Bytes
    BY <1>0, <1>1 DEF Bytes
<1>3. x \div 128 = a
    BY <1>0, <1>1
<1>4. x \div 64 = 2 * a + b
    BY <1>0, <1>1
<1>5. x \div 32 = 4 * a + 2 * b + c
    BY <1>0, <1>1
<1>6. x \div 16 = 8 * a + 4 * b + 2 * c + d
    BY <1>0, <1>1
<1>7. x \div 8 = 16 * a + 8 * b + 4 * c + 2 * d + e
    BY <1>0, <1>1
<1>8. x \div 4 = 32 * a + 16 * b + 8 * c + 4 * d + 2 * e + f
    BY <1>0, <1>1
<1>9. x \div 2 = 64 * a + 32 * b + 16 * c + 8 * d + 4 * e + 2 * f + g
    BY <1>0, <1>1
<1> QED
    BY <1>0, <1>1, <1>2, <1>3, <1>4, <1>5, <1>6, <1>7, <1>8, <1>9 DEF HasBits

LEMMA SumOfBits ==
    ASSUME NEW x \in Bytes
    PROVE  ByteWith((x \div 128) % 2, (x \div 64) % 2, (x \div 32) % 2, (x \div 16) % 2,
                    (x \div 8) % 2, (x \div 4) % 2, (x \div 2) % 2, x % 2) = x
<1>0. x \in 0 .. 255
    BY DEF Bytes
<1>1. \A y \in Nat : y = 2 * (y \div 2) + (y % 2)
    OBVIOUS
<1>2. /\ x \div 4 = (x \div 2) \div 2 /\ x \div 8 = (x \div 4) \div 2
      /\ x \div 16 = (x \div 8) \div 2 /\ x \div 32 = (x \div 16) \div 2
      /\ x \div 64 = (x \div 32) \div 2 /\ x \div 128 = (x \div 64) \div 2
    BY <1>0
<1>3. (x \div 128) % 2 = x \div 128
    BY <1>0
<1> QED
    BY <1>0, <1>1, <1>2, <1>3 DEF ByteWith

\* What BytesOf makes of eight bits.
BitAt(bits, i) == IF i <= Len(bits) THEN bits[i] ELSE 0

LEMMA BytesOfIs ==
    ASSUME NEW bits \in Seq(Bits)
    PROVE  /\ BytesOf(bits) \in Seq(Bytes)
           /\ Len(BytesOf(bits)) = (Len(bits) + 7) \div 8
           /\ \A k \in 1 .. Len(BytesOf(bits)) :
                 BytesOf(bits)[k] =
                    ByteWith(BitAt(bits, 8 * k - 7), BitAt(bits, 8 * k - 6),
                             BitAt(bits, 8 * k - 5), BitAt(bits, 8 * k - 4),
                             BitAt(bits, 8 * k - 3), BitAt(bits, 8 * k - 2),
                             BitAt(bits, 8 * k - 1), BitAt(bits, 8 * k))
           /\ \A i \in Nat \ {0} : BitAt(bits, i) \in Bits
<1>1. PICK l \in Nat : l = Len(bits) /\ bits \in [1 .. l -> Bits]
    BY SeqIsFunction
<1>2. ASSUME NEW i \in Nat \ {0} PROVE BitAt(bits, i) \in Bits
    BY <1>1 DEF BitAt, Bits
<1>3. PICK n \in Nat : n = (l + 7) \div 8
    OBVIOUS
<1> DEFINE Value(k) ==
        ByteWith(BitAt(bits, 8 * k - 7), BitAt(bits, 8 * k - 6),
                 BitAt(bits, 8 * k - 5), BitAt(bits, 8 * k - 4),
                 BitAt(bits, 8 * k - 3), BitAt(bits, 8 * k - 2),
                 BitAt(bits, 8 * k - 1), BitAt(bits, 8 * k))
<1>4. PICK s : s = BytesOf(bits)
    OBVIOUS
<1>5. ASSUME NEW k \in 1 .. n PROVE /\ 8 * k - 8 + 1 = 8 * k - 7 /\ 8 * k - 8 + 2 = 8 * k - 6
                                     /\ 8 * k - 8 + 3 = 8 * k - 5 /\ 8 * k - 8 + 4 = 8 * k - 4
                                     /\ 8 * k - 8 + 5 = 8 * k - 3 /\ 8 * k - 8 + 6 = 8 * k - 2
                                     /\ 8 * k - 8 + 7 = 8 * k - 1 /\ 8 * k - 8 + 8 = 8 * k
    OBVIOUS
<1>6. s = [k \in 1 .. n |->
             LET b == 8 * k - 8 IN
             ByteWith(BitAt(bits, b + 1), BitAt(bits, b + 2), BitAt(bits, b + 3), BitAt(bits, b + 4),
                      BitAt(bits, b + 5), BitAt(bits, b + 6), BitAt(bits, b + 7), BitAt(bits, b + 8))]
    BY <1>1, <1>3, <1>4, Zenon DEF BytesOf, BitAt, ByteWith
<1>7. ASSUME NEW k \in 1 .. n PROVE s[k] = Value(k)
    BY <1>5, <1>6, Zenon
<1>8. ASSUME NEW k \in 1 .. n PROVE s[k] \in Bytes
  <2>1. /\ 8 * k - 7 \in Nat \ {0} /\ 8 * k - 6 \in Nat \ {0} /\ 8 * k - 5 \in Nat \ {0}
        /\ 8 * k - 4 \in Nat \ {0} /\ 8 * k - 3 \in Nat \ {0} /\ 8 * k - 2 \in Nat \ {0}
        /\ 8 * k - 1 \in Nat \ {0} /\ 8 * k \in Nat \ {0}
      OBVIOUS
  <2>2. /\ BitAt(bits, 8 * k - 7) \in Bits /\ BitAt(bits, 8 * k - 6) \in Bits
        /\ BitAt(bits, 8 * k - 5) \in Bits /\ BitAt(bits, 8 * k - 4) \in Bits
        /\ BitAt(bits, 8 * k - 3) \in Bits /\ BitAt(bits, 8 * k - 2) \in Bits
        /\ BitAt(bits, 8 * k - 1) \in Bits /\ BitAt(bits, 8 * k) \in Bits
      BY <1>2, <2>1
  <2>3. PICK a \in Bits, b \in Bits, c \in Bits, d \in Bits,
             e \in Bits, f \in Bits, g \in Bits, h \in Bits :
             Value(k) = ByteWith(a, b, c, d, e, f, g, h)
      BY <2>2, Zenon
  <2> HIDE DEF Value
  <2>4. s[k] = ByteWith(a, b, c, d, e, f, g, h)
      BY <1>7, <2>3
  <2>5. HasBits(s[k], a, b, c, d, e, f, g, h)
      BY <2>4, BitsOfSum, Zenon
  <2> QED
      BY <2>5 DEF HasBits
<1>9. s \in [1 .. n -> Bytes]
    BY <1>6, <1>8, Zenon
<1>10. s \in Seq(Bytes) /\ Len(s) = n
    BY <1>9, FunctionIsSeq
<1> QED
    BY <1>1, <1>2, <1>3, <1>4, <1>7, <1>10

\* A byte whose bits stand at a whole number of bytes comes back.
LEMMA ByteComesBack ==
    ASSUME NEW bits \in Seq(Bits), NEW k \in Nat \ {0}, NEW b \in Bytes,
           StandsAt(bits, 8 * k - 8, BitsOfByte(b))
    PROVE  k \in 1 .. Len(BytesOf(bits)) /\ BytesOf(bits)[k] = b
<1>1. PICK s : s = BitsOfByte(b) /\ Len(s) = 8
    BY BitsOfByteIs
<1>2. PICK l \in Nat : l = Len(bits)
    BY SeqIsFunction
<1>3. 8 * k - 8 + 8 <= l /\ \A j \in 1 .. 8 : bits[8 * k - 8 + j] = s[j]
    BY <1>1, <1>2 DEF StandsAt
<1>4. k \in 1 .. (l + 7) \div 8
    BY <1>3
<1>5. /\ BitAt(bits, 8 * k - 7) = s[1] /\ BitAt(bits, 8 * k - 6) = s[2]
      /\ BitAt(bits, 8 * k - 5) = s[3] /\ BitAt(bits, 8 * k - 4) = s[4]
      /\ BitAt(bits, 8 * k - 3) = s[5] /\ BitAt(bits, 8 * k - 2) = s[6]
      /\ BitAt(bits, 8 * k - 1) = s[7] /\ BitAt(bits, 8 * k) = s[8]
  <2>1. /\ 8 * k - 8 + 1 = 8 * k - 7 /\ 8 * k - 8 + 2 = 8 * k - 6
        /\ 8 * k - 8 + 3 = 8 * k - 5 /\ 8 * k - 8 + 4 = 8 * k - 4
        /\ 8 * k - 8 + 5 = 8 * k - 3 /\ 8 * k - 8 + 6 = 8 * k - 2
        /\ 8 * k - 8 + 7 = 8 * k - 1 /\ 8 * k - 8 + 8 = 8 * k
      OBVIOUS
  <2>2. /\ 8 * k - 7 <= l /\ 8 * k - 6 <= l /\ 8 * k - 5 <= l /\ 8 * k - 4 <= l
        /\ 8 * k - 3 <= l /\ 8 * k - 2 <= l /\ 8 * k - 1 <= l /\ 8 * k <= l
      BY <1>3
  <2>3. 1 \in 1 .. 8 /\ 2 \in 1 .. 8 /\ 3 \in 1 .. 8 /\ 4 \in 1 .. 8
        /\ 5 \in 1 .. 8 /\ 6 \in 1 .. 8 /\ 7 \in 1 .. 8 /\ 8 \in 1 .. 8
      OBVIOUS
  <2>4. /\ bits[8 * k - 7] = s[1] /\ bits[8 * k - 6] = s[2]
        /\ bits[8 * k - 5] = s[3] /\ bits[8 * k - 4] = s[4]
        /\ bits[8 * k - 3] = s[5] /\ bits[8 * k - 2] = s[6]
        /\ bits[8 * k - 1] = s[7] /\ bits[8 * k] = s[8]
      BY <1>3, <2>1, <2>3, Zenon
  <2> QED
      BY <1>2, <2>2, <2>4, Zenon DEF BitAt
<1>6. k \in 1 .. Len(BytesOf(bits))
    BY <1>2, <1>4, BytesOfIs
<1>7. BytesOf(bits)[k] = ByteWith(s[1], s[2], s[3], s[4], s[5], s[6], s[7], s[8])
    BY <1>5, <1>6, BytesOfIs, Zenon
<1>8. ByteWith(s[1], s[2], s[3], s[4], s[5], s[6], s[7], s[8]) = b
    BY <1>1, BitsOfByteIs, SumOfBits, Zenon
<1> QED
    BY <1>6, <1>7, <1>8

LEMMA BitsOfIs ==
    ASSUME NEW bytes \in Seq(Bytes)
    PROVE  /\ BitsOf(bytes) \in Seq(Bits) /\ Len(BitsOf(bytes)) = 8 * Len(bytes)
           /\ \A k \in 1 .. Len(bytes) : StandsAt(BitsOf(bytes), 8 * k - 8, BitsOfByte(bytes[k]))
<1>1. PICK l \in Nat : l = Len(bytes) /\ bytes \in [1 .. l -> Bytes]
    BY SeqIsFunction
<1>2. PICK s : s = BitsOf(bytes)
    OBVIOUS
<1>3. s = [i \in 1 .. 8 * l |-> BitsOfByte(bytes[(i - 1) \div 8 + 1])[((i - 1) % 8) + 1]]
    BY <1>1, <1>2 DEF BitsOf
<1>4. ASSUME NEW i \in 1 .. 8 * l PROVE s[i] \in Bits
  <2>1. PICK k \in 1 .. l : k = (i - 1) \div 8 + 1
      OBVIOUS
  <2>2. PICK j \in 1 .. 8 : j = ((i - 1) % 8) + 1
      OBVIOUS
  <2>3. bytes[k] \in Bytes
      BY <1>1
  <2>4. BitsOfByte(bytes[k])[j] \in Bits
    <3>1. BitsOfByte(bytes[k]) \in Seq(Bits) /\ Len(BitsOfByte(bytes[k])) = 8
        BY <2>3, BitsOfByteIs, Zenon
    <3> QED
        BY <3>1, SeqElement
  <2> QED
      BY <1>3, <2>1, <2>2, <2>4
<1>5. s \in [1 .. 8 * l -> Bits] /\ 8 * l \in Nat
    BY <1>3, <1>4
<1>6. s \in Seq(Bits) /\ Len(s) = 8 * l
    BY <1>5, FunctionIsSeq
<1>7. ASSUME NEW k \in 1 .. l PROVE StandsAt(s, 8 * k - 8, BitsOfByte(bytes[k]))
  <2>1. Len(BitsOfByte(bytes[k])) = 8
      BY <1>1, BitsOfByteIs
  <2>2. ASSUME NEW j \in 1 .. 8 PROVE s[8 * k - 8 + j] = BitsOfByte(bytes[k])[j]
    <3>1. PICK i \in 1 .. 8 * l : i = 8 * k - 8 + j /\ (i - 1) \div 8 + 1 = k /\ ((i - 1) % 8) + 1 = j
      <4>1. /\ 8 * k - 8 + j \in 1 .. 8 * l
            /\ (8 * k - 8 + j - 1) \div 8 + 1 = k /\ ((8 * k - 8 + j - 1) % 8) + 1 = j
          OBVIOUS
      <4> QED
          BY <4>1
    <3> QED
        BY <1>3, <3>1
  <2>3. 8 * k - 8 + 8 <= 8 * l
      OBVIOUS
  <2> QED
      BY <1>6, <2>1, <2>2, <2>3 DEF StandsAt
<1> QED
    BY <1>1, <1>2, <1>6, <1>7

\* The bits that were written stand in the bits that are read.
LEMMA BitsComeBack ==
    ASSUME NEW bits \in Seq(Bits)
    PROVE  /\ BitsOf(BytesOf(bits)) \in Seq(Bits)
           /\ StandsAt(BitsOf(BytesOf(bits)), 0, bits)
<1>1. PICK s : s = BytesOf(bits)
    OBVIOUS
<1>2. PICK t : t = BitsOf(s)
    OBVIOUS
<1>3. PICK l \in Nat : l = Len(bits)
    BY SeqIsFunction
<1>4. PICK n \in Nat : n = (l + 7) \div 8 /\ 8 * n >= l
    OBVIOUS
<1>5. s \in Seq(Bytes) /\ Len(s) = n
    BY <1>1, <1>3, <1>4, BytesOfIs
<1>6. t \in Seq(Bits) /\ Len(t) = 8 * n
    BY <1>2, <1>5, BitsOfIs
<1>7. ASSUME NEW i \in 1 .. l PROVE t[i] = bits[i]
  <2>1. PICK k \in 1 .. n, j \in 1 .. 8 : i = 8 * k - 8 + j
    <3>1. /\ (i - 1) \div 8 + 1 \in 1 .. n /\ ((i - 1) % 8) + 1 \in 1 .. 8
          /\ i = 8 * ((i - 1) \div 8 + 1) - 8 + (((i - 1) % 8) + 1)
        BY <1>4
    <3> QED
        BY <3>1
  <2>2. PICK x \in Bytes : x = s[k]
      BY <1>5, SeqElement
  <2>3. t[i] = BitsOfByte(x)[j]
    <3>1. StandsAt(t, 8 * k - 8, BitsOfByte(x)) /\ Len(BitsOfByte(x)) = 8
        BY <1>2, <1>5, <2>2, BitsOfIs, BitsOfByteIs, ZenonT(60)
    <3> QED
        BY <2>1, <3>1 DEF StandsAt
  <2>4. \A b \in Nat \ {0} : BitAt(bits, b) \in Bits
      BY BytesOfIs
  <2>5. /\ 8 * k - 7 \in Nat \ {0} /\ 8 * k - 6 \in Nat \ {0} /\ 8 * k - 5 \in Nat \ {0}
        /\ 8 * k - 4 \in Nat \ {0} /\ 8 * k - 3 \in Nat \ {0} /\ 8 * k - 2 \in Nat \ {0}
        /\ 8 * k - 1 \in Nat \ {0} /\ 8 * k \in Nat \ {0}
      OBVIOUS
  <2>6. x = ByteWith(BitAt(bits, 8 * k - 7), BitAt(bits, 8 * k - 6),
                     BitAt(bits, 8 * k - 5), BitAt(bits, 8 * k - 4),
                     BitAt(bits, 8 * k - 3), BitAt(bits, 8 * k - 2),
                     BitAt(bits, 8 * k - 1), BitAt(bits, 8 * k))
      BY <1>1, <1>5, <2>2, BytesOfIs
  <2>7. /\ (x \div 128) % 2 = BitAt(bits, 8 * k - 7) /\ (x \div 64) % 2 = BitAt(bits, 8 * k - 6)
        /\ (x \div 32) % 2 = BitAt(bits, 8 * k - 5) /\ (x \div 16) % 2 = BitAt(bits, 8 * k - 4)
        /\ (x \div 8) % 2 = BitAt(bits, 8 * k - 3) /\ (x \div 4) % 2 = BitAt(bits, 8 * k - 2)
        /\ (x \div 2) % 2 = BitAt(bits, 8 * k - 1) /\ x % 2 = BitAt(bits, 8 * k)
    <3>1. PICK a \in Bits, b \in Bits, c \in Bits, d \in Bits,
               e \in Bits, f \in Bits, g \in Bits, h \in Bits :
             /\ a = BitAt(bits, 8 * k - 7) /\ b = BitAt(bits, 8 * k - 6)
             /\ c = BitAt(bits, 8 * k - 5) /\ d = BitAt(bits, 8 * k - 4)
             /\ e = BitAt(bits, 8 * k - 3) /\ f = BitAt(bits, 8 * k - 2)
             /\ g = BitAt(bits, 8 * k - 1) /\ h = BitAt(bits, 8 * k)
        BY <2>4, <2>5, Zenon
    <3>2. x = ByteWith(a, b, c, d, e, f, g, h)
        BY <2>6, <3>1, Zenon
    <3>3. HasBits(x, a, b, c, d, e, f, g, h)
        BY <3>2, BitsOfSum, Zenon
    <3> QED
        BY <3>1, <3>3, Zenon DEF HasBits
  <2>8. BitsOfByte(x)[j] = BitAt(bits, 8 * k - 8 + j)
    <3>1. /\ 8 * k - 8 + 1 = 8 * k - 7 /\ 8 * k - 8 + 2 = 8 * k - 6
          /\ 8 * k - 8 + 3 = 8 * k - 5 /\ 8 * k - 8 + 4 = 8 * k - 4
          /\ 8 * k - 8 + 5 = 8 * k - 3 /\ 8 * k - 8 + 6 = 8 * k - 2
          /\ 8 * k - 8 + 7 = 8 * k - 1 /\ 8 * k - 8 + 8 = 8 * k
        OBVIOUS
    <3>2. j = 1 \/ j = 2 \/ j = 3 \/ j = 4 \/ j = 5 \/ j = 6 \/ j = 7 \/ j = 8
        OBVIOUS
    <3>3. /\ BitsOfByte(x)[1] = BitAt(bits, 8 * k - 7) /\ BitsOfByte(x)[2] = BitAt(bits, 8 * k - 6)
          /\ BitsOfByte(x)[3] = BitAt(bits, 8 * k - 5) /\ BitsOfByte(x)[4] = BitAt(bits, 8 * k - 4)
          /\ BitsOfByte(x)[5] = BitAt(bits, 8 * k - 3) /\ BitsOfByte(x)[6] = BitAt(bits, 8 * k - 2)
          /\ BitsOfByte(x)[7] = BitAt(bits, 8 * k - 1) /\ BitsOfByte(x)[8] = BitAt(bits, 8 * k)
        BY <2>7, BitsOfByteIs, Zenon
    <3> QED
        BY <3>1, <3>2, <3>3, Zenon
  <2>9. BitAt(bits, i) = bits[i]
      BY <1>3 DEF BitAt
  <2> QED
      BY <2>1, <2>3, <2>8, <2>9
<1> QED
    BY <1>1, <1>2, <1>3, <1>4, <1>6, <1>7 DEF StandsAt

-----------------------------------------------------------------------------
(* Trees: sons[n] is << >> for a leaf and names two smaller nodes for any  *)
(* other node, as in the encoder's array.                                  *)

Ordered(sons, N) ==
    \A n \in 1 .. N : sons[n] # << >> => sons[n][1] \in 1 .. n - 1 /\ sons[n][2] \in 1 .. n - 1

\* What holds of a node when it holds of its sons holds of every node.
LEMMA TreeInduction ==
    ASSUME NEW N \in Nat, NEW sons, Ordered(sons, N), NEW S,
           \A n \in 1 .. N :
              (sons[n] # << >> => sons[n][1] \in S /\ sons[n][2] \in S) => n \in S
    PROVE  \A n \in 1 .. N : n \in S
<1> DEFINE T == {k \in Nat : \A n \in 1 .. N : n <= k => n \in S}
<1>1. 0 \in T
    OBVIOUS
<1>2. ASSUME NEW k \in Nat, k \in T PROVE k + 1 \in T
  <2> SUFFICES ASSUME NEW n \in 1 .. N, n <= k + 1 PROVE n \in S
      OBVIOUS
  <2>1. CASE n <= k
      BY <1>2, <2>1
  <2>2. CASE n = k + 1
    <3>1. ASSUME NEW m \in 1 .. n - 1 PROVE m \in S
        BY <1>2, <2>2
    <3>2. sons[n] # << >> => sons[n][1] \in S /\ sons[n][2] \in S
        BY <3>1 DEF Ordered
    <3> QED
        BY <3>2
  <2> QED
      BY <2>1, <2>2
<1>3. N \in T
  <2> HIDE DEF T
  <2> QED
      BY <1>1, <1>2, SetInduction
<1> QED
    BY <1>3

\* A value for the leaves and a way to join those of the sons give a value for
\* every node.
Grown(f, N, sons, leaf, join) ==
    \A n \in 1 .. N :
       f[n] = IF sons[n] = << >> THEN leaf[n] ELSE join[<<n, f[sons[n][1]], f[sons[n][2]]>>]

LEMMA TreeRecursion ==
    ASSUME NEW N \in Nat, NEW sons, Ordered(sons, N),
           NEW D, NEW leaf \in [1 .. N -> D], NEW join \in [(1 .. N) \X D \X D -> D]
    PROVE  \E f \in [1 .. N -> D] : Grown(f, N, sons, leaf, join)
<1> DEFINE P(k) == k <= N => \E f \in [1 .. k -> D] : Grown(f, k, sons, leaf, join)
           S == {k \in Nat : P(k)}
<1>1. P(0)
  <2>1. [i \in 1 .. 0 |-> leaf[i]] \in [1 .. 0 -> D]
      OBVIOUS
  <2>2. Grown([i \in 1 .. 0 |-> leaf[i]], 0, sons, leaf, join)
      BY DEF Grown
  <2> QED
      BY <2>1, <2>2
<1>2. ASSUME NEW k \in Nat, P(k) PROVE P(k + 1)
  <2> SUFFICES ASSUME k + 1 <= N
               PROVE  \E f \in [1 .. k + 1 -> D] : Grown(f, k + 1, sons, leaf, join)
      OBVIOUS
  <2>1. PICK f \in [1 .. k -> D] : Grown(f, k, sons, leaf, join)
      BY <1>2
  <2> DEFINE Value(g, n) == IF sons[n] = << >> THEN leaf[n]
                            ELSE join[<<n, g[sons[n][1]], g[sons[n][2]]>>]
  <2>2. PICK last : last = Value(f, k + 1)
      OBVIOUS
  <2>3. last \in D
    <3>1. k + 1 \in 1 .. N /\ (k + 1) - 1 = k
        OBVIOUS
    <3>2. CASE sons[k + 1] = << >>
        BY <2>2, <3>1, <3>2
    <3>3. CASE sons[k + 1] # << >>
      <4>1. sons[k + 1][1] \in 1 .. k /\ sons[k + 1][2] \in 1 .. k
          BY <3>1, <3>3 DEF Ordered
      <4>2. <<k + 1, f[sons[k + 1][1]], f[sons[k + 1][2]]>> \in (1 .. N) \X D \X D
          BY <3>1, <4>1
      <4> QED
          BY <2>2, <3>3, <4>2
    <3> QED
        BY <3>2, <3>3
  <2>4. PICK g : g = [n \in 1 .. k + 1 |-> IF n = k + 1 THEN last ELSE f[n]]
      OBVIOUS
  <2>5. g \in [1 .. k + 1 -> D]
      BY <2>3, <2>4
  <2>6. ASSUME NEW n \in 1 .. k + 1 PROVE Value(g, n) = Value(f, n)
    <3>1. CASE sons[n] = << >>
        BY <3>1
    <3>2. CASE sons[n] # << >>
      <4>1. n \in 1 .. N
          OBVIOUS
      <4>2. PICK a \in 1 .. n - 1, b \in 1 .. n - 1 : a = sons[n][1] /\ b = sons[n][2]
          BY <3>2, <4>1 DEF Ordered
      <4>3. g[a] = f[a] /\ g[b] = f[b]
          BY <2>4, <4>2
      <4> QED
          BY <3>2, <4>2, <4>3
    <3> QED
        BY <3>1, <3>2
  <2>7. ASSUME NEW n \in 1 .. k + 1 PROVE g[n] = Value(g, n)
    <3>1. CASE n = k + 1
      <4>1. g[n] = last
          BY <2>4, <3>1
      <4> HIDE DEF Value
      <4> QED
          BY <2>2, <2>6, <3>1, <4>1
    <3>2. CASE n # k + 1
      <4>1. n \in 1 .. k /\ g[n] = f[n]
          BY <2>4, <3>2
      <4>2. f[n] = Value(f, n)
          BY <2>1, <4>1 DEF Grown
      <4> HIDE DEF Value
      <4> QED
          BY <2>6, <4>1, <4>2
    <3> QED
        BY <3>1, <3>2
  <2>8. Grown(g, k + 1, sons, leaf, join)
      BY <2>7 DEF Grown
  <2> QED
      BY <2>5, <2>8
<1>3. N \in S
  <2>1. 0 \in S /\ \A k \in Nat : k \in S => k + 1 \in S
      BY <1>1, <1>2
  <2> HIDE DEF S
  <2> QED
      BY <2>1, SetInduction
<1> QED
    BY <1>3

-----------------------------------------------------------------------------
(* The encoder's tree. *)

\* The states of the merging, as TreeOf goes through them.
MergeStart(dict) ==
    [dict |-> dict.chr, val |-> dict.freq, treeIndex |-> 1,
     mergedIndex |-> Len(dict.chr) + 1, taken |-> << >>,
     sons |-> [n \in 1 .. Len(dict.chr) |-> << >>]]

Joined(t) ==
    [t EXCEPT !.val = Append(@, t.val[t.taken[1]] + t.val[t.taken[2]]),
              !.sons = Append(@, t.taken), !.taken = << >>]

Merged(s) == Joined(TakeLowest(TakeLowest(s)))

MergeState ==
    [dict : Seq(Bytes), val : Seq(Int), treeIndex : Nat, mergedIndex : Nat,
     taken : Seq(Nat), sons : Seq(Seq(Nat))]

\* The roots that were not taken yet.
Roots(s) ==
    {i \in 1 .. Len(s.val) : IF i <= Len(s.dict) THEN s.treeIndex <= i ELSE s.mergedIndex <= i}

Indexed(s) ==
    /\ s \in MergeState
    /\ s.treeIndex \in 1 .. Len(s.dict) + 1
    /\ s.mergedIndex \in Len(s.dict) + 1 .. Len(s.val) + 1
    /\ Len(s.dict) <= Len(s.val)

\* The step from s to t takes the root x.
Takes(s, t, x) ==
    /\ Indexed(t) /\ x \in Roots(s) /\ x \in Nat
    /\ t.dict = s.dict /\ t.val = s.val /\ t.sons = s.sons
    /\ t.taken = Append(s.taken, x)
    /\ Roots(t) = Roots(s) \ {x}
    /\ t.treeIndex + t.mergedIndex = s.treeIndex + s.mergedIndex + 1

LEMMA LowestTaken ==
    ASSUME NEW s, Indexed(s), s.treeIndex + s.mergedIndex < Len(s.dict) + Len(s.val) + 2
    PROVE  \E x \in Nat : Takes(s, TakeLowest(s), x)
<1>1. PICK d \in Nat, v \in Nat, ti \in Nat, mi \in Nat :
         /\ d = Len(s.dict) /\ v = Len(s.val) /\ ti = s.treeIndex /\ mi = s.mergedIndex
         /\ ti \in 1 .. d + 1 /\ mi \in d + 1 .. v + 1 /\ d <= v
  <2>1. Len(s.dict) \in Nat /\ Len(s.val) \in Nat /\ s.treeIndex \in Nat /\ s.mergedIndex \in Nat
      BY DEF Indexed, MergeState
  <2> QED
      BY <2>1 DEF Indexed
<1>2. ti + mi < d + v + 2
    BY <1>1
<1>9. ti \in 1 .. d + 1 /\ mi \in d + 1 .. v + 1 /\ d <= v
    BY <1>1
<1>3. PICK t : t = TakeLowest(s)
    OBVIOUS
<1>4. s \in MergeState
    BY DEF Indexed
<1>5. PICK takesLeaf \in BOOLEAN :
         /\ takesLeaf <=> ti <= d /\ (mi > v \/ s.val[ti] <= s.val[mi])
         /\ t = IF takesLeaf
                THEN [s EXCEPT !.treeIndex = @ + 1, !.taken = Append(@, s.treeIndex)]
                ELSE [s EXCEPT !.mergedIndex = @ + 1, !.taken = Append(@, s.mergedIndex)]
    BY <1>1, <1>3 DEF TakeLowest
<1>6. s.taken \in Seq(Nat) /\ Append(s.taken, ti) \in Seq(Nat) /\ Append(s.taken, mi) \in Seq(Nat)
    BY <1>4, AppendProperties DEF MergeState
<1>7. CASE takesLeaf
  <2>1. ti <= d
      BY <1>5, <1>7
  <2>2. /\ t.dict = s.dict /\ t.val = s.val /\ t.sons = s.sons
        /\ t.taken = Append(s.taken, ti) /\ t.treeIndex = ti + 1 /\ t.mergedIndex = mi
      BY <1>1, <1>4, <1>5, <1>7 DEF MergeState
  <2>3. t \in MergeState
    <3>1. PICK w \in Nat : w = ti + 1
        OBVIOUS
    <3>0. PICK u : u = [s EXCEPT !.treeIndex = w]
        OBVIOUS
    <3>2. u \in MergeState
        BY <1>4, <3>0 DEF MergeState
    <3>3. t = [u EXCEPT !.taken = Append(@, ti)]
        BY <1>1, <1>5, <1>7, <3>0, <3>1, Zenon
    <3>4. u.taken = s.taken
        BY <1>4, <3>0 DEF MergeState
    <3> QED
        BY <1>6, <3>2, <3>3, <3>4 DEF MergeState
  <2>4. Indexed(t)
      BY <1>1, <2>1, <2>2, <2>3 DEF Indexed
  <2>5. ti \in Roots(s)
      BY <1>1, <2>1 DEF Roots
  <2>6. Roots(t) = Roots(s) \ {ti}
      BY <1>1, <2>1, <2>2 DEF Roots
  <2>8. t.treeIndex + t.mergedIndex = s.treeIndex + s.mergedIndex + 1
    <3>1. (ti + 1) + mi = ti + mi + 1
        OBVIOUS
    <3> QED
        BY <1>1, <2>2, <3>1, Zenon
  <2>7. Takes(s, t, ti)
      BY <2>2, <2>4, <2>5, <2>6, <2>8, Zenon DEF Takes
  <2> QED
      BY <1>3, <2>7
<1>8. CASE ~takesLeaf
  <2>1. mi <= v
    <3>1. CASE ti > d
        BY <1>2, <1>9, <3>1
    <3>2. CASE ti <= d
        BY <1>1, <1>5, <1>8, <3>2
    <3> QED
        BY <3>1, <3>2
  <2>2. /\ t.dict = s.dict /\ t.val = s.val /\ t.sons = s.sons
        /\ t.taken = Append(s.taken, mi) /\ t.treeIndex = ti /\ t.mergedIndex = mi + 1
      BY <1>1, <1>4, <1>5, <1>8 DEF MergeState
  <2>3. t \in MergeState
    <3>1. PICK w \in Nat : w = mi + 1
        OBVIOUS
    <3>0. PICK u : u = [s EXCEPT !.mergedIndex = w]
        OBVIOUS
    <3>2. u \in MergeState
        BY <1>4, <3>0 DEF MergeState
    <3>3. t = [u EXCEPT !.taken = Append(@, mi)]
        BY <1>1, <1>5, <1>8, <3>0, <3>1, Zenon
    <3>4. u.taken = s.taken
        BY <1>4, <3>0 DEF MergeState
    <3> QED
        BY <1>6, <3>2, <3>3, <3>4 DEF MergeState
  <2>4. Indexed(t)
      BY <1>1, <2>1, <2>2, <2>3, SMTT(30) DEF Indexed
  <2>5. mi \in Roots(s)
      BY <1>1, <2>1 DEF Roots
  <2>6. Roots(t) = Roots(s) \ {mi}
      BY <1>1, <2>1, <2>2 DEF Roots
  <2>7. t.treeIndex + t.mergedIndex = s.treeIndex + s.mergedIndex + 1
    <3>1. ti + (mi + 1) = ti + mi + 1
        OBVIOUS
    <3> QED
        BY <1>1, <2>2, <3>1, Zenon
  <2>8. mi \in Nat
      BY <1>1
  <2>9. Takes(s, t, mi)
      BY <2>2, <2>4, <2>5, <2>6, <2>7, <2>8, Zenon DEF Takes
  <2> QED
      BY <1>3, <2>9
<1> QED
    BY <1>5, <1>7, <1>8

\* L gives the leaves below each of the first n nodes.
LeavesAre(L, sons, d, n) ==
    /\ L \in [1 .. n -> SUBSET (1 .. d)]
    /\ \A i \in 1 .. d : L[i] = {i}
    /\ \A i \in d + 1 .. n :
          L[i] = L[sons[i][1]] \cup L[sons[i][2]] /\ L[sons[i][1]] \cap L[sons[i][2]] = {}

Shaped(sons, d, n) ==
    /\ d \in Nat /\ n \in Nat /\ d <= n /\ Len(sons) = n /\ sons \in Seq(Seq(Nat))
    /\ Ordered(sons, n)
    /\ \A i \in 1 .. d : sons[i] = << >>
    /\ \A i \in d + 1 .. n : sons[i] # << >>

\* Each leaf is below exactly one root.
Parted(L, roots, d) ==
    /\ \A i, j \in roots : i # j => L[i] \cap L[j] = {}
    /\ \A l \in 1 .. d : \E i \in roots : l \in L[i]

MergeInv(s, dict, k) ==
    /\ Indexed(s) /\ s.dict = dict.chr /\ s.taken = << >>
    /\ Len(s.val) = Len(dict.chr) + k
    /\ s.treeIndex + s.mergedIndex = Len(dict.chr) + 2 + 2 * k
    /\ Shaped(s.sons, Len(dict.chr), Len(dict.chr) + k)
    /\ \E L : /\ LeavesAre(L, s.sons, Len(dict.chr), Len(dict.chr) + k)
              /\ Parted(L, Roots(s), Len(dict.chr))

IsDictionary(dict) ==
    /\ dict.chr \in Seq(Bytes) /\ Len(dict.chr) \in 2 .. 256
    /\ dict.freq \in Seq(Int) /\ Len(dict.freq) = Len(dict.chr)

LEMMA StartsRight ==
    ASSUME NEW dict, IsDictionary(dict)
    PROVE  MergeInv(MergeStart(dict), dict, 0)
<1>1. PICK d \in Nat : d = Len(dict.chr) /\ Len(dict.freq) = d
    BY DEF IsDictionary
<1>2. PICK s : s = MergeStart(dict)
    OBVIOUS
<1>3. PICK sons : sons = [n \in 1 .. d |-> << >>]
    OBVIOUS
<1>4. sons \in Seq(Seq(Nat)) /\ Len(sons) = d
  <2>1. sons \in [1 .. d -> Seq(Nat)]
      BY <1>3
  <2> QED
      BY <2>1, FunctionIsSeq
<1>5. /\ s.dict = dict.chr /\ s.val = dict.freq /\ s.treeIndex = 1
      /\ s.mergedIndex = d + 1 /\ s.taken = << >> /\ s.sons = sons
    BY <1>1, <1>2, <1>3 DEF MergeStart
<1>6. s \in MergeState
  <2>1. << >> \in Seq(Nat) /\ 1 \in Nat /\ d + 1 \in Nat
      OBVIOUS
  <2>2. s = [dict |-> dict.chr, val |-> dict.freq, treeIndex |-> 1,
             mergedIndex |-> d + 1, taken |-> << >>, sons |-> sons]
      BY <1>1, <1>2, <1>3 DEF MergeStart
  <2> QED
      BY <1>4, <2>1, <2>2 DEF MergeState, IsDictionary
<1>7. Indexed(s)
    BY <1>1, <1>5, <1>6 DEF Indexed
<1>8. Shaped(sons, d, d)
  <2>1. \A i \in 1 .. d : sons[i] = << >>
      BY <1>3
  <2> QED
      BY <1>4, <2>1 DEF Shaped, Ordered
<1>9. PICK L : L = [i \in 1 .. d |-> {i}]
    OBVIOUS
<1>10. LeavesAre(L, sons, d, d)
    BY <1>9 DEF LeavesAre
<1>11. Roots(s) = 1 .. d
    BY <1>1, <1>5 DEF Roots
<1>12. Parted(L, Roots(s), d)
    BY <1>9, <1>11 DEF Parted
<1>13. d + 0 = d /\ 1 + (d + 1) = d + 2 + 2 * 0
    OBVIOUS
<1> QED
    BY <1>1, <1>2, <1>5, <1>7, <1>8, <1>10, <1>12, <1>13 DEF MergeInv

LEMMA AppendIs ==
    ASSUME NEW S, NEW s \in Seq(S), NEW e \in S, NEW n \in Nat, n = Len(s)
    PROVE  /\ Append(s, e) \in Seq(S) /\ Len(Append(s, e)) = n + 1 /\ Append(s, e)[n + 1] = e
           /\ \A i \in 1 .. n : Append(s, e)[i] = s[i]
BY AppendProperties

LEMMA PairIs ==
    ASSUME NEW x \in Nat, NEW y \in Nat
    PROVE  /\ <<x, y>> \in Seq(Nat) /\ Len(<<x, y>>) = 2
           /\ <<x, y>>[1] = x /\ <<x, y>>[2] = y /\ <<x, y>> # << >>
OBVIOUS

LEMMA TwoAppended ==
    ASSUME NEW x \in Nat, NEW y \in Nat
    PROVE  Append(Append(<< >>, x), y) = <<x, y>>
<1>0. << >> \in Seq(Nat) /\ Len(<< >>) = 0
    OBVIOUS
<1>1. PICK e \in Seq(Nat) : e = << >> /\ Len(e) = 0
    BY <1>0, Zenon
<1>2. PICK p \in Seq(Nat) : p = Append(e, x)
    BY AppendProperties
<1>3. Len(p) = 1 /\ p[1] = x
    BY <1>1, <1>2, AppendProperties
<1>4. PICK q \in Seq(Nat) : q = Append(p, y)
    BY AppendProperties
<1>5. Len(q) = 2 /\ q[1] = x /\ q[2] = y
  <2>1. /\ Len(q) = Len(p) + 1 /\ q[Len(p) + 1] = y
        /\ \A i \in 1 .. Len(p) : q[i] = p[i]
      BY <1>4, AppendProperties
  <2>2. 1 + 1 = 2 /\ 1 \in 1 .. 1
      OBVIOUS
  <2> QED
      BY <1>3, <2>1, <2>2, Zenon
<1>6. PICK r \in Seq(Nat) : r = <<x, y>> /\ Len(r) = 2 /\ r[1] = x /\ r[2] = y
    BY PairIs, ZenonT(60)
<1>7. \A i \in 1 .. 2 : q[i] = r[i]
  <2>1. \A i \in 1 .. 2 : i = 1 \/ i = 2
     OBVIOUS
  <2> QED
     BY <1>5, <1>6, <2>1
<1>8. q = r
    BY <1>5, <1>6, <1>7, SeqEqual
<1> QED
    BY <1>1, <1>2, <1>4, <1>6, <1>8, Zenon

\* A node above two roots keeps the leaves parted.
LEMMA PartedAgain ==
    ASSUME NEW d \in Nat, NEW n \in Nat, NEW L \in [1 .. n -> SUBSET (1 .. d)],
           NEW roots \in SUBSET (1 .. n), Parted(L, roots, d),
           NEW x \in roots, NEW y \in roots, x # y,
           NEW M, M = [i \in 1 .. n + 1 |-> IF i = n + 1 THEN L[x] \cup L[y] ELSE L[i]]
    PROVE  Parted(M, (roots \ {x, y}) \cup {n + 1}, d)
<1>1. /\ M[n + 1] = L[x] \cup L[y]
      /\ \A i \in 1 .. n : i # n + 1 /\ M[i] = L[i]
    OBVIOUS
<1>2. ASSUME NEW i \in (roots \ {x, y}) \cup {n + 1}, NEW j \in (roots \ {x, y}) \cup {n + 1}, i # j
      PROVE  M[i] \cap M[j] = {}
  <2>1. \A h \in roots \ {x, y} : L[h] \cap L[x] = {} /\ L[h] \cap L[y] = {} /\ M[h] = L[h]
      BY <1>1 DEF Parted
  <2>2. CASE i = n + 1
      BY <1>1, <1>2, <2>1, <2>2
  <2>3. CASE j = n + 1
      BY <1>1, <1>2, <2>1, <2>3
  <2>4. CASE i # n + 1 /\ j # n + 1
      BY <1>2, <2>1, <2>4 DEF Parted
  <2> QED
      BY <2>2, <2>3, <2>4
<1>3. ASSUME NEW l \in 1 .. d PROVE \E i \in (roots \ {x, y}) \cup {n + 1} : l \in M[i]
  <2>1. PICK i \in roots : l \in L[i]
      BY DEF Parted
  <2>2. CASE i \in {x, y}
      BY <1>1, <2>1, <2>2
  <2>3. CASE i \notin {x, y}
      BY <1>1, <2>1, <2>3
  <2> QED
      BY <2>2, <2>3
<1> QED
    BY <1>2, <1>3 DEF Parted

LEMMA ShapedAgain ==
    ASSUME NEW d \in Nat, NEW n \in Nat, d <= n,
           NEW sons, Shaped(sons, d, n), NEW L, LeavesAre(L, sons, d, n),
           NEW x \in 1 .. n, NEW y \in 1 .. n, L[x] \cap L[y] = {},
           NEW M, M = [i \in 1 .. n + 1 |-> IF i = n + 1 THEN L[x] \cup L[y] ELSE L[i]]
    PROVE  Shaped(Append(sons, <<x, y>>), d, n + 1) /\ LeavesAre(M, Append(sons, <<x, y>>), d, n + 1)
<1>1. PICK t : t = Append(sons, <<x, y>>)
    OBVIOUS
<1>2. d \in Nat /\ n \in Nat /\ d <= n /\ Len(sons) = n /\ sons \in Seq(Seq(Nat))
    BY DEF Shaped
<1>3. <<x, y>> \in Seq(Nat) /\ <<x, y>> # << >>
    BY <1>2
<1>4. /\ t \in Seq(Seq(Nat)) /\ Len(t) = n + 1 /\ t[n + 1] = <<x, y>>
      /\ \A i \in 1 .. n : t[i] = sons[i]
  <2>1. PICK e \in Seq(Nat) : e = <<x, y>>
      BY <1>3
  <2>2. t = Append(sons, e)
      BY <1>1, <2>1
  <2> QED
      BY <1>2, <2>1, <2>2, AppendIs
<1>5. ASSUME NEW i \in 1 .. n + 1 PROVE i \in 1 .. n \/ i = n + 1
    BY <1>2
<1>6. Ordered(t, n + 1)
  <2> SUFFICES ASSUME NEW i \in 1 .. n + 1, t[i] # << >>
               PROVE  t[i][1] \in 1 .. i - 1 /\ t[i][2] \in 1 .. i - 1
      BY DEF Ordered
  <2>1. CASE i \in 1 .. n
      BY <1>4, <2>1 DEF Shaped, Ordered
  <2>2. CASE i = n + 1
    <3>1. t[i][1] = x /\ t[i][2] = y /\ i - 1 = n
        BY <1>2, <1>4, <2>2
    <3> QED
        BY <3>1
  <2> QED
      BY <1>5, <2>1, <2>2
<1>7. \A i \in 1 .. d : t[i] = << >>
  <2>1. \A i \in 1 .. d : i \in 1 .. n
      BY <1>2
  <2> QED
      BY <1>4, <2>1 DEF Shaped
<1>8. \A i \in d + 1 .. n + 1 : t[i] # << >>
  <2>1. \A i \in d + 1 .. n + 1 : i = n + 1 \/ (i \in d + 1 .. n /\ i \in 1 .. n)
      OBVIOUS
  <2> QED
      BY <1>3, <1>4, <2>1 DEF Shaped
<1>9. Shaped(t, d, n + 1)
    BY <1>2, <1>4, <1>6, <1>7, <1>8 DEF Shaped
<1>10. L \in [1 .. n -> SUBSET (1 .. d)]
    BY DEF LeavesAre
<1>11. /\ M[n + 1] = L[x] \cup L[y] /\ n + 1 \in 1 .. n + 1
       /\ \A i \in 1 .. n : i # n + 1 /\ M[i] = L[i]
    BY <1>2
<1>12. M \in [1 .. n + 1 -> SUBSET (1 .. d)]
  <2>1. L[x] \in SUBSET (1 .. d) /\ L[y] \in SUBSET (1 .. d)
      BY <1>10
  <2> QED
      BY <1>5, <1>10, <2>1
<1>13. \A i \in 1 .. d : M[i] = {i}
  <2>1. \A i \in 1 .. d : i \in 1 .. n
      BY <1>2
  <2> QED
      BY <1>11, <2>1 DEF LeavesAre
<1>14. ASSUME NEW i \in d + 1 .. n + 1
       PROVE  M[i] = M[t[i][1]] \cup M[t[i][2]] /\ M[t[i][1]] \cap M[t[i][2]] = {}
  <2>1. CASE i = n + 1
    <3>1. t[i][1] = x /\ t[i][2] = y
        BY <1>4, <2>1
    <3> QED
        BY <1>11, <2>1, <3>1
  <2>2. CASE i # n + 1
    <3>1. i \in 1 .. n /\ i \in d + 1 .. n
        BY <2>2
    <3>2. sons[i] # << >> /\ t[i] = sons[i]
        BY <1>4, <3>1 DEF Shaped
    <3>3. PICK a \in 1 .. n, b \in 1 .. n : a = sons[i][1] /\ b = sons[i][2]
      <4>1. sons[i][1] \in 1 .. i - 1 /\ sons[i][2] \in 1 .. i - 1
          BY <3>1, <3>2 DEF Shaped, Ordered
      <4>2. \A j \in 1 .. i - 1 : j \in 1 .. n
          BY <1>2, <3>1
      <4> QED
          BY <4>1, <4>2
    <3>4. L[i] = L[a] \cup L[b] /\ L[a] \cap L[b] = {}
        BY <3>1, <3>3 DEF LeavesAre
    <3> QED
        BY <1>11, <3>1, <3>2, <3>3, <3>4
  <2> QED
      BY <2>1, <2>2
<1>15. LeavesAre(M, t, d, n + 1)
    BY <1>12, <1>13, <1>14 DEF LeavesAre
<1> QED
    BY <1>1, <1>9, <1>15

LEMMA MergesRight ==
    ASSUME NEW dict, IsDictionary(dict), NEW k \in Nat, k + 1 <= Len(dict.chr) - 1,
           NEW s, MergeInv(s, dict, k)
    PROVE  MergeInv(Merged(s), dict, k + 1)
<1>0. Len(dict.chr) \in 2 .. 256
    BY DEF IsDictionary
<1>1. PICK d \in 2 .. 256 : d = Len(dict.chr)
    BY <1>0
<1>d. d \in Nat /\ k + 1 <= d - 1
    BY <1>1
<1>2. PICK n \in Nat : n = d + k
    BY <1>d
<1>n. k + 2 <= d /\ d <= n /\ d + 2 + 2 * k < d + n + 2 /\ (d + 2 + 2 * k) + 1 < d + n + 2
    BY <1>d, <1>2
<1>3. /\ Indexed(s) /\ s.dict = dict.chr /\ s.taken = << >> /\ Len(s.val) = n
      /\ s.treeIndex + s.mergedIndex = d + 2 + 2 * k
      /\ Shaped(s.sons, d, n)
    BY <1>1, <1>2 DEF MergeInv
<1>4. PICK L : LeavesAre(L, s.sons, d, n) /\ Parted(L, Roots(s), d)
    BY <1>1, <1>2 DEF MergeInv
<1>5. PICK u : u = TakeLowest(s)
    OBVIOUS
<1>6. PICK t : t = TakeLowest(u)
    OBVIOUS
<1>7. PICK x \in Nat : Takes(s, u, x)
  <2>2. s.treeIndex + s.mergedIndex < Len(s.dict) + Len(s.val) + 2
      BY <1>1, <1>3, <1>n
  <2> QED
      BY <1>3, <1>5, <2>2, LowestTaken
<1>8. PICK y \in Nat : Takes(u, t, y)
  <2>2. u.treeIndex + u.mergedIndex < Len(u.dict) + Len(u.val) + 2
      BY <1>1, <1>3, <1>7, <1>n DEF Takes
  <2> QED
      BY <1>6, <1>7, <2>2, LowestTaken DEF Takes
<1>9. /\ Indexed(t) /\ t.dict = dict.chr /\ t.val = s.val /\ t.sons = s.sons
      /\ t.treeIndex + t.mergedIndex = d + 2 + 2 * k + 1 + 1
      /\ Roots(t) = Roots(s) \ {x, y}
      /\ x \in Roots(s) /\ y \in Roots(s) /\ x # y
    BY <1>3, <1>7, <1>8 DEF Takes
<1>10. t.taken = <<x, y>>
  <2>1. u.taken = Append(<< >>, x) /\ t.taken = Append(u.taken, y)
      BY <1>3, <1>7, <1>8 DEF Takes
  <2> QED
      BY <2>1, TwoAppended
<1>11. PICK v : v = Joined(t)
    OBVIOUS
<1>12. t \in MergeState /\ s \in MergeState
    BY <1>3, <1>9 DEF Indexed
<1>13. x \in 1 .. n /\ y \in 1 .. n
    BY <1>3, <1>9 DEF Roots
<1>14. PICK z \in Int : z = t.val[t.taken[1]] + t.val[t.taken[2]]
  <2>1. t.taken[1] = x /\ t.taken[2] = y
      BY <1>10
  <2>2. t.val \in Seq(Int) /\ Len(t.val) = n
      BY <1>3, <1>9, <1>12 DEF MergeState
  <2>3. PICK p \in Int, q \in Int : p = t.val[x] /\ q = t.val[y]
      BY <1>13, <2>2, SeqElement
  <2> QED
      BY <2>1, <2>3
<1>15. /\ Append(s.val, z) \in Seq(Int) /\ Len(Append(s.val, z)) = n + 1
       /\ <<x, y>> \in Seq(Nat)
       /\ Append(s.sons, <<x, y>>) \in Seq(Seq(Nat)) /\ << >> \in Seq(Nat)
  <2>1. s.val \in Seq(Int) /\ s.sons \in Seq(Seq(Nat))
      BY <1>12 DEF MergeState
  <2>2. <<x, y>> \in Seq(Nat)
      OBVIOUS
  <2> QED
      BY <1>3, <2>1, <2>2, AppendProperties
<1>16. /\ v \in MergeState
       /\ v.dict = dict.chr /\ v.val = Append(s.val, z) /\ v.treeIndex = t.treeIndex
       /\ v.mergedIndex = t.mergedIndex /\ v.taken = << >>
       /\ v.sons = Append(s.sons, <<x, y>>)
  <2>1. PICK a : a = [t EXCEPT !.val = Append(s.val, z)]
      OBVIOUS
  <2>2. PICK b : b = [a EXCEPT !.sons = Append(s.sons, <<x, y>>)]
      OBVIOUS
  <2>3. v = [b EXCEPT !.taken = << >>]
      BY <1>9, <1>10, <1>11, <1>14, <2>1, <2>2, Zenon DEF Joined
  <2>4. /\ a \in MergeState /\ a.dict = t.dict /\ a.val = Append(s.val, z)
        /\ a.treeIndex = t.treeIndex /\ a.mergedIndex = t.mergedIndex
      BY <1>12, <1>15, <2>1 DEF MergeState
  <2>5. /\ b \in MergeState /\ b.dict = a.dict /\ b.val = a.val
        /\ b.treeIndex = a.treeIndex /\ b.mergedIndex = a.mergedIndex
        /\ b.sons = Append(s.sons, <<x, y>>)
      BY <1>15, <2>2, <2>4 DEF MergeState
  <2>6. /\ v \in MergeState /\ v.dict = b.dict /\ v.val = b.val /\ v.taken = << >>
        /\ v.treeIndex = b.treeIndex /\ v.mergedIndex = b.mergedIndex
        /\ v.sons = b.sons
      BY <1>15, <2>3, <2>5 DEF MergeState
  <2> QED
      BY <1>9, <2>4, <2>5, <2>6
<1>17. PICK ti \in Nat, mi \in Nat : /\ ti = t.treeIndex /\ mi = t.mergedIndex
                                     /\ ti \in 1 .. d + 1 /\ mi \in d + 1 .. n + 1
    BY <1>1, <1>3, <1>9, <1>12, SMTT(30) DEF MergeState, Indexed
<1>18. Indexed(v)
  <2>1. mi \in d + 1 .. (n + 1) + 1 /\ d <= n + 1
      BY <1>2, <1>17
  <2> QED
      BY <1>1, <1>15, <1>16, <1>17, <2>1 DEF Indexed
<1>19. Roots(v) = (Roots(s) \ {x, y}) \cup {n + 1}
  <2>1. Roots(t) = {i \in 1 .. n : IF i <= d THEN ti <= i ELSE mi <= i}
      BY <1>1, <1>3, <1>9, <1>17 DEF Roots
  <2>2. Roots(v) = {i \in 1 .. n + 1 : IF i <= d THEN ti <= i ELSE mi <= i}
      BY <1>1, <1>15, <1>16, <1>17 DEF Roots
  <2>3. {i \in 1 .. n + 1 : IF i <= d THEN ti <= i ELSE mi <= i}
          = {i \in 1 .. n : IF i <= d THEN ti <= i ELSE mi <= i} \cup {n + 1}
      BY <1>2, <1>17
  <2> QED
      BY <1>9, <2>1, <2>2, <2>3
<1>20. PICK M : M = [i \in 1 .. n + 1 |-> IF i = n + 1 THEN L[x] \cup L[y] ELSE L[i]]
    OBVIOUS
<1>21. L[x] \cap L[y] = {}
    BY <1>4, <1>9 DEF Parted
<1>22. Shaped(v.sons, d, n + 1) /\ LeavesAre(M, v.sons, d, n + 1)
  <2>1. /\ Shaped(Append(s.sons, <<x, y>>), d, n + 1)
        /\ LeavesAre(M, Append(s.sons, <<x, y>>), d, n + 1)
      BY <1>3, <1>4, <1>d, <1>n, <1>13, <1>20, <1>21, ShapedAgain, Zenon
  <2> QED
      BY <1>16, <2>1, Zenon
<1>23. Parted(M, Roots(v), d)
  <2>1. L \in [1 .. n -> SUBSET (1 .. d)]
      BY <1>4 DEF LeavesAre
  <2>2. Roots(s) \in SUBSET (1 .. n)
      BY <1>3 DEF Roots
  <2>3. Parted(M, (Roots(s) \ {x, y}) \cup {n + 1}, d)
      BY <1>4, <1>9, <1>d, <1>20, <2>1, <2>2, PartedAgain, Zenon
  <2> QED
      BY <1>19, <2>3, Zenon
<1>24. n + 1 = d + (k + 1) /\ d + 2 + 2 * k + 1 + 1 = d + 2 + 2 * (k + 1)
    BY <1>2
<1>25. MergeInv(v, dict, k + 1)
    BY <1>1, <1>9, <1>15, <1>16, <1>18, <1>22, <1>23, <1>24 DEF MergeInv
<1> QED
    BY <1>5, <1>6, <1>11, <1>25 DEF Merged

-----------------------------------------------------------------------------
(* The tree that is left. *)

\* The merging ends with a root above every leaf.
TreeIs(tree, L, d, N) ==
    /\ d \in 2 .. 256 /\ N = 2 * d - 1
    /\ Len(tree.dict) = d /\ tree.dict \in Seq(Bytes)
    /\ Shaped(tree.sons, d, N) /\ LeavesAre(L, tree.sons, d, N) /\ L[N] = 1 .. d

LEMMA OneRootLeft ==
    ASSUME NEW dict, IsDictionary(dict), NEW s, MergeInv(s, dict, Len(dict.chr) - 1)
    PROVE  \E L : TreeIs(s, L, Len(dict.chr), 2 * Len(dict.chr) - 1)
<1>0. Len(dict.chr) \in 2 .. 256
    BY DEF IsDictionary
<1>1. PICK d \in 2 .. 256 : d = Len(dict.chr)
    BY <1>0
<1>d. PICK k \in Nat : k = d - 1
    OBVIOUS
<1>2. PICK n \in Nat : n = d + k /\ n = 2 * d - 1
    BY <1>d
<1>3. /\ Indexed(s) /\ s.dict = dict.chr /\ Len(s.val) = n
      /\ s.treeIndex + s.mergedIndex = d + 2 + 2 * k
      /\ Shaped(s.sons, d, n)
    BY <1>1, <1>d, <1>2 DEF MergeInv
<1>4. PICK L : LeavesAre(L, s.sons, d, n) /\ Parted(L, Roots(s), d)
    BY <1>1, <1>d, <1>2 DEF MergeInv
<1>5. PICK ti \in Nat, mi \in Nat : /\ ti = s.treeIndex /\ mi = s.mergedIndex
                                    /\ ti \in 1 .. d + 1 /\ mi \in d + 1 .. n + 1
    BY <1>1, <1>3 DEF MergeState, Indexed
<1>6. ti + mi = d + 2 + 2 * k /\ ti \in 1 .. d + 1 /\ mi \in d + 1 .. n + 1
    BY <1>3, <1>5
<1>7. Roots(s) = {i \in 1 .. n : IF i <= d THEN ti <= i ELSE mi <= i}
    BY <1>1, <1>3, <1>5 DEF Roots
<1>8. CASE ti = d + 1
  <2>1. mi = n
      BY <1>d, <1>2, <1>6, <1>8
  <2>2. \A i \in 1 .. n : (IF i <= d THEN ti <= i ELSE mi <= i) => i = n
      BY <1>d, <1>2, <1>8, <2>1
  <2>3. \A l \in 1 .. d : l \in L[n]
      BY <1>4, <1>7, <2>2 DEF Parted
  <2>4. L[n] = 1 .. d
    <3>1. n \in 1 .. n
        BY <1>d, <1>2
    <3>2. L[n] \subseteq 1 .. d
        BY <1>4, <3>1, SMTT(30) DEF LeavesAre
    <3> QED
        BY <2>3, <3>2
  <2>5. TreeIs(s, L, d, n)
      BY <1>1, <1>2, <1>3, <1>4, <2>4 DEF TreeIs, IsDictionary
  <2> QED
      BY <1>1, <1>2, <2>5
<1>9. CASE ti # d + 1
  <2>1. ti = d /\ mi = n + 1
      BY <1>d, <1>2, <1>6, <1>9
  <2>2. \A i \in 1 .. n : (IF i <= d THEN ti <= i ELSE mi <= i) => i = d
      BY <1>d, <1>2, <2>1
  <2>3. \A l \in 1 .. d : l \in L[d]
      BY <1>4, <1>7, <2>2 DEF Parted
  <2>5. d \in 1 .. d /\ 1 \in 1 .. d /\ 1 # d
      OBVIOUS
  <2>4. L[d] = {d}
      BY <1>4, <2>5 DEF LeavesAre
  <2> QED
      BY <2>3, <2>4, <2>5
<1> QED
    BY <1>8, <1>9

LEMMA TreeOfIs ==
    ASSUME NEW dict, IsDictionary(dict)
    PROVE  /\ TreeOf(dict).dict = dict.chr
           /\ \E L : TreeIs(TreeOf(dict), L, Len(dict.chr), 2 * Len(dict.chr) - 1)
<1>0. Len(dict.chr) \in 2 .. 256
    BY DEF IsDictionary
<1>1. PICK d \in 2 .. 256 : d = Len(dict.chr) /\ d - 1 \in Nat
    BY <1>0
<1> DEFINE Body(f) == [k \in 0 .. d - 1 |-> IF k = 0 THEN MergeStart(dict) ELSE Merged(f[k - 1])]
           Fine(f, m) == /\ f = [k \in 0 .. m |-> IF k = 0 THEN MergeStart(dict) ELSE Merged(f[k - 1])]
                         /\ \A k \in 0 .. m : MergeInv(f[k], dict, k)
           S == {m \in Nat : m <= d - 1 => \E f : Fine(f, m)}
<1>2. 0 \in S
  <2>1. PICK f : f = [k \in 0 .. 0 |-> MergeStart(dict)]
      OBVIOUS
  <2>2. f[0] = MergeStart(dict) /\ \A k \in 0 .. 0 : k = 0
      BY <2>1
  <2>3. f = [k \in 0 .. 0 |-> IF k = 0 THEN MergeStart(dict) ELSE Merged(f[k - 1])]
      BY <2>1, <2>2
  <2>4. \A k \in 0 .. 0 : MergeInv(f[k], dict, k)
      BY <2>2, StartsRight
  <2> QED
      BY <2>3, <2>4
<1>3. ASSUME NEW m \in Nat, m \in S PROVE m + 1 \in S
  <2> SUFFICES ASSUME m + 1 <= d - 1 PROVE \E f : Fine(f, m + 1)
      OBVIOUS
  <2>1. PICK f : Fine(f, m)
      BY <1>1, <1>3
  <2>2. PICK g : g = [k \in 0 .. m + 1 |-> IF k = m + 1 THEN Merged(f[m]) ELSE f[k]]
      OBVIOUS
  <2>3. ASSUME NEW k \in 0 .. m + 1
        PROVE  g[k] = (IF k = 0 THEN MergeStart(dict) ELSE Merged(g[k - 1])) /\ MergeInv(g[k], dict, k)
    <3>1. CASE k = m + 1
      <4>1. k # 0 /\ k - 1 = m /\ g[m] = f[m] /\ g[k] = Merged(f[m])
          BY <2>2, <3>1
      <4>2. MergeInv(f[m], dict, m)
          BY <2>1
      <4>3. MergeInv(Merged(f[m]), dict, m + 1)
          BY <1>1, <4>2, MergesRight
      <4> QED
          BY <3>1, <4>1, <4>3
    <3>2. CASE k # m + 1
      <4>1. k \in 0 .. m /\ g[k] = f[k] /\ (k # 0 => g[k - 1] = f[k - 1])
          BY <2>2, <3>2
      <4>2. f[k] = IF k = 0 THEN MergeStart(dict) ELSE Merged(f[k - 1])
          BY <2>1, <4>1
      <4>3. MergeInv(f[k], dict, k)
          BY <2>1, <4>1
      <4> QED
          BY <4>1, <4>2, <4>3
    <3> QED
        BY <3>1, <3>2
  <2>4. g = [k \in 0 .. m + 1 |-> IF k = 0 THEN MergeStart(dict) ELSE Merged(g[k - 1])]
      BY <2>2, <2>3
  <2>5. Fine(g, m + 1)
      BY <2>3, <2>4
  <2> QED
      BY <2>5
<1>4. PICK f : Fine(f, d - 1)
  <2> HIDE DEF S
  <2>1. d - 1 \in S
      BY <1>1, <1>2, <1>3, SetInduction
  <2> QED
      BY <1>1, <2>1 DEF S
<1>5. PICK merged : merged = (CHOOSE g : g = Body(g))
    OBVIOUS
<1>6. merged = Body(merged)
    BY <1>4, <1>5
<1>7. TreeOf(dict) = merged[d - 1]
    BY <1>1, <1>5, Zenon DEF TreeOf, MergeStart, Merged, Joined
<1> DEFINE T == {m \in Nat : m <= d - 1 => merged[m] = f[m]}
<1>8. 0 \in T
    BY <1>1, <1>4, <1>6
<1>9. ASSUME NEW m \in Nat, m \in T PROVE m + 1 \in T
  <2> SUFFICES ASSUME m + 1 <= d - 1 PROVE merged[m + 1] = f[m + 1]
      OBVIOUS
  <2>1. m + 1 \in 0 .. d - 1 /\ m + 1 # 0 /\ (m + 1) - 1 = m /\ merged[m] = f[m]
      BY <1>1, <1>9
  <2>2. merged[m + 1] = Merged(merged[m]) /\ f[m + 1] = Merged(f[m])
      BY <1>4, <1>6, <2>1
  <2> QED
      BY <2>1, <2>2
<1>10. d - 1 \in T
  <2> HIDE DEF T
  <2> QED
      BY <1>1, <1>8, <1>9, SetInduction
<1>11. MergeInv(TreeOf(dict), dict, d - 1)
  <2>1. merged[d - 1] = f[d - 1] /\ d - 1 \in 0 .. d - 1
      BY <1>1, <1>10
  <2> QED
      BY <1>4, <1>7, <2>1
<1>12. TreeOf(dict).dict = dict.chr
    BY <1>11 DEF MergeInv
<1> QED
    BY <1>1, <1>11, <1>12, OneRootLeft

-----------------------------------------------------------------------------
(* What is made of a tree: its bits, its codes and, for the proofs only,   *)
(* the order of its nodes in the stream.                                   *)

PreorderIs(pre, tree, N) ==
    /\ pre \in [1 .. N -> Seq(Bits)]
    /\ \A n \in 1 .. N :
          pre[n] = IF tree.sons[n] = << >> THEN << 1 >> \o BitsOfByte(tree.dict[n])
                   ELSE << 0 >> \o pre[tree.sons[n][1]] \o pre[tree.sons[n][2]]

CodesAre(code, tree, d, N) ==
    /\ code \in [1 .. N -> SUBSET ((1 .. d) \X Seq(Bits))]
    /\ \A n \in 1 .. N :
          code[n] = IF tree.sons[n] = << >> THEN {<<n, << >>>>}
                    ELSE {<<c[1], << 1 >> \o c[2]>> : c \in code[tree.sons[n][1]]}
                           \cup {<<c[1], << 0 >> \o c[2]>> : c \in code[tree.sons[n][2]]}

NodesAre(node, tree, N) ==
    /\ node \in [1 .. N -> Seq(1 .. N)]
    /\ \A n \in 1 .. N :
          node[n] = IF tree.sons[n] = << >> THEN <<n>>
                    ELSE <<n>> \o node[tree.sons[n][1]] \o node[tree.sons[n][2]]

LEMMA SingleIs ==
    ASSUME NEW S, NEW x \in S
    PROVE  <<x>> \in Seq(S) /\ Len(<<x>>) = 1 /\ <<x>>[1] = x
OBVIOUS

LEMMA ConcatType ==
    ASSUME NEW S, NEW a \in Seq(S), NEW b \in Seq(S)
    PROVE  a \o b \in Seq(S)
BY ConcatProperties

LEMMA TreeFacts ==
    ASSUME NEW tree, NEW L, NEW d, NEW N, TreeIs(tree, L, d, N)
    PROVE  /\ d \in Nat /\ N \in Nat /\ d \in 1 .. N /\ N \in 1 .. N
           /\ Ordered(tree.sons, N) /\ DOMAIN tree.sons = 1 .. N /\ Len(tree.sons) = N
           /\ \A n \in 1 .. N : tree.sons[n] = << >> <=> n <= d
           /\ \A n \in 1 .. d : n \in 1 .. N /\ tree.dict[n] \in Bytes
           /\ \A n \in 1 .. N : tree.sons[n] # << >> =>
                 tree.sons[n][1] \in 1 .. N /\ tree.sons[n][2] \in 1 .. N
<1>1. d \in 2 .. 256 /\ N = 2 * d - 1
    BY DEF TreeIs
<1>2. d \in Nat /\ N \in Nat /\ d \in 1 .. N /\ N \in 1 .. N /\ d <= N
    BY <1>1
<1>3. Len(tree.dict) = d /\ tree.dict \in Seq(Bytes)
    BY DEF TreeIs
<1>4. Shaped(tree.sons, d, N)
    BY DEF TreeIs
<1>5. Ordered(tree.sons, N) /\ Len(tree.sons) = N /\ tree.sons \in Seq(Seq(Nat))
    BY <1>4 DEF Shaped
<1>6. DOMAIN tree.sons = 1 .. N
    BY <1>5, SeqIsFunction
<1>7. \A n \in 1 .. N : tree.sons[n] = << >> <=> n <= d
  <2>1. \A n \in 1 .. N : n \in 1 .. d \/ n \in d + 1 .. N
      BY <1>2
  <2>2. /\ \A n \in 1 .. d : n <= d /\ tree.sons[n] = << >>
        /\ \A n \in d + 1 .. N : ~(n <= d) /\ tree.sons[n] # << >>
      BY <1>2, <1>4 DEF Shaped
  <2> QED
      BY <2>1, <2>2
<1>8. ASSUME NEW n \in 1 .. d PROVE n \in 1 .. N /\ tree.dict[n] \in Bytes
  <2>1. n \in 1 .. N
      BY <1>2
  <2> QED
      BY <1>3, <2>1, SeqElement
<1>9. ASSUME NEW n \in 1 .. N, tree.sons[n] # << >>
      PROVE  tree.sons[n][1] \in 1 .. N /\ tree.sons[n][2] \in 1 .. N
  <2>1. tree.sons[n][1] \in 1 .. n - 1 /\ tree.sons[n][2] \in 1 .. n - 1
      BY <1>5, <1>9 DEF Ordered
  <2>2. \A m \in 1 .. n - 1 : m \in 1 .. N
      BY <1>2
  <2> QED
      BY <2>1, <2>2
<1> QED
    BY <1>2, <1>5, <1>6, <1>7, <1>8, <1>9

LEMMA TreeBitsIs ==
    ASSUME NEW tree, NEW L, NEW d, NEW N, TreeIs(tree, L, d, N)
    PROVE  \E pre : PreorderIs(pre, tree, N) /\ TreeBits(tree) = pre[N]
<1>1. /\ d \in Nat /\ N \in Nat /\ Ordered(tree.sons, N)
      /\ DOMAIN tree.sons = 1 .. N /\ Len(tree.sons) = N
    BY TreeFacts
<1> DEFINE D == Seq(Bits)
           Body(f) == [n \in 1 .. N |->
                IF tree.sons[n] = << >> THEN << 1 >> \o BitsOfByte(tree.dict[n])
                ELSE << 0 >> \o f[tree.sons[n][1]] \o f[tree.sons[n][2]]]
<1>2. PICK leaf : leaf = [n \in 1 .. N |->
                IF tree.sons[n] = << >> THEN << 1 >> \o BitsOfByte(tree.dict[n]) ELSE << >>]
    OBVIOUS
<1>3. << 0 >> \in D /\ << 1 >> \in D /\ << >> \in D
    BY SingleIs DEF Bits
<1>4. leaf \in [1 .. N -> D]
  <2>1. ASSUME NEW n \in 1 .. N PROVE leaf[n] \in D
    <3>1. CASE tree.sons[n] = << >>
      <4>1. tree.dict[n] \in Bytes
        <5>1. n \in 1 .. d
            BY <1>1, <3>1, TreeFacts
        <5> QED
            BY <5>1, TreeFacts
      <4>2. BitsOfByte(tree.dict[n]) \in D
          BY <4>1, BitsOfByteIs
      <4>3. << 1 >> \o BitsOfByte(tree.dict[n]) \in D
          BY <1>3, <4>2, ConcatType
      <4> QED
          BY <1>2, <3>1, <4>3, Zenon
    <3>2. CASE tree.sons[n] # << >>
        BY <1>2, <1>3, <3>2, Zenon
    <3> QED
        BY <3>1, <3>2
  <2> QED
      BY <1>2, <2>1, Zenon
<1>5. PICK join : join = [p \in (1 .. N) \X D \X D |-> << 0 >> \o p[2] \o p[3]]
    OBVIOUS
<1>6. join \in [(1 .. N) \X D \X D -> D]
  <2> SUFFICES ASSUME NEW p \in (1 .. N) \X D \X D PROVE << 0 >> \o p[2] \o p[3] \in D
      BY <1>5, Zenon
  <2>1. p[2] \in D /\ p[3] \in D
      OBVIOUS
  <2>2. << 0 >> \o p[2] \in D
      BY <1>3, <2>1, ConcatType
  <2> QED
      BY <2>1, <2>2, ConcatType
<1>7. PICK f \in [1 .. N -> D] : Grown(f, N, tree.sons, leaf, join)
  <2> HIDE DEF D
  <2> QED
      BY <1>1, <1>4, <1>6, TreeRecursion
<1>8. ASSUME NEW n \in 1 .. N PROVE f[n] = Body(f)[n]
  <2>1. f[n] = IF tree.sons[n] = << >> THEN leaf[n]
               ELSE join[<<n, f[tree.sons[n][1]], f[tree.sons[n][2]]>>]
      BY <1>7 DEF Grown
  <2>2. CASE tree.sons[n] = << >>
      BY <1>2, <2>1, <2>2, Zenon
  <2>3. CASE tree.sons[n] # << >>
    <3>1. PICK a \in D, b \in D : a = f[tree.sons[n][1]] /\ b = f[tree.sons[n][2]]
      <4>1. tree.sons[n][1] \in 1 .. N /\ tree.sons[n][2] \in 1 .. N
          BY <2>3, TreeFacts
      <4> QED
          BY <1>7, <4>1
    <3>2. join[<<n, a, b>>] = << 0 >> \o a \o b
      <4>1. <<n, a, b>> \in (1 .. N) \X D \X D
          OBVIOUS
      <4> QED
          BY <1>5, <4>1
    <3> QED
        BY <2>1, <2>3, <3>1, <3>2, Zenon
  <2> QED
      BY <2>2, <2>3
<1>9. f = Body(f)
    BY <1>7, <1>8, Zenon
<1>10. PICK pre : pre = (CHOOSE g : g = Body(g))
    OBVIOUS
<1>11. pre = Body(pre)
    BY <1>9, <1>10, Zenon
<1>12. TreeBits(tree) = pre[N]
    BY <1>1, <1>10, Zenon DEF TreeBits
<1> DEFINE T == {n \in 1 .. N : pre[n] \in D}
<1>13. \A n \in 1 .. N : n \in T
  <2>1. ASSUME NEW n \in 1 .. N, tree.sons[n] # << >> => tree.sons[n][1] \in T /\ tree.sons[n][2] \in T
        PROVE  n \in T
    <3>1. CASE tree.sons[n] = << >>
      <4>1. pre[n] = leaf[n]
          BY <1>2, <1>11, <3>1, Zenon
      <4> QED
          BY <1>4, <4>1
    <3>2. CASE tree.sons[n] # << >>
      <4>1. PICK a \in D, b \in D : a = pre[tree.sons[n][1]] /\ b = pre[tree.sons[n][2]]
          BY <2>1, <3>2, Zenon
      <4>2. pre[n] = << 0 >> \o a \o b
          BY <1>11, <3>2, <4>1, Zenon
      <4>3. << 0 >> \o a \in D
          BY <1>3, ConcatType
      <4>4. (<< 0 >> \o a) \o b \in D
          BY <4>3, ConcatType
      <4> QED
          BY <4>2, <4>4
    <3> QED
        BY <3>1, <3>2
  <2> HIDE DEF T
  <2> QED
      BY <1>1, <2>1, TreeInduction
<1>14. pre \in [1 .. N -> D]
    BY <1>11, <1>13, Zenon
<1>15. PreorderIs(pre, tree, N)
    BY <1>11, <1>14, Zenon DEF PreorderIs
<1> QED
    BY <1>12, <1>15

\* The codes below the left and the right son, lengthened.
Behind(bit, cs) == {<<c[1], <<bit>> \o c[2]>> : c \in cs}

LEMMA BehindType ==
    ASSUME NEW d, NEW cs \in SUBSET ((1 .. d) \X Seq(Bits)), NEW bit \in Bits
    PROVE  Behind(bit, cs) \in SUBSET ((1 .. d) \X Seq(Bits))
<1> SUFFICES ASSUME NEW c \in cs PROVE <<c[1], <<bit>> \o c[2]>> \in (1 .. d) \X Seq(Bits)
    BY DEF Behind
<1>1. c[1] \in 1 .. d /\ c[2] \in Seq(Bits)
    OBVIOUS
<1>2. <<bit>> \in Seq(Bits)
    BY SingleIs
<1>3. <<bit>> \o c[2] \in Seq(Bits)
    BY <1>1, <1>2, ConcatType
<1> QED
    BY <1>1, <1>3

LEMMA CodesOfIs ==
    ASSUME NEW tree, NEW L, NEW d, NEW N, TreeIs(tree, L, d, N)
    PROVE  \E code : CodesAre(code, tree, d, N) /\ Codes(tree) = code[N]
<1>1. /\ d \in Nat /\ N \in Nat /\ Ordered(tree.sons, N)
      /\ DOMAIN tree.sons = 1 .. N /\ Len(tree.sons) = N
    BY TreeFacts
<1> DEFINE D == SUBSET ((1 .. d) \X Seq(Bits))
           Body(f) == [n \in 1 .. N |->
                IF tree.sons[n] = << >> THEN {<<n, << >>>>}
                ELSE Behind(1, f[tree.sons[n][1]]) \cup Behind(0, f[tree.sons[n][2]])]
<1>2. PICK leaf : leaf = [n \in 1 .. N |-> IF tree.sons[n] = << >> THEN {<<n, << >>>>} ELSE {}]
    OBVIOUS
<1>3. 0 \in Bits /\ 1 \in Bits
    BY DEF Bits
<1>91. ASSUME NEW a \in D, NEW b \in D PROVE Behind(1, a) \cup Behind(0, b) \in D
    BY <1>3, BehindType
<1>4. leaf \in [1 .. N -> D]
  <2>1. ASSUME NEW n \in 1 .. N PROVE leaf[n] \in D
    <3>1. CASE tree.sons[n] = << >>
      <4>1. n \in 1 .. d /\ << >> \in Seq(Bits)
          BY <1>1, <3>1, TreeFacts
      <4>2. <<n, << >>>> \in (1 .. d) \X Seq(Bits)
          BY <4>1
      <4> QED
          BY <1>2, <3>1, <4>2, Zenon
    <3>2. CASE tree.sons[n] # << >>
        BY <1>2, <1>3, <3>2, Zenon
    <3> QED
        BY <3>1, <3>2
  <2> QED
      BY <1>2, <2>1, Zenon
<1>5. PICK join : join = [p \in (1 .. N) \X D \X D |-> Behind(1, p[2]) \cup Behind(0, p[3])]
    OBVIOUS
<1>6. join \in [(1 .. N) \X D \X D -> D]
  <2> SUFFICES ASSUME NEW p \in (1 .. N) \X D \X D PROVE Behind(1, p[2]) \cup Behind(0, p[3]) \in D
      BY <1>5, Zenon
  <2>1. p[2] \in D /\ p[3] \in D
      OBVIOUS
  <2> QED
      BY <1>91, <2>1
<1>7. PICK f \in [1 .. N -> D] : Grown(f, N, tree.sons, leaf, join)
  <2> HIDE DEF D
  <2> QED
      BY <1>1, <1>4, <1>6, TreeRecursion
<1>8. ASSUME NEW n \in 1 .. N PROVE f[n] = Body(f)[n]
  <2>1. f[n] = IF tree.sons[n] = << >> THEN leaf[n]
               ELSE join[<<n, f[tree.sons[n][1]], f[tree.sons[n][2]]>>]
      BY <1>7 DEF Grown
  <2>2. CASE tree.sons[n] = << >>
      BY <1>2, <2>1, <2>2, Zenon
  <2>3. CASE tree.sons[n] # << >>
    <3>1. PICK a \in D, b \in D : a = f[tree.sons[n][1]] /\ b = f[tree.sons[n][2]]
      <4>1. tree.sons[n][1] \in 1 .. N /\ tree.sons[n][2] \in 1 .. N
          BY <2>3, TreeFacts
      <4> HIDE DEF D
      <4> QED
          BY <1>7, <4>1
    <3>2. join[<<n, a, b>>] = Behind(1, a) \cup Behind(0, b)
      <4> HIDE DEF D
      <4>1. <<n, a, b>> \in (1 .. N) \X D \X D
          OBVIOUS
      <4> QED
          BY <1>5, <4>1
    <3> QED
        BY <2>1, <2>3, <3>1, <3>2, Zenon
  <2> QED
      BY <2>2, <2>3
<1>9. f = Body(f)
    BY <1>7, <1>8, Zenon
<1>10. PICK code : code = (CHOOSE g : g = Body(g))
    OBVIOUS
<1>11. code = Body(code)
    BY <1>9, <1>10, Zenon
<1>12. Codes(tree) = code[N]
    BY <1>1, <1>10, Zenon DEF Codes, Behind
<1> DEFINE T == {n \in 1 .. N : code[n] \in D}
<1>13. \A n \in 1 .. N : n \in T
  <2>1. ASSUME NEW n \in 1 .. N, tree.sons[n] # << >> => tree.sons[n][1] \in T /\ tree.sons[n][2] \in T
        PROVE  n \in T
    <3>1. CASE tree.sons[n] = << >>
      <4>1. code[n] = leaf[n]
          BY <1>2, <1>11, <3>1, Zenon
      <4> HIDE DEF D
      <4> QED
          BY <1>4, <4>1
    <3>2. CASE tree.sons[n] # << >>
      <4>1. PICK a \in D, b \in D : a = code[tree.sons[n][1]] /\ b = code[tree.sons[n][2]]
          BY <2>1, <3>2, Zenon
      <4>2. code[n] = Behind(1, a) \cup Behind(0, b)
          BY <1>11, <3>2, <4>1, Zenon
      <4>3. code[n] \in D
          BY <1>91, <4>2, Zenon
      <4> HIDE DEF D
      <4> QED
          BY <4>3
    <3> QED
        BY <3>1, <3>2
  <2> HIDE DEF T
  <2> QED
      BY <1>1, <2>1, TreeInduction
<1>14. code \in [1 .. N -> D]
    BY <1>11, <1>13, Zenon
<1>15. CodesAre(code, tree, d, N)
    BY <1>11, <1>14, Zenon DEF CodesAre, Behind
<1> QED
    BY <1>12, <1>15

LEMMA NodesExist ==
    ASSUME NEW tree, NEW L, NEW d, NEW N, TreeIs(tree, L, d, N)
    PROVE  \E node : NodesAre(node, tree, N)
<1>1. d \in Nat /\ N \in Nat /\ Ordered(tree.sons, N)
    BY TreeFacts
<1> DEFINE D == Seq(1 .. N)
<1>2. PICK leaf : leaf = [n \in 1 .. N |-> <<n>>]
    OBVIOUS
<1>3. \A n \in 1 .. N : <<n>> \in D
    BY SingleIs
<1>4. leaf \in [1 .. N -> D]
    BY <1>2, <1>3, Zenon
<1>5. PICK join : join = [p \in (1 .. N) \X D \X D |-> <<p[1]>> \o p[2] \o p[3]]
    OBVIOUS
<1>6. join \in [(1 .. N) \X D \X D -> D]
  <2> SUFFICES ASSUME NEW p \in (1 .. N) \X D \X D PROVE <<p[1]>> \o p[2] \o p[3] \in D
      BY <1>5, Zenon
  <2>1. p[1] \in 1 .. N /\ p[2] \in D /\ p[3] \in D
      OBVIOUS
  <2>2. <<p[1]>> \o p[2] \in D
      BY <1>3, <2>1, ConcatType
  <2> QED
      BY <2>1, <2>2, ConcatType
<1>7. PICK f \in [1 .. N -> D] : Grown(f, N, tree.sons, leaf, join)
  <2> HIDE DEF D
  <2> QED
      BY <1>1, <1>4, <1>6, TreeRecursion
<1>8. ASSUME NEW n \in 1 .. N
      PROVE  f[n] = IF tree.sons[n] = << >> THEN <<n>>
                    ELSE <<n>> \o f[tree.sons[n][1]] \o f[tree.sons[n][2]]
  <2>1. f[n] = IF tree.sons[n] = << >> THEN leaf[n]
               ELSE join[<<n, f[tree.sons[n][1]], f[tree.sons[n][2]]>>]
      BY <1>7 DEF Grown
  <2>2. CASE tree.sons[n] = << >>
      BY <1>2, <2>1, <2>2, Zenon
  <2>3. CASE tree.sons[n] # << >>
    <3>1. PICK a \in D, b \in D : a = f[tree.sons[n][1]] /\ b = f[tree.sons[n][2]]
      <4>1. tree.sons[n][1] \in 1 .. N /\ tree.sons[n][2] \in 1 .. N
          BY <2>3, TreeFacts
      <4> QED
          BY <1>7, <4>1
    <3>2. join[<<n, a, b>>] = <<n>> \o a \o b
      <4>1. <<n, a, b>> \in (1 .. N) \X D \X D
          OBVIOUS
      <4> QED
          BY <1>5, <4>1
    <3> QED
        BY <2>1, <2>3, <3>1, <3>2, Zenon
  <2> QED
      BY <2>2, <2>3
<1> QED
    BY <1>7, <1>8, Zenon DEF NodesAre

\* Three sequences one after the other.
LEMMA StandsThree ==
    ASSUME NEW S, NEW h \in Seq(S), NEW a \in Seq(S), NEW b \in Seq(S)
    PROVE  /\ h \o a \o b \in Seq(S) /\ Len(h \o a \o b) = Len(h) + Len(a) + Len(b)
           /\ StandsAt(h \o a \o b, 0, h) /\ StandsAt(h \o a \o b, Len(h), a)
           /\ StandsAt(h \o a \o b, Len(h) + Len(a), b)
<1>1. PICK x \in Seq(S) : x = h \o a
    BY ConcatType
<1>2. Len(x) = Len(h) + Len(a) /\ StandsAt(x, 0, h) /\ StandsAt(x, Len(h), a)
    BY <1>1, StandsParts
<1>3. /\ x \o b \in Seq(S) /\ Len(x \o b) = Len(x) + Len(b) /\ StandsAt(x \o b, Len(x), b)
    BY StandsParts
<1>4. Len(h) \in Nat
    BY SeqIsFunction
<1>5. StandsAt(x \o b, 0, h) /\ StandsAt(x \o b, Len(h), a)
    BY <1>2, <1>4, StandsMore
<1> QED
    BY <1>1, <1>2, <1>3, <1>5

\* Below a node with m leaves there are 2 m - 1 nodes, and 10 m - 1 bits.
SizedAs(c, l, p, n) ==
    /\ IsFiniteSet(l) /\ c = Cardinality(l) /\ c \in Nat \ {0}
    /\ Len(n) = 2 * c - 1 /\ Len(p) = 10 * c - 1

LEMMA TreeSizes ==
    ASSUME NEW tree, NEW L, NEW d, NEW N, TreeIs(tree, L, d, N),
           NEW pre, PreorderIs(pre, tree, N), NEW node, NodesAre(node, tree, N)
    PROVE  \A n \in 1 .. N : SizedAs(Cardinality(L[n]), L[n], pre[n], node[n])
<1>1. d \in Nat /\ N \in Nat /\ Ordered(tree.sons, N)
    BY TreeFacts
<1> DEFINE T == {n \in 1 .. N : SizedAs(Cardinality(L[n]), L[n], pre[n], node[n])}
<1>2. ASSUME NEW n \in 1 .. N, tree.sons[n] # << >> => tree.sons[n][1] \in T /\ tree.sons[n][2] \in T
      PROVE  n \in T
  <2>1. CASE tree.sons[n] = << >>
    <3>1. n \in 1 .. d /\ tree.dict[n] \in Bytes
        BY <1>1, <2>1, TreeFacts
    <3>2. L[n] = {n}
        BY <3>1 DEF TreeIs, LeavesAre
    <3>3. IsFiniteSet(L[n]) /\ Cardinality(L[n]) = 1
        BY <3>2, FS_Singleton
    <3>4. Len(node[n]) = 1
      <4>1. node[n] = <<n>>
          BY <2>1 DEF NodesAre
      <4> QED
          BY <4>1, SingleIs
    <3>5. Len(pre[n]) = 9
      <4>1. pre[n] = << 1 >> \o BitsOfByte(tree.dict[n])
          BY <2>1 DEF PreorderIs
      <4>2. BitsOfByte(tree.dict[n]) \in Seq(Bits) /\ Len(BitsOfByte(tree.dict[n])) = 8
          BY <3>1, BitsOfByteIs
      <4>3. << 1 >> \in Seq(Bits) /\ Len(<< 1 >>) = 1
          BY SingleIs DEF Bits
      <4>4. Len(<< 1 >> \o BitsOfByte(tree.dict[n])) = 1 + 8
          BY <4>2, <4>3, StandsParts, ZenonT(60)
      <4> QED
          BY <4>1, <4>4
    <3>6. 1 \in Nat \ {0} /\ 2 * 1 - 1 = 1 /\ 10 * 1 - 1 = 9
        OBVIOUS
    <3>7. SizedAs(1, L[n], pre[n], node[n])
        BY <3>3, <3>4, <3>5, <3>6, Zenon DEF SizedAs
    <3> QED
        BY <3>3, <3>7
  <2>2. CASE tree.sons[n] # << >>
    <3>1. PICK a \in 1 .. N, b \in 1 .. N : a = tree.sons[n][1] /\ b = tree.sons[n][2]
        BY <2>2, TreeFacts
    <3>2. a \in T /\ b \in T
        BY <1>2, <2>2, <3>1
    <3>3. PICK ca \in Nat \ {0}, cb \in Nat \ {0} :
             SizedAs(ca, L[a], pre[a], node[a]) /\ SizedAs(cb, L[b], pre[b], node[b])
      <4>1. /\ SizedAs(Cardinality(L[a]), L[a], pre[a], node[a])
            /\ SizedAs(Cardinality(L[b]), L[b], pre[b], node[b])
          BY <3>2
      <4>2. Cardinality(L[a]) \in Nat \ {0} /\ Cardinality(L[b]) \in Nat \ {0}
          BY <4>1 DEF SizedAs
      <4> QED
          BY <4>1, <4>2
    <3>4. L[n] = L[a] \cup L[b] /\ L[a] \cap L[b] = {}
      <4>1. n \in d + 1 .. N
          BY <1>1, <2>2, TreeFacts
      <4> QED
          BY <3>1, <4>1 DEF TreeIs, LeavesAre
    <3>5. IsFiniteSet(L[n]) /\ Cardinality(L[n]) = ca + cb
      <4>1. /\ IsFiniteSet(L[a] \cup L[b])
            /\ Cardinality(L[a] \cup L[b]) = Cardinality(L[a]) + Cardinality(L[b]) - Cardinality(L[a] \cap L[b])
          BY <3>3, FS_Union DEF SizedAs
      <4>2. Cardinality(L[a] \cap L[b]) = 0
          BY <3>4, FS_EmptySet
      <4>3. ca + cb - 0 = ca + cb
          OBVIOUS
      <4> QED
          BY <3>3, <3>4, <4>1, <4>2, <4>3, Zenon DEF SizedAs
    <3>6. Len(node[n]) = 2 * (ca + cb) - 1
      <4>1. node[n] = <<n>> \o node[a] \o node[b]
          BY <2>2, <3>1 DEF NodesAre
      <4>2. <<n>> \in Seq(1 .. N) /\ Len(<<n>>) = 1 /\ node[a] \in Seq(1 .. N) /\ node[b] \in Seq(1 .. N)
          BY SingleIs DEF NodesAre
      <4>3. Len(<<n>> \o node[a] \o node[b]) = 1 + Len(node[a]) + Len(node[b])
          BY <4>2, StandsThree
      <4>4. 1 + (2 * ca - 1) + (2 * cb - 1) = 2 * (ca + cb) - 1
          OBVIOUS
      <4> QED
          BY <3>3, <4>1, <4>3, <4>4, Zenon DEF SizedAs
    <3>7. Len(pre[n]) = 10 * (ca + cb) - 1
      <4>1. pre[n] = << 0 >> \o pre[a] \o pre[b]
          BY <2>2, <3>1 DEF PreorderIs
      <4>2. << 0 >> \in Seq(Bits) /\ Len(<< 0 >>) = 1 /\ pre[a] \in Seq(Bits) /\ pre[b] \in Seq(Bits)
          BY SingleIs DEF PreorderIs, Bits
      <4>3. Len(<< 0 >> \o pre[a] \o pre[b]) = 1 + Len(pre[a]) + Len(pre[b])
          BY <4>2, StandsThree
      <4>4. 1 + (10 * ca - 1) + (10 * cb - 1) = 10 * (ca + cb) - 1
          OBVIOUS
      <4> QED
          BY <3>3, <4>1, <4>3, <4>4, Zenon DEF SizedAs
    <3>8. ca + cb \in Nat \ {0}
        OBVIOUS
    <3> QED
        BY <3>5, <3>6, <3>7, <3>8 DEF SizedAs
  <2> QED
      BY <2>1, <2>2
<1> HIDE DEF T
<1>3. \A n \in 1 .. N : n \in T
    BY <1>1, <1>2, TreeInduction
<1> QED
    BY <1>3 DEF T

\* Every leaf below a node has a code there.
LEMMA CodesReach ==
    ASSUME NEW tree, NEW L, NEW d, NEW N, TreeIs(tree, L, d, N),
           NEW code, CodesAre(code, tree, d, N)
    PROVE  \A n \in 1 .. N : \A l \in L[n] : \E c \in code[n] : c[1] = l
<1>1. d \in Nat /\ N \in Nat /\ Ordered(tree.sons, N)
    BY TreeFacts
<1> DEFINE T == {n \in 1 .. N : \A l \in L[n] : \E c \in code[n] : c[1] = l}
<1>2. ASSUME NEW n \in 1 .. N, tree.sons[n] # << >> => tree.sons[n][1] \in T /\ tree.sons[n][2] \in T
      PROVE  n \in T
  <2>1. CASE tree.sons[n] = << >>
    <3>1. n \in 1 .. d
        BY <1>1, <2>1, TreeFacts
    <3>2. L[n] = {n}
        BY <3>1 DEF TreeIs, LeavesAre
    <3>3. code[n] = {<<n, << >>>>}
        BY <2>1 DEF CodesAre
    <3>4. <<n, << >>>>[1] = n
        OBVIOUS
    <3> QED
        BY <3>2, <3>3, <3>4
  <2>2. CASE tree.sons[n] # << >>
    <3>1. PICK a \in 1 .. N, b \in 1 .. N : a = tree.sons[n][1] /\ b = tree.sons[n][2]
        BY <2>2, TreeFacts
    <3>2. a \in T /\ b \in T
        BY <1>2, <2>2, <3>1
    <3>3. L[n] = L[a] \cup L[b]
      <4>1. n \in d + 1 .. N
          BY <1>1, <2>2, TreeFacts
      <4> QED
          BY <3>1, <4>1 DEF TreeIs, LeavesAre
    <3>4. code[n] = {<<c[1], << 1 >> \o c[2]>> : c \in code[a]} \cup {<<c[1], << 0 >> \o c[2]>> : c \in code[b]}
        BY <2>2, <3>1, Zenon DEF CodesAre
    <3>5. ASSUME NEW l \in L[a] PROVE \E c \in code[n] : c[1] = l
      <4>1. PICK c \in code[a] : c[1] = l
          BY <3>2
      <4>2. <<c[1], << 1 >> \o c[2]>> \in code[n]
          BY <3>4, Zenon
      <4>3. <<c[1], << 1 >> \o c[2]>>[1] = c[1]
          OBVIOUS
      <4> QED
          BY <4>1, <4>2, <4>3, Zenon
    <3>6. ASSUME NEW l \in L[b] PROVE \E c \in code[n] : c[1] = l
      <4>1. PICK c \in code[b] : c[1] = l
          BY <3>2
      <4>2. <<c[1], << 0 >> \o c[2]>> \in code[n]
          BY <3>4, Zenon
      <4>3. <<c[1], << 0 >> \o c[2]>>[1] = c[1]
          OBVIOUS
      <4> QED
          BY <4>1, <4>2, <4>3, Zenon
    <3> QED
        BY <3>3, <3>5, <3>6
  <2> QED
      BY <2>1, <2>2
<1> HIDE DEF T
<1>3. \A n \in 1 .. N : n \in T
    BY <1>1, <1>2, TreeInduction
<1> QED
    BY <1>3 DEF T

\* An element, and two sequences after it.
Under(s, e, x, y, l, m) ==
    /\ Len(s) = 1 + l + m /\ s[1] = e /\ StandsAt(s, 1, x) /\ StandsAt(s, 1 + l, y)

LEMMA StandsUnder ==
    ASSUME NEW S, NEW e \in S, NEW x \in Seq(S), NEW y \in Seq(S), NEW l \in Nat, NEW m \in Nat,
           l = Len(x), m = Len(y), NEW s, s = <<e>> \o x \o y
    PROVE  s \in Seq(S) /\ Under(s, e, x, y, l, m)
<1>1. PICK h \in Seq(S) : h = <<e>> /\ Len(h) = 1 /\ h[1] = e
  <2>1. <<e>> \in Seq(S) /\ Len(<<e>>) = 1 /\ <<e>>[1] = e
      BY SingleIs
  <2> QED
      BY <2>1, Zenon
<1>2. s = h \o x \o y
    BY <1>1, Zenon
<1>3. /\ h \o x \o y \in Seq(S) /\ Len(h \o x \o y) = Len(h) + Len(x) + Len(y)
      /\ StandsAt(h \o x \o y, 0, h) /\ StandsAt(h \o x \o y, Len(h), x)
      /\ StandsAt(h \o x \o y, Len(h) + Len(x), y)
    BY StandsThree
<1>4. /\ s \in Seq(S) /\ Len(s) = 1 + l + m
      /\ StandsAt(s, 0, h) /\ StandsAt(s, 1, x) /\ StandsAt(s, 1 + l, y)
    BY <1>1, <1>2, <1>3, Zenon
<1>5. s[1] = e
  <2>1. 0 + 1 = 1 /\ 1 \in 1 .. 1
      OBVIOUS
  <2>2. s[0 + 1] = h[1]
      BY <1>1, <1>4, <2>1, Zenon DEF StandsAt
  <2> QED
      BY <1>1, <2>1, <2>2, Zenon
<1> QED
    BY <1>4, <1>5, Zenon DEF Under

\* The nodes below a node follow it.
LEMMA NodesStand ==
    ASSUME NEW tree, NEW L, NEW d, NEW N, TreeIs(tree, L, d, N), NEW node, NodesAre(node, tree, N)
    PROVE  \A n \in 1 .. N : /\ Len(node[n]) \in Nat \ {0} /\ node[n][1] = n
                             /\ \A k \in 1 .. Len(node[n]) : StandsAt(node[n], k - 1, node[node[n][k]])
<1>1. d \in Nat /\ N \in Nat /\ Ordered(tree.sons, N)
    BY TreeFacts
<1> DEFINE Fine(n) == /\ Len(node[n]) \in Nat \ {0} /\ node[n][1] = n
                      /\ \A k \in 1 .. Len(node[n]) : StandsAt(node[n], k - 1, node[node[n][k]])
           T == {n \in 1 .. N : Fine(n)}
<1>2. \A n \in 1 .. N : node[n] \in Seq(1 .. N) /\ StandsAt(node[n], 0, node[n])
  <2> SUFFICES ASSUME NEW n \in 1 .. N PROVE node[n] \in Seq(1 .. N) /\ StandsAt(node[n], 0, node[n])
      OBVIOUS
  <2>1. PICK s \in Seq(1 .. N) : s = node[n]
      BY DEF NodesAre
  <2>2. Len(s) \in Nat
      BY SeqIsFunction
  <2>3. StandsAt(s, 0, s)
      BY <2>2 DEF StandsAt
  <2> QED
      BY <2>1, <2>3
<1>3. ASSUME NEW n \in 1 .. N, tree.sons[n] # << >> => tree.sons[n][1] \in T /\ tree.sons[n][2] \in T
      PROVE  n \in T
  <2>s. <<n>> \in Seq(1 .. N) /\ Len(<<n>>) = 1 /\ <<n>>[1] = n
      BY SingleIs
  <2>1. CASE tree.sons[n] = << >>
    <3>1. PICK s \in Seq(1 .. N) : s = node[n] /\ Len(s) = 1 /\ s[1] = n
      <4>1. node[n] = <<n>>
          BY <2>1 DEF NodesAre
      <4> QED
          BY <4>1, <2>s
    <3>2. ASSUME NEW k \in 1 .. 1 PROVE StandsAt(s, k - 1, node[s[k]])
      <4>1. k = 1 /\ k - 1 = 0
          OBVIOUS
      <4> QED
          BY <1>2, <3>1, <4>1
    <3>3. 1 \in Nat \ {0}
        OBVIOUS
    <3> QED
        BY <3>1, <3>2, <3>3
  <2>2. CASE tree.sons[n] # << >>
    <3>1. PICK a \in 1 .. N, b \in 1 .. N : a = tree.sons[n][1] /\ b = tree.sons[n][2]
        BY <2>2, TreeFacts
    <3>2. Fine(a) /\ Fine(b)
        BY <1>3, <2>2, <3>1
    <3>3. PICK x \in Seq(1 .. N), y \in Seq(1 .. N) : x = node[a] /\ y = node[b]
        BY <1>2
    <3>4. PICK l \in Nat \ {0}, m \in Nat \ {0} : l = Len(x) /\ m = Len(y)
        BY <3>2, <3>3
    <3>5. PICK s \in Seq(1 .. N) : s = node[n]
        BY <1>2, SMTT(30)
    <3>6. Len(s) = 1 + l + m /\ s[1] = n /\ StandsAt(s, 1, x) /\ StandsAt(s, 1 + l, y)
      <4>1. s = <<n>> \o x \o y
          BY <2>2, <3>1, <3>3, <3>5, Zenon DEF NodesAre
      <4>2. l \in Nat /\ m \in Nat
          OBVIOUS
      <4>3. Under(s, n, x, y, l, m)
          BY <3>3, <3>4, <4>1, <4>2, StandsUnder, Zenon
      <4> QED
          BY <4>3 DEF Under
    <3>8. ASSUME NEW k \in 1 .. 1 + l + m PROVE StandsAt(s, k - 1, node[s[k]])
      <4>1. CASE k = 1
          BY <1>2, <3>5, <3>6, <4>1
      <4>2. CASE k \in 2 .. 1 + l
        <5>1. PICK j \in 1 .. l : k = 1 + j /\ j - 1 \in Nat /\ k - 1 = 1 + (j - 1)
          <6>1. k - 1 \in 1 .. l /\ k = 1 + (k - 1) /\ (k - 1) - 1 \in Nat /\ k - 1 = 1 + ((k - 1) - 1)
              BY <4>2
          <6> QED
              BY <6>1
        <5>2. s[k] = x[j]
            BY <3>4, <3>6, <5>1 DEF StandsAt
        <5>3. StandsAt(x, j - 1, node[x[j]])
            BY <3>2, <3>3, <3>4
        <5>4. x[j] \in 1 .. N
            BY <3>4, SeqElement
        <5>5. StandsAt(s, 1 + (j - 1), node[x[j]])
            BY <1>2, <3>6, <5>1, <5>3, <5>4, StandsWithin
        <5> QED
            BY <5>1, <5>2, <5>5
      <4>3. CASE k \in 2 + l .. 1 + l + m
        <5>1. PICK j \in 1 .. m : k = 1 + l + j /\ j - 1 \in Nat /\ k - 1 = (1 + l) + (j - 1)
          <6>1. /\ k - (1 + l) \in 1 .. m /\ k = 1 + l + (k - (1 + l)) /\ (k - (1 + l)) - 1 \in Nat
                /\ k - 1 = (1 + l) + ((k - (1 + l)) - 1)
              BY <4>3
          <6> QED
              BY <6>1
        <5>2. s[k] = y[j]
            BY <3>4, <3>6, <5>1 DEF StandsAt
        <5>3. StandsAt(y, j - 1, node[y[j]])
            BY <3>2, <3>3, <3>4
        <5>4. y[j] \in 1 .. N
            BY <3>4, SeqElement
        <5>5. StandsAt(s, (1 + l) + (j - 1), node[y[j]])
          <6>1. 1 + l \in Nat
              OBVIOUS
          <6> QED
              BY <1>2, <3>6, <5>1, <5>3, <5>4, <6>1, StandsWithin
        <5> QED
            BY <5>1, <5>2, <5>5
      <4> QED
          BY <4>1, <4>2, <4>3
    <3>9. 1 + l + m \in Nat \ {0}
        OBVIOUS
    <3> QED
        BY <3>5, <3>6, <3>8, <3>9
  <2> QED
      BY <2>1, <2>2
<1> HIDE DEF T
<1>4. \A n \in 1 .. N : n \in T
    BY <1>1, <1>3, TreeInduction
<1> QED
    BY <1>4 DEF T

\* In the order of the nodes the left son follows its parent, and the right son
\* the nodes below the left one.
SonsAre(node, tree, N, k, n, a, b, q, r) ==
    /\ n = node[N][k] /\ a = tree.sons[n][1] /\ b = tree.sons[n][2] /\ tree.sons[n] # << >>
    /\ q = k + 1 /\ r = k + 1 + Len(node[a])
    /\ node[N][q] = a /\ node[N][r] = b
    /\ Len(node[n]) = 1 + Len(node[a]) + Len(node[b])
    /\ Len(node[a]) \in Nat \ {0} /\ Len(node[b]) \in Nat \ {0}

LEMMA SonsFollow ==
    ASSUME NEW tree, NEW L, NEW d, NEW N, TreeIs(tree, L, d, N), NEW node, NodesAre(node, tree, N),
           Len(node[N]) = N, NEW k \in 1 .. N, node[N][k] > d
    PROVE  \E n \in 1 .. N, a \in 1 .. N, b \in 1 .. N, q \in 1 .. N, r \in 1 .. N :
              SonsAre(node, tree, N, k, n, a, b, q, r)
<1>1. /\ d \in Nat /\ N \in Nat /\ N \in 1 .. N
    BY TreeFacts
<1>2. PICK s \in Seq(1 .. N) : s = node[N] /\ Len(s) = N
    BY <1>1 DEF NodesAre
<1>3. PICK n \in 1 .. N : n = s[k] /\ n > d
    BY <1>2, SeqElement
<1>4. tree.sons[n] # << >>
    BY <1>1, <1>3, TreeFacts
<1>5. PICK a \in 1 .. N, b \in 1 .. N : a = tree.sons[n][1] /\ b = tree.sons[n][2]
    BY <1>4, TreeFacts
<1>6. PICK x \in Seq(1 .. N), y \in Seq(1 .. N) : x = node[a] /\ y = node[b]
    BY DEF NodesAre
<1>7. PICK l \in Nat \ {0}, m \in Nat \ {0} : l = Len(x) /\ m = Len(y) /\ x[1] = a /\ y[1] = b
    BY <1>6, NodesStand
<1>8. PICK t \in Seq(1 .. N) : t = node[n]
    BY Zenon DEF NodesAre
<1>9. Len(t) = 1 + l + m /\ StandsAt(t, 1, x) /\ StandsAt(t, 1 + l, y)
  <2>1. t = <<n>> \o x \o y
      BY <1>4, <1>5, <1>6, <1>8, Zenon DEF NodesAre
  <2>2. l \in Nat /\ m \in Nat
      OBVIOUS
  <2>3. Under(t, n, x, y, l, m)
      BY <1>6, <1>7, <2>1, <2>2, StandsUnder, Zenon
  <2> QED
      BY <2>3 DEF Under
<1>10. StandsAt(s, k - 1, t)
    BY <1>1, <1>2, <1>3, <1>8, NodesStand
<1>11. k - 1 + (1 + l + m) <= N
    BY <1>2, <1>9, <1>10 DEF StandsAt
<1>12. PICK q \in 1 .. N, r \in 1 .. N : q = k + 1 /\ r = k + 1 + l
  <2>1. k + 1 \in 1 .. N /\ k + 1 + l \in 1 .. N
      BY <1>1, <1>11
  <2> QED
      BY <2>1
<1>13. t[2] = a
  <2>1. 1 + 1 = 2 /\ 1 \in 1 .. l
      OBVIOUS
  <2>2. t[1 + 1] = x[1]
      BY <1>7, <1>9, <2>1 DEF StandsAt
  <2> QED
      BY <1>7, <2>1, <2>2
<1>14. t[2 + l] = b
  <2>1. (1 + l) + 1 = 2 + l /\ 1 \in 1 .. m
      OBVIOUS
  <2>2. t[(1 + l) + 1] = y[1]
      BY <1>7, <1>9, <2>1 DEF StandsAt
  <2> QED
      BY <1>7, <2>1, <2>2
<1>15. s[q] = a
  <2>1. 2 \in 1 .. 1 + l + m /\ k - 1 + 2 = q
      BY <1>12
  <2>2. s[k - 1 + 2] = t[2]
      BY <1>9, <1>10, <2>1 DEF StandsAt
  <2> QED
      BY <1>13, <2>1, <2>2
<1>16. s[r] = b
  <2>1. 2 + l \in 1 .. 1 + l + m /\ k - 1 + (2 + l) = r
      BY <1>12
  <2>2. s[k - 1 + (2 + l)] = t[2 + l]
      BY <1>9, <1>10, <2>1 DEF StandsAt
  <2> QED
      BY <1>14, <2>1, <2>2
<1>17. SonsAre(node, tree, N, k, n, a, b, q, r)
    BY <1>2, <1>3, <1>4, <1>5, <1>6, <1>7, <1>8, <1>9, <1>12, <1>15, <1>16, Zenon DEF SonsAre
<1> QED
    BY <1>17

-----------------------------------------------------------------------------
(* The tree that is read back. *)

PosIs(pos, bits, d) ==
    /\ pos \in [1 .. 2 * d -> Nat \ {0}]
    /\ pos[1] = 49
    /\ \A k \in 1 .. 2 * d - 1 : pos[k + 1] = pos[k] + (IF bits[pos[k]] = 1 THEN 9 ELSE 1)

\* The decoder's equations for the positions and for the node after a subtree.
PosEq(pos, bits, d) ==
    pos = [k \in 1 .. 2 * d |->
             IF k = 1 THEN 6 * 8 + 1
             ELSE pos[k - 1] + (IF bits[pos[k - 1]] = 1 THEN 9 ELSE 1)]

NextEq(next, leaf, N) ==
    next = [k \in 1 .. N |-> IF leaf[k] THEN k + 1 ELSE next[next[k + 1]]]

\* The bits of node n stand where the decoder finds its node k.
NodeAt(bits, pos, pre, k, n) == StandsAt(bits, pos[k] - 1, pre[n])

Decoded(bits, pos, pre, node, k, n) ==
    /\ pos[k + Len(node[n])] = pos[k] + Len(pre[n])
    /\ \A j \in 1 .. Len(node[n]) : NodeAt(bits, pos, pre, k + j - 1, node[n][j])

LEMMA PositionsExist ==
    ASSUME NEW d \in 2 .. 256, NEW bits
    PROVE  \E pos : PosEq(pos, bits, d)
<1>1. PICK n \in Nat : n = 2 * d - 1
  <2>1. 2 * d - 1 \in Nat
      OBVIOUS
  <2> QED
      BY <2>1
<1>2. PICK A : A = Nat \ {0}
    OBVIOUS
<1>3. PICK step : step = [p \in (1 .. n) \X A |-> p[2] + (IF bits[p[2]] = 1 THEN 9 ELSE 1)]
    OBVIOUS
<1>4. step \in [(1 .. n) \X A -> A]
  <2> SUFFICES ASSUME NEW p \in (1 .. n) \X A
               PROVE  p[2] + (IF bits[p[2]] = 1 THEN 9 ELSE 1) \in A
      BY <1>3, Zenon
  <2>1. p[2] \in Nat \ {0}
      BY <1>2
  <2> QED
      BY <1>2, <2>1
<1>5. 49 \in A
    BY <1>2
<1>6. PICK f \in [0 .. n -> A] : Follows(f, n, 49, step)
    BY <1>4, <1>5, RecursionExists
<1>7. PICK pos : pos = [k \in 1 .. 2 * d |-> f[k - 1]]
    OBVIOUS
<1>8. pos \in [1 .. 2 * d -> Nat \ {0}]
  <2>1. ASSUME NEW k \in 1 .. 2 * d PROVE f[k - 1] \in Nat \ {0}
    <3>1. k - 1 \in 0 .. n
        BY <1>1
    <3> QED
        BY <1>2, <1>6, <3>1
  <2> QED
      BY <1>7, <2>1, Zenon
<1>9. pos[1] = 49
  <2>1. 1 \in 1 .. 2 * d /\ 1 - 1 = 0
      OBVIOUS
  <2>2. f[0] = 49
      BY <1>6 DEF Follows
  <2> QED
      BY <1>7, <2>1, <2>2
<1>10. ASSUME NEW k \in 1 .. 2 * d - 1
       PROVE  pos[k + 1] = pos[k] + (IF bits[pos[k]] = 1 THEN 9 ELSE 1)
  <2>1. /\ k \in 1 .. n /\ k \in 1 .. 2 * d /\ k + 1 \in 1 .. 2 * d /\ (k + 1) - 1 = k
        /\ k - 1 \in 0 .. n
      BY <1>1
  <2>2. PICK x \in A : x = f[k - 1]
      BY <1>6, <2>1
  <2>3. f[k] = step[<<k, x>>]
      BY <1>6, <2>1, <2>2 DEF Follows
  <2>4. step[<<k, x>>] = x + (IF bits[x] = 1 THEN 9 ELSE 1)
    <3>1. <<k, x>> \in (1 .. n) \X A
        BY <2>1
    <3> QED
        BY <1>3, <3>1
  <2>5. pos[k] = x /\ pos[k + 1] = f[k]
      BY <1>7, <2>1, <2>2
  <2> QED
      BY <2>3, <2>4, <2>5, Zenon
<1>12. ASSUME NEW k \in 1 .. 2 * d
       PROVE  pos[k] = IF k = 1 THEN 6 * 8 + 1
                       ELSE pos[k - 1] + (IF bits[pos[k - 1]] = 1 THEN 9 ELSE 1)
  <2>1. CASE k = 1
      BY <1>9, <2>1
  <2>2. CASE k # 1
    <3>1. k - 1 \in 1 .. 2 * d - 1 /\ (k - 1) + 1 = k
        BY <2>2
    <3> QED
        BY <1>10, <2>2, <3>1
  <2> QED
      BY <2>1, <2>2
<1>13. pos = [k \in 1 .. 2 * d |-> pos[k]]
    BY <1>8, Zenon
<1>14. PosEq(pos, bits, d)
    BY <1>12, <1>13, Zenon DEF PosEq
<1> QED
    BY <1>14

\* Any solution of the decoder's equation is of that kind.
LEMMA PositionsAre ==
    ASSUME NEW d \in 2 .. 256, NEW bits, NEW pos, PosEq(pos, bits, d)
    PROVE  PosIs(pos, bits, d)
<1>1. ASSUME NEW k \in 1 .. 2 * d
      PROVE  pos[k] = IF k = 1 THEN 6 * 8 + 1
                      ELSE pos[k - 1] + (IF bits[pos[k - 1]] = 1 THEN 9 ELSE 1)
    BY Zenon DEF PosEq
<1>2. pos[1] = 49
  <2>1. 1 \in 1 .. 2 * d /\ 6 * 8 + 1 = 49
      OBVIOUS
  <2> QED
      BY <1>1, <2>1
<1>3. ASSUME NEW k \in 1 .. 2 * d - 1
      PROVE  pos[k + 1] = pos[k] + (IF bits[pos[k]] = 1 THEN 9 ELSE 1)
  <2>1. k + 1 \in 1 .. 2 * d /\ (k + 1) - 1 = k /\ k + 1 # 1
      OBVIOUS
  <2> QED
      BY <1>1, <2>1
<1> DEFINE T == {k \in Nat : k + 1 \in 1 .. 2 * d => pos[k + 1] \in Nat \ {0}}
<1>4. Nat \subseteq T
  <2>1. 0 \in T
      BY <1>2
  <2>2. ASSUME NEW k \in Nat, k \in T PROVE k + 1 \in T
    <3> SUFFICES ASSUME k + 1 + 1 \in 1 .. 2 * d PROVE pos[k + 1 + 1] \in Nat \ {0}
        OBVIOUS
    <3>1. k + 1 \in 1 .. 2 * d - 1 /\ k + 1 \in 1 .. 2 * d
        OBVIOUS
    <3>2. pos[k + 1] \in Nat \ {0}
        BY <2>2, <3>1
    <3>3. pos[k + 1 + 1] = pos[k + 1] + (IF bits[pos[k + 1]] = 1 THEN 9 ELSE 1)
        BY <1>3, <3>1
    <3> QED
        BY <3>2, <3>3
  <2> HIDE DEF T
  <2> QED
      BY <2>1, <2>2, SetInduction
<1>5. ASSUME NEW k \in 1 .. 2 * d PROVE pos[k] \in Nat \ {0}
  <2>1. k - 1 \in Nat /\ (k - 1) + 1 = k
      OBVIOUS
  <2>2. k - 1 \in T
      BY <1>4, <2>1, Zenon
  <2> QED
      BY <2>1, <2>2
<1>6. DOMAIN pos = 1 .. 2 * d /\ pos = [k \in DOMAIN pos |-> pos[k]]
    BY Zenon DEF PosEq
<1>7. pos \in [1 .. 2 * d -> Nat \ {0}]
    BY <1>5, <1>6, Zenon
<1> QED
    BY <1>2, <1>3, <1>7, Zenon DEF PosIs

\* What the decoder sees at a node: one bit, and for a leaf its byte.
LEMMA DecodesAll ==
    ASSUME NEW tree, NEW L, NEW d, NEW N, TreeIs(tree, L, d, N),
           NEW pre, PreorderIs(pre, tree, N), NEW node, NodesAre(node, tree, N),
           NEW bits \in Seq(Bits), NEW pos, PosIs(pos, bits, d)
    PROVE  \A n \in 1 .. N, k \in 1 .. 2 * d :
              k + Len(node[n]) <= 2 * d /\ NodeAt(bits, pos, pre, k, n) => Decoded(bits, pos, pre, node, k, n)
<1>1. /\ d \in Nat /\ N \in Nat /\ Ordered(tree.sons, N)
    BY TreeFacts
<1>n. d \in Nat
    BY <1>1
<1> DEFINE Fine(n) == \A k \in 1 .. 2 * d :
              k + Len(node[n]) <= 2 * d /\ NodeAt(bits, pos, pre, k, n) => Decoded(bits, pos, pre, node, k, n)
           T == {n \in 1 .. N : Fine(n)}
<1>d. 0 \in Bits /\ 1 \in Bits
    BY DEF Bits
<1>92. ASSUME NEW k \in 1 .. 2 * d, NEW x, x = pos[k] PROVE x \in Nat \ {0}
    BY <1>92 DEF PosIs
<1>2. ASSUME NEW n \in 1 .. N, tree.sons[n] # << >> => tree.sons[n][1] \in T /\ tree.sons[n][2] \in T
      PROVE  n \in T
  <2> SUFFICES ASSUME NEW k \in 1 .. 2 * d, k + Len(node[n]) <= 2 * d, NodeAt(bits, pos, pre, k, n)
               PROVE  Decoded(bits, pos, pre, node, k, n)
      BY Zenon
  <2>p. PICK x \in Nat \ {0} : x = pos[k] /\ x - 1 \in Nat
    <3>1. \A z \in Nat \ {0} : z - 1 \in Nat
        OBVIOUS
    <3> QED
        BY <1>92, <3>1
  <2>1. CASE tree.sons[n] = << >>
    <3>1. n \in 1 .. d /\ tree.dict[n] \in Bytes
        BY <1>1, <2>1, TreeFacts
    <3>2. node[n] = <<n>> /\ Len(node[n]) = 1 /\ node[n][1] = n
      <4>1. node[n] = <<n>>
          BY <2>1, Zenon DEF NodesAre
      <4> QED
          BY <4>1, SingleIs
    <3>3. PICK u \in Seq(Bits), v \in Seq(Bits) :
             u = << 1 >> /\ v = BitsOfByte(tree.dict[n]) /\ Len(u) = 1 /\ Len(v) = 8 /\ u[1] = 1
      <4>1. << 1 >> \in Seq(Bits) /\ Len(<< 1 >>) = 1 /\ << 1 >>[1] = 1
          BY <1>d, SingleIs
      <4>2. BitsOfByte(tree.dict[n]) \in Seq(Bits) /\ Len(BitsOfByte(tree.dict[n])) = 8
          BY <3>1, BitsOfByteIs
      <4> QED
          BY <4>1, <4>2, Zenon
    <3>4. pre[n] = u \o v
        BY <2>1, <3>3, Zenon DEF PreorderIs
    <3>5. u \o v \in Seq(Bits) /\ Len(u \o v) = Len(u) + Len(v) /\ StandsAt(u \o v, 0, u)
        BY StandsParts
    <3>6. Len(pre[n]) = 9
        BY <3>3, <3>4, <3>5
    <3>7. StandsAt(bits, x - 1, u \o v)
        BY <2>p, <3>4, Zenon DEF NodeAt
    <3>8. bits[x] = 1
      <4>1. StandsAt(bits, (x - 1) + 0, u)
          BY <2>p, <3>5, <3>7, StandsWithin
      <4>2. (x - 1) + 0 + 1 = x /\ 1 \in 1 .. 1
          OBVIOUS
      <4>3. bits[(x - 1) + 0 + 1] = u[1]
          BY <3>3, <4>1, <4>2, Zenon DEF StandsAt
      <4> QED
          BY <3>3, <4>2, <4>3, Zenon
    <3>9. pos[k + 1] = x + 9
      <4>1. k \in 1 .. 2 * d - 1
          BY <1>n, <3>2
      <4> QED
          BY <2>p, <3>8, <4>1 DEF PosIs
    <3>10. ASSUME NEW j \in 1 .. 1 PROVE NodeAt(bits, pos, pre, k + j - 1, node[n][j])
      <4>1. j = 1 /\ k + j - 1 = k
          OBVIOUS
      <4> QED
          BY <3>2, <4>1, Zenon
    <3> QED
        BY <2>p, <3>2, <3>6, <3>9, <3>10, Zenon DEF Decoded
  <2>2. CASE tree.sons[n] # << >>
    <3>1. PICK a \in 1 .. N, b \in 1 .. N : a = tree.sons[n][1] /\ b = tree.sons[n][2]
        BY <2>2, TreeFacts
    <3>2. Fine(a) /\ Fine(b)
        BY <1>2, <2>2, <3>1
    <3>3. PICK s \in Seq(1 .. N), y \in Seq(1 .. N), z \in Seq(1 .. N) :
             s = node[n] /\ y = node[a] /\ z = node[b]
        BY DEF NodesAre
    <3>4. PICK l \in Nat, m \in Nat : l = Len(y) /\ m = Len(z) /\ l > 0 /\ m > 0
      <4>1. Len(y) \in Nat \ {0} /\ Len(z) \in Nat \ {0}
          BY <3>3, NodesStand, Zenon
      <4>2. \A i \in Nat \ {0} : i \in Nat /\ i > 0
          OBVIOUS
      <4> QED
          BY <4>1, <4>2
    <3>5. Under(s, n, y, z, l, m)
      <4>1. s = <<n>> \o y \o z
          BY <2>2, <3>1, <3>3, Zenon DEF NodesAre
      <4> QED
          BY <3>4, <4>1, StandsUnder, Zenon
    <3>6. PICK t \in Seq(Bits), v \in Seq(Bits), w \in Seq(Bits) :
             t = pre[n] /\ v = pre[a] /\ w = pre[b]
        BY DEF PreorderIs
    <3>7. PICK e \in Nat, f \in Nat : e = Len(v) /\ f = Len(w)
        BY SeqIsFunction
    <3>8. Under(t, 0, v, w, e, f)
      <4>1. t = << 0 >> \o v \o w
          BY <2>2, <3>1, <3>6, Zenon DEF PreorderIs
      <4> QED
          BY <1>d, <3>7, <4>1, StandsUnder, Zenon
    <3>9. StandsAt(bits, x - 1, t)
        BY <2>p, <3>6, Zenon DEF NodeAt
    <3>10. bits[x] = 0
      <4>1. 1 \in 1 .. Len(t) /\ (x - 1) + 1 = x
          BY <3>8 DEF Under
      <4>2. bits[(x - 1) + 1] = t[1] /\ t[1] = 0
          BY <3>8, <3>9, <4>1, Zenon DEF StandsAt, Under
      <4> QED
          BY <4>1, <4>2, Zenon
    <3>n. Len(s) = 1 + l + m /\ k + (1 + l + m) <= 2 * d
        BY <3>3, <3>5 DEF Under
    <3>11. PICK q \in 1 .. 2 * d, r \in 1 .. 2 * d : q = k + 1 /\ r = k + 1 + l
      <4>1. k + 1 \in 1 .. 2 * d /\ k + 1 + l \in 1 .. 2 * d
          BY <1>n, <3>4, <3>n, SMTT(30)
      <4> QED
          BY <4>1
    <3>12. pos[q] = x + 1
      <4>1. k \in 1 .. 2 * d - 1
          BY <1>n, <3>11
      <4>2. 0 # 1
          OBVIOUS
      <4> QED
          BY <2>p, <3>10, <3>11, <4>1, <4>2, Zenon DEF PosIs
    <3>13. NodeAt(bits, pos, pre, q, a)
      <4>1. StandsAt(bits, (x - 1) + 1, v)
          BY <2>p, <3>8, <3>9, StandsWithin DEF Under
      <4>2. (x - 1) + 1 = (x + 1) - 1
          OBVIOUS
      <4> QED
          BY <3>6, <3>12, <4>1, <4>2, Zenon DEF NodeAt
    <3>14. Decoded(bits, pos, pre, node, q, a)
      <4>1. q + l <= 2 * d
          BY <3>4, <3>11, <3>n
      <4> QED
          BY <3>2, <3>3, <3>4, <3>13, <4>1, Zenon
    <3>15. pos[r] = x + 1 + e
      <4>1. q + l = r
          BY <3>11
      <4> QED
          BY <3>3, <3>4, <3>6, <3>7, <3>12, <3>14, <4>1, Zenon DEF Decoded
    <3>16. NodeAt(bits, pos, pre, r, b)
      <4>1. StandsAt(bits, (x - 1) + (1 + e), w)
        <5>1. 1 + e \in Nat
            OBVIOUS
        <5> QED
            BY <2>p, <3>8, <3>9, <5>1, StandsWithin DEF Under
      <4>2. (x - 1) + (1 + e) = (x + 1 + e) - 1
          OBVIOUS
      <4> QED
          BY <3>6, <3>15, <4>1, <4>2, Zenon DEF NodeAt
    <3>17. Decoded(bits, pos, pre, node, r, b)
      <4>1. r + m <= 2 * d
          BY <3>11, <3>n
      <4> QED
          BY <3>2, <3>3, <3>4, <3>16, <4>1, Zenon
    <3>18. pos[k + Len(s)] = x + Len(t)
      <4>1. r + m = k + (1 + l + m) /\ x + 1 + e + f = x + (1 + e + f)
          BY <3>11
      <4>2. pos[r + m] = x + 1 + e + f
          BY <3>3, <3>4, <3>6, <3>7, <3>15, <3>17, Zenon DEF Decoded
      <4>3. Len(s) = 1 + l + m /\ Len(t) = 1 + e + f
          BY <3>5, <3>8, Zenon DEF Under
      <4> QED
          BY <4>1, <4>2, <4>3, Zenon
    <3>19. ASSUME NEW j \in 1 .. Len(s) PROVE NodeAt(bits, pos, pre, k + j - 1, s[j])
      <4>1. j \in Nat /\ (j = 1 \/ (j - 1 \in 1 .. l /\ j = 1 + (j - 1)) \/ (j - 1 - l \in 1 .. m /\ j = (1 + l) + (j - 1 - l)))
          BY <3>n
      <4>2. CASE j = 1
        <5>1. k + 1 - 1 = k
            OBVIOUS
        <5>2. s[1] = n
            BY <3>5, Zenon DEF Under
        <5> QED
            BY <4>2, <5>1, <5>2, Zenon
      <4>3. CASE j - 1 \in 1 .. l
        <5>1. PICK i \in 1 .. l : j = 1 + i
            BY <4>1, <4>3
        <5>2. s[1 + i] = y[i]
            BY <3>4, <3>5, Zenon DEF Under, StandsAt
        <5>3. NodeAt(bits, pos, pre, q + i - 1, y[i])
            BY <3>3, <3>4, <3>14, Zenon DEF Decoded
        <5>4. q + i - 1 = k + (1 + i) - 1
            BY <3>11
        <5> QED
            BY <5>1, <5>2, <5>3, <5>4, Zenon
      <4>4. CASE j - 1 - l \in 1 .. m /\ j = (1 + l) + (j - 1 - l)
        <5>1. PICK i \in 1 .. m : j = (1 + l) + i
            BY <4>4
        <5>2. s[(1 + l) + i] = z[i]
            BY <3>4, <3>5, Zenon DEF Under, StandsAt
        <5>3. NodeAt(bits, pos, pre, r + i - 1, z[i])
            BY <3>3, <3>4, <3>17, Zenon DEF Decoded
        <5>4. r + i - 1 = k + ((1 + l) + i) - 1
            BY <3>11
        <5> QED
            BY <5>1, <5>2, <5>3, <5>4, Zenon
      <4> QED
          BY <4>1, <4>2, <4>3, <4>4
    <3> QED
        BY <2>p, <3>3, <3>6, <3>18, <3>19, Zenon DEF Decoded
  <2> QED
      BY <2>1, <2>2
<1> HIDE DEF T
<1>3. \A n \in 1 .. N : n \in T
    BY <1>1, <1>2, TreeInduction
<1> QED
    BY <1>3 DEF T

\* The decoder's tree t is the encoder's, its nodes numbered as they stand in
\* the stream.
ReadsAs(t, tree, d, N, node) ==
    /\ DOMAIN t.leaf = 1 .. N
    /\ \A k \in 1 .. N : t.leaf[k] <=> node[N][k] <= d
    /\ \A k \in 1 .. N : t.leaf[k] => t.val[k] = tree.dict[node[N][k]]
    /\ \A k \in 1 .. N : ~ t.leaf[k] =>
          \E n \in 1 .. N, a \in 1 .. N, b \in 1 .. N :
             SonsAre(node, tree, N, k, n, a, b, t.left[k], t.right[k])

\* The leaves the decoder finds, and the end of the subtree of each node.
LeafIs(leaf, node, d, N) == \A k \in 1 .. N : leaf[k] <=> node[N][k] <= d

EndsAt(next, node, N) == \A k \in 1 .. N : next[k] = k + Len(node[node[N][k]])

LEMMA NodeLength ==
    ASSUME NEW tree, NEW N, NEW node, NodesAre(node, tree, N), NEW n \in 1 .. N, tree.sons[n] = << >>
    PROVE  Len(node[n]) = 1
<1>1. node[n] = <<n>>
    BY DEF NodesAre
<1> QED
    BY <1>1, SingleIs

\* The node after a subtree: what the decoder's next computes.
LEMMA NextExists ==
    ASSUME NEW tree, NEW L, NEW d, NEW N, TreeIs(tree, L, d, N), NEW node, NodesAre(node, tree, N),
           Len(node[N]) = N, NEW leaf, LeafIs(leaf, node, d, N)
    PROVE  \E next : NextEq(next, leaf, N)
<1>l. \A k \in 1 .. N : leaf[k] <=> node[N][k] <= d
    BY DEF LeafIs
<1>1. PICK h : h = [k \in 1 .. N |-> k + Len(node[node[N][k]])]
    OBVIOUS
<1>2. d \in Nat /\ N \in Nat /\ N \in 1 .. N
    BY TreeFacts
<1>3. ASSUME NEW k \in 1 .. N PROVE h[k] = IF leaf[k] THEN k + 1 ELSE h[h[k + 1]]
  <2>1. PICK n \in 1 .. N : n = node[N][k]
    <3>1. node[N] \in Seq(1 .. N)
        BY <1>2 DEF NodesAre
    <3> QED
        BY <3>1, SeqElement
  <2>2. CASE leaf[k]
    <3>1. n <= d
        BY <1>l, <2>1, <2>2
    <3>2. tree.sons[n] = << >>
        BY <3>1, TreeFacts
    <3>3. Len(node[n]) = 1
        BY <3>2, NodeLength
    <3> QED
        BY <1>1, <2>1, <2>2, <3>3, Zenon
  <2>3. CASE ~ leaf[k]
    <3>1. node[N][k] > d
      <4>1. \A i \in 1 .. N : i <= d \/ i > d
          BY <1>2
      <4> QED
          BY <1>l, <2>1, <2>3, <4>1
    <3>2. PICK m \in 1 .. N, a \in 1 .. N, b \in 1 .. N, q \in 1 .. N, r \in 1 .. N :
             SonsAre(node, tree, N, k, m, a, b, q, r)
        BY <3>1, SonsFollow, Zenon
    <3>3. PICK l1 \in Nat, l2 \in Nat : l1 = Len(node[a]) /\ l2 = Len(node[b])
        BY <3>2, Zenon DEF SonsAre
    <3>4. m = n /\ q = k + 1 /\ r = k + 1 + l1 /\ Len(node[n]) = 1 + l1 + l2
          /\ node[N][q] = a /\ node[N][r] = b
        BY <2>1, <3>2, <3>3, Zenon DEF SonsAre
    <3>5. h[q] = q + l1 /\ h[r] = r + l2 /\ h[k] = k + (1 + l1 + l2)
        BY <1>1, <2>1, <3>3, <3>4, Zenon
    <3>6. q + l1 = r /\ r + l2 = k + (1 + l1 + l2)
        BY <3>4
    <3> QED
        BY <2>3, <3>4, <3>5, <3>6, Zenon
  <2> QED
      BY <2>2, <2>3
<1>4. h = [k \in 1 .. N |-> h[k]]
    BY <1>1, Zenon
<1>5. NextEq(h, leaf, N)
    BY <1>3, <1>4, Zenon DEF NextEq
<1> QED
    BY <1>5

LEMMA NextIs ==
    ASSUME NEW tree, NEW L, NEW d, NEW N, TreeIs(tree, L, d, N), NEW node, NodesAre(node, tree, N),
           Len(node[N]) = N, NEW leaf, LeafIs(leaf, node, d, N),
           NEW next, NextEq(next, leaf, N)
    PROVE  EndsAt(next, node, N)
<1>l. \A k \in 1 .. N : leaf[k] <=> node[N][k] <= d
    BY DEF LeafIs
<1>1. d \in Nat /\ N \in Nat /\ N \in 1 .. N /\ Ordered(tree.sons, N)
    BY TreeFacts
<1>n. node[N] \in Seq(1 .. N) /\ \A i \in 1 .. N : i <= d \/ i > d
    BY <1>1 DEF NodesAre
<1> DEFINE T == {n \in 1 .. N : \A k \in 1 .. N : node[N][k] = n => next[k] = k + Len(node[n])}
<1>2. ASSUME NEW n \in 1 .. N, tree.sons[n] # << >> => tree.sons[n][1] \in T /\ tree.sons[n][2] \in T
      PROVE  n \in T
  <2> SUFFICES ASSUME NEW k \in 1 .. N, node[N][k] = n PROVE next[k] = k + Len(node[n])
      BY Zenon
  <2>1. next[k] = IF leaf[k] THEN k + 1 ELSE next[next[k + 1]]
      BY Zenon DEF NextEq
  <2>2. CASE leaf[k]
    <3>1. n <= d
        BY <1>l, <2>2, Zenon
    <3>2. tree.sons[n] = << >>
        BY <3>1, TreeFacts
    <3>3. Len(node[n]) = 1
        BY <3>2, NodeLength
    <3> QED
        BY <2>1, <2>2, <3>3, Zenon
  <2>3. CASE ~ leaf[k]
    <3>1. node[N][k] > d
        BY <1>l, <1>n, <2>3
    <3>2. PICK m \in 1 .. N, a \in 1 .. N, b \in 1 .. N, q \in 1 .. N, r \in 1 .. N :
             SonsAre(node, tree, N, k, m, a, b, q, r)
        BY <3>1, SonsFollow, Zenon
    <3>3. PICK l1 \in Nat, l2 \in Nat : l1 = Len(node[a]) /\ l2 = Len(node[b])
        BY <3>2, Zenon DEF SonsAre
    <3>4. m = n /\ q = k + 1 /\ r = k + 1 + l1 /\ Len(node[n]) = 1 + l1 + l2
          /\ node[N][q] = a /\ node[N][r] = b
          /\ a = tree.sons[n][1] /\ b = tree.sons[n][2] /\ tree.sons[n] # << >>
        BY <3>2, <3>3, Zenon DEF SonsAre
    <3>5. a \in T /\ b \in T
        BY <1>2, <3>4, Zenon
    <3>6. next[q] = q + l1 /\ next[r] = r + l2
        BY <3>3, <3>4, <3>5, Zenon
    <3>7. q + l1 = r /\ r + l2 = k + (1 + l1 + l2)
        BY <3>4
    <3> QED
        BY <2>1, <2>3, <3>4, <3>6, <3>7, Zenon
  <2> QED
      BY <2>2, <2>3
<1> HIDE DEF T
<1>3. \A n \in 1 .. N : n \in T
    BY <1>1, <1>2, TreeInduction
<1> QED
  <2> SUFFICES ASSUME NEW k \in 1 .. N PROVE next[k] = k + Len(node[node[N][k]])
      BY DEF EndsAt
  <2>1. node[N][k] \in 1 .. N
      BY <1>n, SeqElement
  <2> QED
      BY <1>3, <2>1 DEF T

\* The bits of a leaf in the stream.
LEMMA LeafRead ==
    ASSUME NEW bits \in Seq(Bits), NEW x \in Nat \ {0}, NEW c \in Bytes,
           StandsAt(bits, x - 1, << 1 >> \o BitsOfByte(c))
    PROVE  bits[x] = 1 /\ BytesOf(SubSeq(bits, x + 1, x + 8))[1] = c
<1>1. PICK u \in Seq(Bits), v \in Seq(Bits) :
         u = << 1 >> /\ v = BitsOfByte(c) /\ Len(u) = 1 /\ Len(v) = 8 /\ u[1] = 1
  <2>d. 1 \in Bits
      BY DEF Bits
  <2>1. << 1 >> \in Seq(Bits) /\ Len(<< 1 >>) = 1 /\ << 1 >>[1] = 1
      BY <2>d, SingleIs
  <2>2. BitsOfByte(c) \in Seq(Bits) /\ Len(BitsOfByte(c)) = 8
      BY BitsOfByteIs
  <2> QED
      BY <2>1, <2>2, Zenon
<1>2. u \o v \in Seq(Bits) /\ StandsAt(u \o v, 0, u) /\ StandsAt(u \o v, Len(u), v)
    BY StandsParts
<1>3. StandsAt(u \o v, 1, v)
    BY <1>1, <1>2, Zenon
<1>4. StandsAt(bits, x - 1, u \o v)
    BY <1>1, Zenon
<1>5. x - 1 \in Nat /\ (x - 1) + 0 = x - 1 /\ (x - 1) + 1 = x /\ (x - 1) + 0 + 1 = x /\ 1 \in 1 .. 1
    OBVIOUS
<1>6. StandsAt(bits, (x - 1) + 0, u)
    BY <1>2, <1>4, <1>5, StandsWithin
<1>7. bits[x] = 1
    BY <1>1, <1>5, <1>6, Zenon DEF StandsAt
<1>8. StandsAt(bits, (x - 1) + 1, v)
    BY <1>2, <1>3, <1>4, <1>5, StandsWithin
<1>9. StandsAt(bits, x, v)
    BY <1>5, <1>8, Zenon
<1>10. SubSeq(bits, x + 1, x + 8) = v
  <2>1. SubSeq(bits, x + 1, x + Len(v)) = v
      BY <1>9, StandsIs
  <2> QED
      BY <1>1, <2>1, Zenon
<1>11. BytesOf(v)[1] = c
  <2>1. StandsAt(v, 0, v)
    <3>1. \A i \in 1 .. 8 : 0 + i = i
        OBVIOUS
    <3>2. 0 + 8 <= 8
        OBVIOUS
    <3> QED
        BY <1>1, <3>1, <3>2, Zenon DEF StandsAt
  <2>2. 1 \in Nat \ {0} /\ 8 * 1 - 8 = 0
      OBVIOUS
  <2>3. StandsAt(v, 8 * 1 - 8, BitsOfByte(c))
      BY <1>1, <2>1, <2>2, Zenon
  <2> QED
      BY <2>2, <2>3, ByteComesBack
<1> QED
    BY <1>7, <1>10, <1>11, Zenon

LEMMA ReadTreeIs ==
    ASSUME NEW tree, NEW L, NEW d, NEW N, TreeIs(tree, L, d, N),
           NEW pre, PreorderIs(pre, tree, N), NEW node, NodesAre(node, tree, N), Len(node[N]) = N,
           NEW bits \in Seq(Bits), StandsAt(bits, 48, pre[N])
    PROVE  ReadsAs(ReadTree(bits, d), tree, d, N, node) /\ ReadTree(bits, d).end = 49 + Len(pre[N])
<1>1. d \in 2 .. 256 /\ N = 2 * d - 1
    BY DEF TreeIs
<1>2. d \in Nat /\ N \in Nat /\ N \in 1 .. N
    BY TreeFacts
<1> DEFINE pos0 == CHOOSE f : f = [k \in 1 .. 2 * d |->
                       IF k = 1 THEN 6 * 8 + 1
                       ELSE f[k - 1] + (IF bits[f[k - 1]] = 1 THEN 9 ELSE 1)]
           leaf0 == [k \in 1 .. 2 * d - 1 |-> bits[pos0[k]] = 1]
           next0 == CHOOSE f : f = [k \in 1 .. 2 * d - 1 |-> IF leaf0[k] THEN k + 1 ELSE f[f[k + 1]]]
           right0 == [k \in 1 .. 2 * d - 1 |-> IF leaf0[k] THEN 0 ELSE next0[k + 1]]
           val0 == [k \in 1 .. 2 * d - 1 |->
                      IF leaf0[k] THEN BytesOf(SubSeq(bits, pos0[k] + 1, pos0[k] + 8))[1] ELSE -1]
<1>r. ReadTree(bits, d) = [leaf |-> leaf0, left |-> [k \in 1 .. 2 * d - 1 |-> k + 1],
                           right |-> right0, val |-> val0, end |-> pos0[2 * d]]
    BY DEF ReadTree
<1>3. PICK pos : pos = pos0
    OBVIOUS
<1>4. PosEq(pos, bits, d)
  <2>1. PICK ff : PosEq(ff, bits, d)
      BY <1>1, PositionsExist, Zenon
  <2>2. \E f : f = [k \in 1 .. 2 * d |->
                       IF k = 1 THEN 6 * 8 + 1
                       ELSE f[k - 1] + (IF bits[f[k - 1]] = 1 THEN 9 ELSE 1)]
      BY <2>1, Zenon DEF PosEq
  <2> QED
      BY <1>3, <2>2, Zenon DEF PosEq
<1>5. PosIs(pos, bits, d)
    BY <1>1, <1>4, PositionsAre
<1>6. Decoded(bits, pos, pre, node, 1, N)
  <2>1. 1 \in 1 .. 2 * d /\ 1 + N <= 2 * d /\ 49 - 1 = 48
      BY <1>1
  <2>2. NodeAt(bits, pos, pre, 1, N)
    <3>1. pos[1] = 49
        BY <1>5, Zenon DEF PosIs
    <3>2. StandsAt(bits, pos[1] - 1, pre[N])
        BY <2>1, <3>1, Zenon
    <3> QED
        BY <3>2, Zenon DEF NodeAt
  <2> QED
      BY <1>2, <1>5, <2>1, <2>2, DecodesAll
<1>7. pos[2 * d] = 49 + Len(pre[N])
  <2>1. 1 + N = 2 * d
      BY <1>1
  <2> QED
      BY <1>5, <1>6, <2>1, Zenon DEF Decoded, PosIs
<1>8. PICK s \in Seq(1 .. N) : s = node[N] /\ Len(s) = N
    BY <1>2 DEF NodesAre
<1>9. ASSUME NEW k \in 1 .. N
      PROVE  /\ bits[pos[k]] = 1 <=> s[k] <= d
             /\ bits[pos[k]] = 1 => BytesOf(SubSeq(bits, pos[k] + 1, pos[k] + 8))[1] = tree.dict[s[k]]
  <2>1. PICK n \in 1 .. N : n = s[k]
      BY <1>8, SeqElement
  <2>2. PICK x \in Nat \ {0} : x = pos[k]
    <3>1. k \in 1 .. 2 * d
        BY <1>1
    <3> QED
        BY <1>5, <3>1 DEF PosIs
  <2>3. StandsAt(bits, x - 1, pre[n])
    <3>1. 1 + k - 1 = k
        OBVIOUS
    <3>2. NodeAt(bits, pos, pre, 1 + k - 1, s[k])
        BY <1>6, <1>8, Zenon DEF Decoded
    <3> QED
        BY <2>1, <2>2, <3>1, <3>2, Zenon DEF NodeAt
  <2>4. CASE n <= d
    <3>1. tree.sons[n] = << >> /\ n \in 1 .. d
      <4>1. n \in 1 .. d
          BY <1>2, <2>4
      <4> QED
          BY <2>4, <4>1, TreeFacts, Zenon
    <3>2. PICK c \in Bytes : c = tree.dict[n]
        BY <3>1, TreeFacts
    <3>3. StandsAt(bits, x - 1, << 1 >> \o BitsOfByte(c))
        BY <2>3, <3>1, <3>2, Zenon DEF PreorderIs
    <3>4. bits[x] = 1 /\ BytesOf(SubSeq(bits, x + 1, x + 8))[1] = c
        BY <3>3, LeafRead
    <3> QED
        BY <2>1, <2>2, <2>4, <3>2, <3>4, Zenon
  <2>5. CASE ~ (n <= d)
    <3>1. tree.sons[n] # << >>
        BY <2>5, TreeFacts
    <3>2. PICK a \in 1 .. N, b \in 1 .. N : a = tree.sons[n][1] /\ b = tree.sons[n][2]
        BY <3>1, TreeFacts
    <3>3. PICK v \in Seq(Bits), w \in Seq(Bits) : v = pre[a] /\ w = pre[b]
        BY DEF PreorderIs
    <3>4. PICK e \in Nat, f \in Nat : e = Len(v) /\ f = Len(w)
        BY SeqIsFunction
    <3>5. PICK t : t = pre[n] /\ t = << 0 >> \o v \o w
        BY <3>1, <3>2, <3>3, Zenon DEF PreorderIs
    <3>6. Under(t, 0, v, w, e, f)
      <4>1. 0 \in Bits
          BY DEF Bits
      <4> QED
          BY <3>4, <3>5, <4>1, StandsUnder, Zenon
    <3>7. bits[x] = 0
      <4>1. 1 \in 1 .. 1 + e + f /\ (x - 1) + 1 = x
          OBVIOUS
      <4>2. bits[(x - 1) + 1] = t[1] /\ t[1] = 0
          BY <2>3, <3>5, <3>6, <4>1, Zenon DEF StandsAt, Under
      <4> QED
          BY <4>1, <4>2, Zenon
    <3>8. 0 # 1
        OBVIOUS
    <3> QED
        BY <2>1, <2>2, <2>5, <3>7, <3>8, Zenon
  <2> QED
      BY <2>4, <2>5
<1>10. PICK leaf : leaf = leaf0
    OBVIOUS
<1>l. \A k \in 1 .. N : leaf[k] = (bits[pos[k]] = 1)
    BY <1>1, <1>3, <1>10, Zenon
<1>11. \A k \in 1 .. N : leaf[k] <=> node[N][k] <= d
    BY <1>8, <1>9, <1>l, Zenon
<1>e. LeafIs(leaf, node, d, N)
    BY <1>11, Zenon DEF LeafIs
<1>12. PICK next : next = next0
    OBVIOUS
<1>13. NextEq(next, leaf, N)
  <2>1. PICK f : NextEq(f, leaf, N)
      BY <1>8, <1>e, NextExists, Zenon
  <2>2. NextEq(f, leaf0, 2 * d - 1)
      BY <1>1, <1>10, <2>1, Zenon
  <2>3. f = [k \in 1 .. 2 * d - 1 |-> IF leaf0[k] THEN k + 1 ELSE f[f[k + 1]]]
      BY <2>2, Zenon DEF NextEq
  <2>4. next = [k \in 1 .. 2 * d - 1 |-> IF leaf0[k] THEN k + 1 ELSE next[next[k + 1]]]
    <3> HIDE DEF leaf0
    <3> QED
        BY <1>12, <2>3, Zenon
  <2>5. NextEq(next, leaf0, 2 * d - 1)
    <3> HIDE DEF leaf0
    <3> QED
        BY <2>4, Zenon DEF NextEq
  <2> QED
      BY <1>1, <1>10, <2>5, Zenon
<1>14. \A k \in 1 .. N : next[k] = k + Len(node[node[N][k]])
  <2>1. EndsAt(next, node, N)
      BY <1>e, <1>13, NextIs, Zenon
  <2> QED
      BY <2>1, Zenon DEF EndsAt
<1>15. PICK t : t = ReadTree(bits, d)
    OBVIOUS
<1>16. t.leaf = leaf /\ t.left = [k \in 1 .. 2 * d - 1 |-> k + 1] /\ t.right = right0 /\ t.val = val0 /\ t.end = pos[2 * d]
  <2> HIDE DEF pos0, leaf0, right0, val0
  <2> QED
      BY <1>r, <1>3, <1>10, <1>15
<1>v. \A k \in 1 .. N : /\ t.left[k] = k + 1
                        /\ t.right[k] = IF leaf[k] THEN 0 ELSE next[k + 1]
                        /\ t.val[k] = IF leaf[k] THEN BytesOf(SubSeq(bits, pos[k] + 1, pos[k] + 8))[1] ELSE -1
  <2> HIDE DEF pos0, leaf0, next0
  <2> QED
      BY <1>1, <1>3, <1>10, <1>12, <1>16, ZenonT(60)
<1>17. DOMAIN t.leaf = 1 .. N
    BY <1>1, <1>10, <1>16, ZenonT(60)
<1>18. ASSUME NEW k \in 1 .. N, t.leaf[k] PROVE t.val[k] = tree.dict[node[N][k]]
  <2>1. bits[pos[k]] = 1 /\ leaf[k]
      BY <1>l, <1>16, <1>18, Zenon
  <2>2. t.val[k] = BytesOf(SubSeq(bits, pos[k] + 1, pos[k] + 8))[1]
      BY <1>v, <2>1, Zenon
  <2> QED
      BY <1>8, <1>9, <2>1, <2>2, Zenon
<1>19. ASSUME NEW k \in 1 .. N, ~ t.leaf[k]
       PROVE  \E n \in 1 .. N, a \in 1 .. N, b \in 1 .. N :
                 SonsAre(node, tree, N, k, n, a, b, t.left[k], t.right[k])
  <2>1. node[N][k] > d
    <3>1. s[k] \in 1 .. N /\ \A i \in 1 .. N : i <= d \/ i > d
        BY <1>2, <1>8, SeqElement, SMTT(30)
    <3> QED
        BY <1>8, <1>11, <1>16, <1>19, <3>1, Zenon
  <2>2. PICK n \in 1 .. N, a \in 1 .. N, b \in 1 .. N, q \in 1 .. N, r \in 1 .. N :
           SonsAre(node, tree, N, k, n, a, b, q, r)
      BY <1>8, <2>1, SonsFollow
  <2>3. t.left[k] = q
      BY <1>v, <2>2, Zenon DEF SonsAre
  <2>4. t.right[k] = r
    <3>1. q = k + 1 /\ r = k + 1 + Len(node[a]) /\ node[N][q] = a
        BY <2>2, Zenon DEF SonsAre
    <3>2. next[q] = q + Len(node[a])
        BY <1>14, <3>1, Zenon
    <3>3. t.right[k] = next[k + 1]
        BY <1>v, <1>16, <1>19, Zenon
    <3> QED
        BY <3>1, <3>2, <3>3, Zenon
  <2> QED
      BY <2>2, <2>3, <2>4, Zenon
<1>20. ReadsAs(t, tree, d, N, node)
    BY <1>11, <1>16, <1>17, <1>18, <1>19, Zenon DEF ReadsAs
<1> QED
    BY <1>7, <1>15, <1>16, <1>20, Zenon

-----------------------------------------------------------------------------
(* The content that is read back. *)

WalkEq(walk, t, bits, last) ==
    walk = [p \in t.end .. last + 1 |->
              [n \in DOMAIN t.leaf |->
                 IF t.leaf[n] \/ p > last THEN <<n, p>>
                 ELSE walk[p + 1][IF bits[p] = 1 THEN t.left[n] ELSE t.right[n]]]]

FromEq(from, walk, t, last) ==
    from = [p \in t.end .. last + 1 |->
              IF t.leaf[walk[p][1][1]] THEN <<t.val[walk[p][1][1]]>> \o from[walk[p][1][2]] ELSE << >>]

\* What the decoding of the content needs of the tree.
ReadableTree(t, N, e, last) ==
    /\ e \in Nat \ {0} /\ last \in Nat /\ e <= last + 1 /\ 1 \in 1 .. N
    /\ t.end = e /\ DOMAIN t.leaf = 1 .. N /\ ~ t.leaf[1]
    /\ \A k \in 1 .. N : t.leaf[k] => t.val[k] \in Bytes
    /\ \A k \in 1 .. N : ~ t.leaf[k] => t.left[k] \in 1 .. N /\ t.right[k] \in 1 .. N

LEMMA WalkExists ==
    ASSUME NEW t, NEW N, NEW e, NEW last, ReadableTree(t, N, e, last), NEW bits
    PROVE  \E walk : WalkEq(walk, t, bits, last)
<1>1. PICK M \in Nat : M = last + 1 - e
  <2>1. last + 1 - e \in Nat
      BY DEF ReadableTree
  <2> QED
      BY <2>1
<1>2. PICK A : A = [1 .. N -> (1 .. N) \X Nat]
    OBVIOUS
<1>3. PICK base : base = [n \in 1 .. N |-> <<n, last + 1>>]
    OBVIOUS
<1>4. base \in A
  <2>1. last + 1 \in Nat
      BY DEF ReadableTree
  <2>2. \A n \in 1 .. N : <<n, last + 1>> \in (1 .. N) \X Nat
      BY <2>1
  <2> QED
      BY <1>2, <1>3, <2>2, Zenon
<1>5. PICK step : step = [x \in (1 .. M) \X A |-> [n \in 1 .. N |->
                    IF t.leaf[n] THEN <<n, last + 1 - x[1]>>
                    ELSE x[2][IF bits[last + 1 - x[1]] = 1 THEN t.left[n] ELSE t.right[n]]]]
    OBVIOUS
<1>6. step \in [(1 .. M) \X A -> A]
  <2> DEFINE At1(x, n) == IF t.leaf[n] THEN <<n, last + 1 - x[1]>>
                          ELSE x[2][IF bits[last + 1 - x[1]] = 1 THEN t.left[n] ELSE t.right[n]]
  <2> SUFFICES ASSUME NEW x \in (1 .. M) \X A PROVE [n \in 1 .. N |-> At1(x, n)] \in A
    <3> HIDE DEF At1
    <3>1. step = [x \in (1 .. M) \X A |-> [n \in 1 .. N |-> At1(x, n)]]
        BY <1>5, Zenon DEF At1
    <3> QED
        BY <3>1, Zenon
  <2> SUFFICES ASSUME NEW n \in 1 .. N PROVE At1(x, n) \in (1 .. N) \X Nat
      BY <1>2, Zenon
  <2>1. PICK i \in 1 .. M, g \in A : i = x[1] /\ g = x[2]
      OBVIOUS
  <2>2. last + 1 - i \in Nat
    <3>1. e \in Nat /\ last \in Nat
        BY DEF ReadableTree
    <3> QED
        BY <1>1, <3>1
  <2>3. <<n, last + 1 - i>> \in (1 .. N) \X Nat
      BY <2>2
  <2>4. CASE t.leaf[n]
      BY <2>1, <2>3, <2>4, Zenon
  <2>5. CASE ~ t.leaf[n]
    <3>1. PICK m \in 1 .. N : m = IF bits[last + 1 - i] = 1 THEN t.left[n] ELSE t.right[n]
        BY <2>5, Zenon DEF ReadableTree
    <3>2. g[m] \in (1 .. N) \X Nat
        BY <1>2, <3>1, Zenon
    <3> QED
        BY <2>1, <2>5, <3>1, <3>2, Zenon
  <2> QED
      BY <2>4, <2>5
<1>7. PICK f \in [0 .. M -> A] : Follows(f, M, base, step)
    BY <1>4, <1>6, RecursionExists
<1>8. PICK walk : walk = [p \in e .. last + 1 |-> f[last + 1 - p]]
    OBVIOUS
<1>9. ASSUME NEW p \in e .. last + 1
      PROVE  walk[p] = [n \in 1 .. N |->
                 IF t.leaf[n] \/ p > last THEN <<n, p>>
                 ELSE walk[p + 1][IF bits[p] = 1 THEN t.left[n] ELSE t.right[n]]]
  <2>0. e \in Nat /\ last \in Nat
      BY DEF ReadableTree
  <2>1. CASE p = last + 1
    <3>1. p > last /\ last + 1 - p = 0
        BY <2>0, <2>1
    <3>2. walk[p] = base
        BY <1>7, <1>8, <3>1, Zenon DEF Follows
    <3> QED
        BY <1>3, <2>1, <3>1, <3>2, Zenon
  <2>2. CASE p # last + 1
    <3>1. PICK i \in 1 .. M : i = last + 1 - p /\ last + 1 - i = p /\ i - 1 = last + 1 - (p + 1)
      <4>1. /\ last + 1 - p \in 1 .. M /\ last + 1 - (last + 1 - p) = p
            /\ (last + 1 - p) - 1 = last + 1 - (p + 1)
          BY <1>1, <2>0, <2>2
      <4> QED
          BY <4>1
    <3>2. ~ (p > last) /\ p + 1 \in e .. last + 1 /\ i - 1 \in 0 .. M
        BY <2>0, <2>2, <3>1
    <3>3. PICK g \in A : g = f[i - 1]
        BY <1>7, <3>2
    <3>4. walk[p + 1] = g
        BY <1>8, <3>1, <3>2, <3>3, Zenon
    <3>5. walk[p] = step[<<i, g>>]
        BY <1>7, <1>8, <3>1, <3>3, Zenon DEF Follows
    <3>6. step[<<i, g>>] = [n \in 1 .. N |->
                    IF t.leaf[n] THEN <<n, last + 1 - i>>
                    ELSE g[IF bits[last + 1 - i] = 1 THEN t.left[n] ELSE t.right[n]]]
      <4>1. <<i, g>> \in (1 .. M) \X A /\ <<i, g>>[1] = i /\ <<i, g>>[2] = g
          OBVIOUS
      <4>2. PICK x : x = <<i, g>>
          OBVIOUS
      <4>3. step[x] = [n \in 1 .. N |->
                    IF t.leaf[n] THEN <<n, last + 1 - x[1]>>
                    ELSE x[2][IF bits[last + 1 - x[1]] = 1 THEN t.left[n] ELSE t.right[n]]]
          BY <1>5, <4>1, <4>2, Zenon
      <4>4. \A n \in 1 .. N : step[x][n] = IF t.leaf[n] THEN <<n, last + 1 - i>>
                    ELSE g[IF bits[last + 1 - i] = 1 THEN t.left[n] ELSE t.right[n]]
        <5> SUFFICES ASSUME NEW n \in 1 .. N
                     PROVE  step[x][n] = IF t.leaf[n] THEN <<n, last + 1 - i>>
                               ELSE g[IF bits[last + 1 - i] = 1 THEN t.left[n] ELSE t.right[n]]
            BY Zenon
        <5>1. x[1] = i /\ x[2] = g
            BY <4>1, <4>2, Zenon
        <5>2. step[x][n] = IF t.leaf[n] THEN <<n, last + 1 - x[1]>>
                    ELSE x[2][IF bits[last + 1 - x[1]] = 1 THEN t.left[n] ELSE t.right[n]]
            BY <4>3, Zenon
        <5> QED
            BY <5>1, <5>2
      <4>5. step[x] = [n \in 1 .. N |-> step[x][n]]
          BY <4>3, Zenon
      <4> QED
          BY <4>2, <4>4, <4>5, Zenon
    <3> QED
        BY <3>1, <3>2, <3>4, <3>5, <3>6, Zenon
  <2> QED
      BY <2>1, <2>2
<1>10. WalkEq(walk, t, bits, last)
  <2>1. walk = [p \in e .. last + 1 |-> walk[p]]
      BY <1>8, Zenon
  <2>2. t.end = e /\ DOMAIN t.leaf = 1 .. N
      BY DEF ReadableTree
  <2>3. walk = [p \in e .. last + 1 |-> [n \in 1 .. N |->
                 IF t.leaf[n] \/ p > last THEN <<n, p>>
                 ELSE walk[p + 1][IF bits[p] = 1 THEN t.left[n] ELSE t.right[n]]]]
      BY <1>9, <2>1, Zenon
  <2>4. walk = [p \in t.end .. last + 1 |-> [n \in DOMAIN t.leaf |->
                 IF t.leaf[n] \/ p > last THEN <<n, p>>
                 ELSE walk[p + 1][IF bits[p] = 1 THEN t.left[n] ELSE t.right[n]]]]
      BY <2>2, <2>3
  <2> QED
      BY <2>4 DEF WalkEq
<1> QED
    BY <1>10

\* A walk goes forward and ends within the stream.
Ahead(w, t, n, p, N, last) ==
    \E m \in 1 .. N, q \in p .. last + 1 :
       w = <<m, q>> /\ (t.leaf[m] /\ ~ t.leaf[n] => q \in p + 1 .. last + 1)

WalkSteps(walk, t, bits, N, e, last) ==
    \A p \in e .. last + 1, n \in 1 .. N :
       walk[p][n] = IF t.leaf[n] \/ p > last THEN <<n, p>>
                    ELSE walk[p + 1][IF bits[p] = 1 THEN t.left[n] ELSE t.right[n]]

LEMMA WalkStep ==
    ASSUME NEW t, NEW N, NEW e, NEW last, ReadableTree(t, N, e, last), NEW bits,
           NEW walk, WalkEq(walk, t, bits, last)
    PROVE  WalkSteps(walk, t, bits, N, e, last)
<1> SUFFICES ASSUME NEW p \in e .. last + 1, NEW n \in 1 .. N
             PROVE  walk[p][n] = IF t.leaf[n] \/ p > last THEN <<n, p>>
                           ELSE walk[p + 1][IF bits[p] = 1 THEN t.left[n] ELSE t.right[n]]
    BY Zenon DEF WalkSteps
<1>1. p \in t.end .. last + 1 /\ n \in DOMAIN t.leaf
    BY Zenon DEF ReadableTree
<1>2. walk[p] = [k \in DOMAIN t.leaf |->
                 IF t.leaf[k] \/ p > last THEN <<k, p>>
                 ELSE walk[p + 1][IF bits[p] = 1 THEN t.left[k] ELSE t.right[k]]]
    BY <1>1, Zenon DEF WalkEq
<1> QED
    BY <1>1, <1>2, Zenon

LEMMA WalkAhead ==
    ASSUME NEW t, NEW N, NEW e, NEW last, ReadableTree(t, N, e, last), NEW bits,
           NEW walk, WalkEq(walk, t, bits, last)
    PROVE  \A p \in e .. last + 1, n \in 1 .. N : Ahead(walk[p][n], t, n, p, N, last)
<1>0. e \in Nat \ {0} /\ last \in Nat
    BY DEF ReadableTree
<1>w. WalkSteps(walk, t, bits, N, e, last)
    BY WalkStep, Zenon
<1> DEFINE Fine(p) == \A n \in 1 .. N : Ahead(walk[p][n], t, n, p, N, last)
           T == {i \in Nat : last + 1 - i \in e .. last + 1 => Fine(last + 1 - i)}
<1>1. 0 \in T
  <2>1. last + 1 - 0 = last + 1 /\ last + 1 > last /\ last + 1 \in last + 1 .. last + 1
      BY <1>0
  <2> SUFFICES ASSUME last + 1 \in e .. last + 1, NEW n \in 1 .. N
               PROVE  Ahead(walk[last + 1][n], t, n, last + 1, N, last)
      BY <2>1, Zenon
  <2>2. walk[last + 1][n] = <<n, last + 1>>
      BY <2>1, <1>w, Zenon DEF WalkSteps
  <2> QED
      BY <2>1, <2>2, Zenon DEF Ahead
<1>2. ASSUME NEW i \in Nat, i \in T PROVE i + 1 \in T
  <2> SUFFICES ASSUME last + 1 - (i + 1) \in e .. last + 1 PROVE Fine(last + 1 - (i + 1))
    <3>1. i + 1 \in Nat
        OBVIOUS
    <3> QED
        BY <3>1, Zenon
  <2>1. PICK p \in e .. last + 1 :
           /\ p = last + 1 - (i + 1) /\ ~ (p > last) /\ p + 1 = last + 1 - i
           /\ p + 1 \in e .. last + 1 /\ p \in p .. last + 1
    <3>1. PICK p \in e .. last + 1 : p = last + 1 - (i + 1)
        OBVIOUS
    <3>2. ~ (p > last) /\ p + 1 = last + 1 - i /\ p + 1 \in e .. last + 1 /\ p \in p .. last + 1
        BY <1>0, <3>1
    <3> QED
        BY <3>1, <3>2
  <2>2. Fine(p + 1)
      BY <1>2, <2>1, Zenon
  <2>3. ASSUME NEW n \in 1 .. N PROVE Ahead(walk[p][n], t, n, p, N, last)
    <3>1. CASE t.leaf[n]
      <4>1. walk[p][n] = <<n, p>>
          BY <2>1, <3>1, <1>w, Zenon DEF WalkSteps
      <4> QED
          BY <2>1, <3>1, <4>1, Zenon DEF Ahead
    <3>2. CASE ~ t.leaf[n]
      <4>1. PICK k \in 1 .. N : k = IF bits[p] = 1 THEN t.left[n] ELSE t.right[n]
          BY <3>2, Zenon DEF ReadableTree
      <4>2. walk[p][n] = walk[p + 1][k]
          BY <2>1, <3>2, <4>1, <1>w, Zenon DEF WalkSteps
      <4>3. PICK m \in 1 .. N, q \in p + 1 .. last + 1 : walk[p + 1][k] = <<m, q>>
          BY <2>2, Zenon DEF Ahead
      <4>4. q \in p .. last + 1
          BY <1>0
      <4> QED
          BY <4>2, <4>3, <4>4, Zenon DEF Ahead
    <3> QED
        BY <3>1, <3>2
  <2> QED
      BY <2>1, <2>3, Zenon
<1> HIDE DEF T
<1>3. Nat \subseteq T
    BY <1>1, <1>2, SetInduction
<1> SUFFICES ASSUME NEW p \in e .. last + 1 PROVE Fine(p)
    BY Zenon
<1>4. PICK i \in Nat : p = last + 1 - i
  <2>1. last + 1 - p \in Nat /\ p = last + 1 - (last + 1 - p)
      BY <1>0
  <2> QED
      BY <2>1
<1>5. i \in T
    BY <1>3
<1> QED
    BY <1>4, <1>5, Zenon DEF T

LEMMA FromExists ==
    ASSUME NEW t, NEW N, NEW e, NEW last, ReadableTree(t, N, e, last), NEW bits,
           NEW walk, WalkEq(walk, t, bits, last)
    PROVE  \E from : FromEq(from, walk, t, last)
<1>0. e \in Nat \ {0} /\ last \in Nat /\ 1 \in 1 .. N /\ ~ t.leaf[1] /\ t.end = e
    BY DEF ReadableTree
<1>1. PICK M \in Nat : M = last + 2 - e
  <2>1. e <= last + 1
      BY DEF ReadableTree
  <2>2. last + 2 - e \in Nat
      BY <1>0, <2>1
  <2> QED
      BY <2>2
<1>2. PICK sons : sons = [j \in 1 .. M |->
         IF t.leaf[walk[last + 2 - j][1][1]]
         THEN <<last + 2 - walk[last + 2 - j][1][2], last + 2 - walk[last + 2 - j][1][2]>>
         ELSE << >>]
    OBVIOUS
<1>3. PICK D : D = Seq(Bytes)
    OBVIOUS
<1>4. ASSUME NEW j \in 1 .. M
      PROVE  \E p \in e .. last + 1 : p = last + 2 - j /\ Ahead(walk[p][1], t, 1, p, N, last)
  <2>1. PICK p \in e .. last + 1 : p = last + 2 - j
    <3>1. last + 2 - j \in e .. last + 1
        BY <1>0, <1>1
    <3> QED
        BY <3>1
  <2>2. Ahead(walk[p][1], t, 1, p, N, last)
      BY <1>0, WalkAhead, Zenon
  <2> QED
      BY <2>1, <2>2
<1>5. Ordered(sons, M)
  <2> SUFFICES ASSUME NEW j \in 1 .. M, sons[j] # << >>
               PROVE  sons[j][1] \in 1 .. j - 1 /\ sons[j][2] \in 1 .. j - 1
      BY DEF Ordered
  <2>p. PICK p \in e .. last + 1 : p = last + 2 - j /\ Ahead(walk[p][1], t, 1, p, N, last)
      BY <1>4, Zenon
  <2>1. PICK m \in 1 .. N, q \in p .. last + 1 :
                /\ p = last + 2 - j /\ walk[p][1] = <<m, q>>
                /\ t.leaf[m] => q \in p + 1 .. last + 1
      BY <1>0, <2>p, Zenon DEF Ahead
  <2>2. <<m, q>>[1] = m /\ <<m, q>>[2] = q
      OBVIOUS
  <2>3. sons[j] = IF t.leaf[m] THEN <<last + 2 - q, last + 2 - q>> ELSE << >>
      BY <1>2, <2>1, <2>2, Zenon
  <2>4. q \in p + 1 .. last + 1 /\ sons[j] = <<last + 2 - q, last + 2 - q>>
      BY <2>1, <2>3, Zenon
  <2>5. last + 2 - q \in 1 .. j - 1
      BY <1>0, <2>1, <2>4
  <2> QED
      BY <2>4, <2>5
<1>6. PICK leaf : leaf = [j \in 1 .. M |-> << >>]
    OBVIOUS
<1>7. leaf \in [1 .. M -> D]
  <2>1. << >> \in D
      BY <1>3
  <2> QED
      BY <1>6, <2>1, Zenon
<1>8. PICK join : join = [x \in (1 .. M) \X D \X D |->
         IF t.leaf[walk[last + 2 - x[1]][1][1]]
         THEN <<t.val[walk[last + 2 - x[1]][1][1]]>> \o x[2] ELSE << >>]
    OBVIOUS
<1>9. join \in [(1 .. M) \X D \X D -> D]
  <2> SUFFICES ASSUME NEW x \in (1 .. M) \X D \X D
               PROVE  (IF t.leaf[walk[last + 2 - x[1]][1][1]]
                       THEN <<t.val[walk[last + 2 - x[1]][1][1]]>> \o x[2] ELSE << >>) \in D
      BY <1>8, Zenon
  <2>1. PICK j \in 1 .. M, s \in D : j = x[1] /\ s = x[2]
      OBVIOUS
  <2>p. PICK p \in e .. last + 1 : p = last + 2 - j /\ Ahead(walk[p][1], t, 1, p, N, last)
      BY <1>4, Zenon
  <2>2. PICK m \in 1 .. N, q \in p .. last + 1 : p = last + 2 - j /\ walk[p][1] = <<m, q>>
      BY <2>p, Zenon DEF Ahead
  <2>3. <<m, q>>[1] = m
      OBVIOUS
  <2>4. << >> \in D /\ (t.leaf[m] => <<t.val[m]>> \o s \in D)
    <3>1. ASSUME t.leaf[m] PROVE <<t.val[m]>> \o s \in D
      <4>1. t.val[m] \in Bytes
          BY <3>1 DEF ReadableTree
      <4>2. <<t.val[m]>> \in Seq(Bytes)
          BY <4>1, SingleIs
      <4>3. s \in Seq(Bytes)
          BY <1>3
      <4> QED
          BY <1>3, <4>2, <4>3, ConcatType
    <3>2. << >> \in D
        BY <1>3
    <3> QED
        BY <3>1, <3>2
  <2> QED
      BY <2>1, <2>2, <2>3, <2>4, Zenon
<1>10. PICK f \in [1 .. M -> D] : Grown(f, M, sons, leaf, join)
    BY <1>5, <1>7, <1>9, TreeRecursion
<1>11. PICK from : from = [p \in e .. last + 1 |-> f[last + 2 - p]]
    OBVIOUS
<1>12. ASSUME NEW p \in e .. last + 1
       PROVE  from[p] = IF t.leaf[walk[p][1][1]]
                        THEN <<t.val[walk[p][1][1]]>> \o from[walk[p][1][2]] ELSE << >>
  <2>1. PICK j \in 1 .. M : j = last + 2 - p /\ p = last + 2 - j
    <3>1. last + 2 - p \in 1 .. M /\ p = last + 2 - (last + 2 - p)
        BY <1>0, <1>1
    <3> QED
        BY <3>1
  <2>2. PICK m \in 1 .. N, q \in p .. last + 1 :
                walk[p][1] = <<m, q>> /\ (t.leaf[m] => q \in p + 1 .. last + 1)
    <3>1. Ahead(walk[p][1], t, 1, p, N, last)
        BY <1>0, WalkAhead, Zenon
    <3> QED
        BY <1>0, <3>1, Zenon DEF Ahead
  <2>3. <<m, q>>[1] = m /\ <<m, q>>[2] = q
      OBVIOUS
  <2>4. from[p] = f[j]
      BY <1>11, <2>1, Zenon
  <2>5. f[j] = IF sons[j] = << >> THEN leaf[j] ELSE join[<<j, f[sons[j][1]], f[sons[j][2]]>>]
      BY <1>10, Zenon DEF Grown
  <2>6. CASE ~ t.leaf[m]
    <3>1. sons[j] = << >>
        BY <1>2, <2>1, <2>2, <2>3, <2>6, Zenon
    <3> QED
        BY <1>6, <2>2, <2>3, <2>4, <2>5, <2>6, <3>1, Zenon
  <2>7. CASE t.leaf[m]
    <3>1. sons[j] = <<last + 2 - q, last + 2 - q>>
        BY <1>2, <2>1, <2>2, <2>3, <2>7, Zenon
    <3>2. sons[j] # << >> /\ sons[j][1] = last + 2 - q /\ sons[j][2] = last + 2 - q
        BY <3>1
    <3>3. PICK k \in 1 .. M : k = last + 2 - q /\ q \in e .. last + 1
      <4>1. q \in p + 1 .. last + 1
          BY <2>2, <2>7
      <4>2. last + 2 - q \in 1 .. M /\ q \in e .. last + 1
          BY <1>0, <1>1, <4>1
      <4> QED
          BY <4>2
    <3>4. PICK s \in D : s = f[k]
        BY <1>10
    <3>5. from[q] = s
        BY <1>11, <3>3, <3>4, Zenon
    <3>6. join[<<j, s, s>>] = <<t.val[m]>> \o s
      <4>1. PICK x \in (1 .. M) \X D \X D : x = <<j, s, s>> /\ x[1] = j /\ x[2] = s
        <5>1. <<j, s, s>> \in (1 .. M) \X D \X D /\ <<j, s, s>>[1] = j /\ <<j, s, s>>[2] = s
            OBVIOUS
        <5> QED
            BY <5>1, Zenon
      <4>2. join[x] = IF t.leaf[walk[last + 2 - x[1]][1][1]]
                      THEN <<t.val[walk[last + 2 - x[1]][1][1]]>> \o x[2] ELSE << >>
          BY <1>8, Zenon
      <4>3. walk[last + 2 - x[1]][1][1] = m
          BY <2>1, <2>2, <2>3, <4>1, Zenon
      <4> QED
          BY <2>7, <4>1, <4>2, <4>3, Zenon
    <3> QED
        BY <2>2, <2>3, <2>4, <2>5, <2>7, <3>2, <3>3, <3>4, <3>5, <3>6, Zenon
  <2> QED
      BY <2>6, <2>7
<1>13. FromEq(from, walk, t, last)
  <2>1. from = [p \in e .. last + 1 |-> from[p]]
      BY <1>11, Zenon
  <2>2. from = [p \in e .. last + 1 |->
              IF t.leaf[walk[p][1][1]] THEN <<t.val[walk[p][1][1]]>> \o from[walk[p][1][2]] ELSE << >>]
      BY <1>12, <2>1, Zenon
  <2> QED
      BY <1>0, <2>2, Zenon DEF FromEq
<1> QED
    BY <1>13

\* A bit, and the bits after it.
BitThen(bits, p, bit, x) ==
    /\ bits[p] = bit /\ StandsAt(bits, p, x)
    /\ Len(<<bit>> \o x) = 1 + Len(x) /\ Len(x) \in Nat

LEMMA BitFirst ==
    ASSUME NEW bits \in Seq(Bits), NEW p \in Nat \ {0}, NEW bit \in Bits, NEW x \in Seq(Bits),
           StandsAt(bits, p - 1, <<bit>> \o x)
    PROVE  BitThen(bits, p, bit, x)
<1>1. PICK u \in Seq(Bits) : u = <<bit>> /\ Len(u) = 1 /\ u[1] = bit
  <2>1. <<bit>> \in Seq(Bits) /\ Len(<<bit>>) = 1 /\ <<bit>>[1] = bit
      BY SingleIs
  <2> QED
      BY <2>1, Zenon
<1>2. /\ u \o x \in Seq(Bits) /\ Len(u \o x) = Len(u) + Len(x)
      /\ StandsAt(u \o x, 0, u) /\ StandsAt(u \o x, Len(u), x)
    BY StandsParts
<1>3. StandsAt(bits, p - 1, u \o x)
    BY <1>1, Zenon
<1>4. p - 1 \in Nat /\ (p - 1) + 0 = p - 1 /\ (p - 1) + 0 + 1 = p /\ (p - 1) + 1 = p /\ 1 \in 1 .. 1
    OBVIOUS
<1>5. StandsAt(bits, (p - 1) + 0, u)
    BY <1>2, <1>3, <1>4, StandsWithin
<1>6. bits[p] = bit
    BY <1>1, <1>4, <1>5, Zenon DEF StandsAt
<1>7. StandsAt(u \o x, 1, x)
    BY <1>1, <1>2, Zenon
<1>8. StandsAt(bits, (p - 1) + 1, x)
    BY <1>2, <1>3, <1>4, <1>7, StandsWithin
<1>9. StandsAt(bits, p, x)
    BY <1>4, <1>8, Zenon
<1>10. Len(x) \in Nat
    BY SeqIsFunction
<1> QED
    BY <1>1, <1>2, <1>6, <1>9, <1>10, Zenon DEF BitThen

\* The walk w has read the code of the leaf l and stands before bit q.
CodeRead(w, t, s, l, q, N) == \E m \in 1 .. N : w = <<m, q>> /\ t.leaf[m] /\ s[m] = l

Starts(bits, p, x, last) == p + Len(x) <= last + 1 /\ StandsAt(bits, p - 1, x)

LEMMA CodeWalk ==
    ASSUME NEW tree, NEW L, NEW d, NEW N, TreeIs(tree, L, d, N),
           NEW node, NodesAre(node, tree, N), Len(node[N]) = N,
           NEW code, CodesAre(code, tree, d, N),
           NEW t, ReadsAs(t, tree, d, N, node), NEW e, NEW last, ReadableTree(t, N, e, last),
           NEW bits \in Seq(Bits), NEW walk, WalkSteps(walk, t, bits, N, e, last)
    PROVE  \A n \in 1 .. N : \A c \in code[n] : \A k \in 1 .. N : \A p \in e .. last + 1 :
              node[N][k] = n /\ Starts(bits, p, c[2], last)
                 => CodeRead(walk[p][k], t, node[N], c[1], p + Len(c[2]), N)
<1>0. /\ d \in Nat /\ N \in Nat /\ Ordered(tree.sons, N) /\ e \in Nat \ {0} /\ last \in Nat
    BY TreeFacts DEF ReadableTree
<1>e. e \in Nat \ {0} /\ last \in Nat
    BY <1>0
<1>b. 0 \in Bits /\ 1 \in Bits
    BY DEF Bits
<1> DEFINE Fine(n) == \A c \in code[n] : \A k \in 1 .. N : \A p \in e .. last + 1 :
              node[N][k] = n /\ Starts(bits, p, c[2], last)
                 => CodeRead(walk[p][k], t, node[N], c[1], p + Len(c[2]), N)
           T == {n \in 1 .. N : Fine(n)}
<1>2. ASSUME NEW n \in 1 .. N, tree.sons[n] # << >> => tree.sons[n][1] \in T /\ tree.sons[n][2] \in T
      PROVE  n \in T
  <2> SUFFICES ASSUME NEW c \in code[n], NEW k \in 1 .. N, NEW p \in e .. last + 1,
                      node[N][k] = n, Starts(bits, p, c[2], last)
               PROVE  CodeRead(walk[p][k], t, node[N], c[1], p + Len(c[2]), N)
      BY Zenon
  <2>1. CASE tree.sons[n] = << >>
    <3>1. n <= d
        BY <2>1, TreeFacts
    <3>2. t.leaf[k]
        BY <3>1, Zenon DEF ReadsAs
    <3>3. c = <<n, << >>>>
        BY <2>1, Zenon DEF CodesAre
    <3>4. c[1] = n /\ p + Len(c[2]) = p
      <4>1. c[1] = n /\ c[2] = << >>
          BY <3>3
      <4>2. Len(<< >>) = 0 /\ p + 0 = p
          BY <1>e
      <4> QED
          BY <4>1, <4>2, Zenon
    <3>5. walk[p][k] = <<k, p>>
        BY <3>2, Zenon DEF WalkSteps
    <3> QED
        BY <3>2, <3>4, <3>5, Zenon DEF CodeRead
  <2>2. CASE tree.sons[n] # << >>
    <3>1. ~ (n <= d)
        BY <2>2, TreeFacts
    <3>2. ~ t.leaf[k]
        BY <3>1, Zenon DEF ReadsAs
    <3>3. PICK m \in 1 .. N, a \in 1 .. N, b \in 1 .. N :
             SonsAre(node, tree, N, k, m, a, b, t.left[k], t.right[k])
        BY <3>2, Zenon DEF ReadsAs
    <3>4. /\ a = tree.sons[n][1] /\ b = tree.sons[n][2]
          /\ node[N][t.left[k]] = a /\ node[N][t.right[k]] = b
        BY <3>3, Zenon DEF SonsAre
    <3>5. t.left[k] \in 1 .. N /\ t.right[k] \in 1 .. N
        BY <3>2, Zenon DEF ReadableTree
    <3>6. Fine(a) /\ Fine(b)
        BY <1>2, <2>2, <3>4, Zenon
    <3>7. code[n] = {<<z[1], << 1 >> \o z[2]>> : z \in code[a]} \cup {<<z[1], << 0 >> \o z[2]>> : z \in code[b]}
        BY <2>2, <3>4, Zenon DEF CodesAre
    <3>8. \A i \in 1 .. N : \A z \in code[i] : z[2] \in Seq(Bits)
        BY DEF CodesAre
    <3>9. ASSUME NEW bit \in Bits, NEW i \in 1 .. N, NEW z \in code[i], c = <<z[1], <<bit>> \o z[2]>>,
                 Fine(i), NEW o \in 1 .. N, node[N][o] = i,
                 o = IF bit = 1 THEN t.left[k] ELSE t.right[k]
          PROVE  CodeRead(walk[p][k], t, node[N], c[1], p + Len(c[2]), N)
      <4>1. PICK x \in Seq(Bits) : x = z[2]
          BY <3>8
      <4>2. c[1] = z[1] /\ c[2] = <<bit>> \o x
          BY <3>9, <4>1
      <4>3. p \in Nat \ {0}
          BY <1>e
      <4>4. BitThen(bits, p, bit, x)
          BY <4>2, <4>3, BitFirst, Zenon DEF Starts
      <4>5. PICK l \in Nat : l = Len(x) /\ Len(c[2]) = 1 + l
          BY <4>2, <4>4, Zenon DEF BitThen
      <4>6. p + (1 + l) <= last + 1
          BY <4>5, Zenon DEF Starts
      <4>7. /\ ~ (p > last) /\ p + 1 \in e .. last + 1 /\ (p + 1) + l <= last + 1
            /\ (p + 1) - 1 = p /\ (p + 1) + l = p + (1 + l)
          BY <1>e, <4>3, <4>6
      <4>8. walk[p][k] = walk[p + 1][o]
          BY <3>2, <3>9, <4>4, <4>7, Zenon DEF WalkSteps, BitThen
      <4>9. Starts(bits, p + 1, z[2], last)
          BY <4>1, <4>4, <4>5, <4>7, Zenon DEF Starts, BitThen
      <4>10. CodeRead(walk[p + 1][o], t, node[N], z[1], (p + 1) + Len(z[2]), N)
          BY <3>9, <4>7, <4>9, Zenon
      <4> QED
          BY <4>1, <4>2, <4>5, <4>7, <4>8, <4>10, Zenon
    <3>10. CASE c \in {<<z[1], << 1 >> \o z[2]>> : z \in code[a]}
      <4>1. PICK z \in code[a] : c = <<z[1], << 1 >> \o z[2]>>
          BY <3>10, Zenon
      <4> QED
          BY <1>b, <3>4, <3>5, <3>6, <3>9, <4>1, Zenon
    <3>11. CASE c \in {<<z[1], << 0 >> \o z[2]>> : z \in code[b]}
      <4>1. PICK z \in code[b] : c = <<z[1], << 0 >> \o z[2]>>
          BY <3>11, Zenon
      <4>2. 0 # 1
          OBVIOUS
      <4> QED
          BY <1>b, <3>4, <3>5, <3>6, <3>9, <4>1, <4>2, Zenon
    <3> QED
        BY <3>7, <3>10, <3>11
  <2> QED
      BY <2>1, <2>2
<1> HIDE DEF T
<1>3. \A n \in 1 .. N : n \in T
    BY <1>0, <1>2, TreeInduction
<1> QED
    BY <1>3 DEF T

LEMMA RestStep ==
    ASSUME NEW S, NEW s \in Seq(S), NEW i \in 1 .. Len(s)
    PROVE  <<s[i]>> \o SubSeq(s, i + 1, Len(s)) = SubSeq(s, i, Len(s))
OBVIOUS

LEMMA RestEnds ==
    ASSUME NEW S, NEW s \in Seq(S)
    PROVE  SubSeq(s, Len(s) + 1, Len(s)) = << >> /\ SubSeq(s, 1, Len(s)) = s
OBVIOUS

\* The codes ss of the data, and their lengths w.
ContentIs(data, ss, w, code, tree, N) ==
    /\ ss \in Seq(Seq(Bits)) /\ w \in Seq(Nat) /\ Len(ss) = Len(data) /\ Len(w) = Len(data)
    /\ \A i \in 1 .. Len(data) :
          w[i] = Len(ss[i]) /\ \E c \in code[N] : c[2] = ss[i] /\ tree.dict[c[1]] = data[i]

\* The codes follow each other from bit e on.
CodesStand(bits, e, ss, w, data) ==
    \A i \in 1 .. Len(data) : StandsAt(bits, e - 1 + PrefixSums(w)[i - 1], ss[i])

\* Everything that is read, and where.
ReadsContent(tree, L, d, N, node, code, t, e, last, bits, walk, from, data, ss, w) ==
    /\ TreeIs(tree, L, d, N) /\ NodesAre(node, tree, N) /\ Len(node[N]) = N
    /\ CodesAre(code, tree, d, N) /\ ReadsAs(t, tree, d, N, node)
    /\ ReadableTree(t, N, e, last) /\ bits \in Seq(Bits)
    /\ WalkEq(walk, t, bits, last) /\ FromEq(from, walk, t, last)
    /\ data \in Seq(Bytes) /\ ContentIs(data, ss, w, code, tree, N)
    /\ CodesStand(bits, e, ss, w, data)
    /\ e + PrefixSums(w)[Len(data)] = last + 1

LEMMA ContentRead ==
    ASSUME NEW tree, NEW L, NEW d, NEW N, NEW node, NEW code, NEW t, NEW e, NEW last, NEW bits,
           NEW walk, NEW from, NEW data, NEW ss, NEW w,
           ReadsContent(tree, L, d, N, node, code, t, e, last, bits, walk, from, data, ss, w)
    PROVE  from[e] = data
<1>0. /\ TreeIs(tree, L, d, N) /\ NodesAre(node, tree, N) /\ Len(node[N]) = N
      /\ CodesAre(code, tree, d, N) /\ ReadsAs(t, tree, d, N, node)
      /\ ReadableTree(t, N, e, last) /\ bits \in Seq(Bits)
      /\ WalkEq(walk, t, bits, last) /\ FromEq(from, walk, t, last)
      /\ data \in Seq(Bytes) /\ ContentIs(data, ss, w, code, tree, N)
      /\ CodesStand(bits, e, ss, w, data)
      /\ e + PrefixSums(w)[Len(data)] = last + 1
    BY DEF ReadsContent
<1> USE <1>0
<1>1. PICK n \in Nat : n = Len(data)
    BY SeqIsFunction
<1>2. /\ e \in Nat \ {0} /\ last \in Nat /\ e <= last + 1 /\ 1 \in 1 .. N /\ ~ t.leaf[1] /\ t.end = e
      /\ DOMAIN t.leaf = 1 .. N
    BY DEF ReadableTree
<1>e. e \in Nat \ {0} /\ last \in Nat
    BY <1>2
<1>3. WalkSteps(walk, t, bits, N, e, last)
    BY WalkStep, Zenon
<1>4. N \in 1 .. N /\ N \in Nat
    BY TreeFacts
<1>5. node[N][1] = N
  <2>1. \A i \in 1 .. N : node[i][1] = i
      BY NodesStand
  <2> QED
      BY <1>4, <2>1, Zenon
<1>6. PICK P \in [0 .. n -> Nat] :
         /\ P[0] = 0 /\ \A i \in 1 .. n : P[i] = P[i - 1] + w[i]
         /\ \A i \in 0 .. n : P[i] = PrefixSums(w)[i]
  <2>1. w \in Seq(Nat) /\ Len(w) = n
      BY <1>1 DEF ContentIs
  <2>2. /\ PrefixSums(w)[0] = 0
        /\ \A i \in 0 .. n : PrefixSums(w)[i] \in Nat
        /\ \A i \in 1 .. n : PrefixSums(w)[i] = PrefixSums(w)[i - 1] + w[i]
      BY <2>1, PrefixSumsNat
  <2>3. PICK P : P = [i \in 0 .. n |-> PrefixSums(w)[i]]
      OBVIOUS
  <2>4. P \in [0 .. n -> Nat]
      BY <2>2, <2>3, Zenon
  <2>5. 0 \in 0 .. n /\ \A i \in 1 .. n : i \in 0 .. n /\ i - 1 \in 0 .. n
      OBVIOUS
  <2>6. P[0] = 0
      BY <2>2, <2>3, <2>5, Zenon
  <2>7. \A i \in 1 .. n : P[i] = P[i - 1] + w[i]
      BY <2>2, <2>3, <2>5, Zenon
  <2>8. \A i \in 0 .. n : P[i] = PrefixSums(w)[i]
      BY <2>3, Zenon
  <2> QED
      BY <2>4, <2>6, <2>7, <2>8
<1>93. ASSUME NEW p \in e .. last + 1
      PROVE  from[p] = IF t.leaf[walk[p][1][1]]
                       THEN <<t.val[walk[p][1][1]]>> \o from[walk[p][1][2]] ELSE << >>
    BY <1>2, Zenon DEF FromEq
<1> DEFINE Fine(i) == e + P[i] <= last + 1 /\ from[e + P[i]] = SubSeq(data, i + 1, n)
           T == {j \in Nat : n - j \in 0 .. n => Fine(n - j)}
<1>7. 0 \in T
  <2>1. n - 0 = n /\ n \in 0 .. n
      OBVIOUS
  <2>2. e + P[n] = last + 1
      BY <1>1, <1>6, <2>1, Zenon
  <2>3. last + 1 \in e .. last + 1 /\ last + 1 > last /\ last + 1 <= last + 1
      BY <1>2
  <2>4. walk[last + 1][1] = <<1, last + 1>>
      BY <1>2, <1>3, <2>3, Zenon DEF WalkSteps
  <2>5. <<1, last + 1>>[1] = 1
      OBVIOUS
  <2>6. from[last + 1] = << >>
      BY <1>2, <1>93, <2>3, <2>4, <2>5, Zenon
  <2>7. SubSeq(data, n + 1, n) = << >>
      BY <1>1, RestEnds
  <2>8. Fine(n)
      BY <2>2, <2>3, <2>6, <2>7, Zenon
  <2> QED
      BY <2>1, <2>8, Zenon
<1>8. ASSUME NEW j \in Nat, j \in T PROVE j + 1 \in T
  <2> SUFFICES ASSUME n - (j + 1) \in 0 .. n PROVE Fine(n - (j + 1))
    <3>1. j + 1 \in Nat
        OBVIOUS
    <3> QED
        BY <3>1, Zenon
  <2>1. PICK i \in 1 .. n : i = n - j /\ n - (j + 1) = i - 1 /\ i \in 0 .. n /\ i - 1 \in 0 .. n
    <3>1. /\ n - j \in 1 .. n /\ n - (j + 1) = (n - j) - 1
          /\ n - j \in 0 .. n /\ (n - j) - 1 \in 0 .. n
        OBVIOUS
    <3> QED
        BY <3>1
  <2>2. Fine(i)
      BY <1>8, <2>1, Zenon
  <2>3. PICK a \in Nat, b \in Nat, x \in Nat : a = P[i - 1] /\ b = P[i] /\ x = w[i] /\ b = a + x
    <3>1. w[i] \in Nat
      <4>1. w \in Seq(Nat) /\ Len(w) = n
          BY <1>1 DEF ContentIs
      <4> QED
          BY <4>1, SeqElement
    <3>2. P[i - 1] \in Nat /\ P[i] \in Nat /\ P[i] = P[i - 1] + w[i]
        BY <1>6, <2>1
    <3> QED
        BY <3>1, <3>2, Zenon
  <2>4. e + b <= last + 1 /\ from[e + b] = SubSeq(data, i + 1, n)
      BY <2>2, <2>3, Zenon
  <2>5. PICK p \in e .. last + 1 : p = e + a /\ p - 1 = e - 1 + a /\ p + x = e + b
    <3>1. e + a \in e .. last + 1 /\ (e + a) - 1 = e - 1 + a /\ (e + a) + x = e + b
      <4>1. e + b <= last + 1 /\ b = a + x
          BY <2>3, <2>4
      <4> QED
          BY <1>e, <4>1
    <3> QED
        BY <3>1
  <2>6. PICK c \in code[N] : c[2] = ss[i] /\ tree.dict[c[1]] = data[i] /\ x = Len(ss[i])
      BY <1>1, <2>3 DEF ContentIs
  <2>7. Starts(bits, p, c[2], last)
    <3>1. StandsAt(bits, e - 1 + a, ss[i])
        BY <1>1, <1>6, <2>1, <2>3, Zenon DEF CodesStand
    <3>2. p + Len(c[2]) <= last + 1
        BY <2>4, <2>5, <2>6, Zenon
    <3> QED
        BY <2>5, <2>6, <3>1, <3>2, Zenon DEF Starts
  <2>8. CodeRead(walk[p][1], t, node[N], c[1], p + Len(c[2]), N)
    <3>1. \A h \in 1 .. N : \A z \in code[h] : \A k \in 1 .. N : \A r \in e .. last + 1 :
              node[N][k] = h /\ Starts(bits, r, z[2], last)
                 => CodeRead(walk[r][k], t, node[N], z[1], r + Len(z[2]), N)
        BY <1>3, CodeWalk
    <3> QED
        BY <1>2, <1>4, <1>5, <2>7, <3>1, Zenon
  <2>9. PICK m \in 1 .. N : walk[p][1] = <<m, e + b>> /\ t.leaf[m] /\ node[N][m] = c[1]
      BY <2>5, <2>6, <2>8, Zenon DEF CodeRead
  <2>10. <<m, e + b>>[1] = m /\ <<m, e + b>>[2] = e + b
      OBVIOUS
  <2>11. from[p] = <<t.val[m]>> \o from[e + b]
      BY <1>93, <2>9, <2>10, Zenon
  <2>12. t.val[m] = data[i]
      BY <2>6, <2>9, Zenon DEF ReadsAs
  <2>13. <<data[i]>> \o SubSeq(data, i + 1, n) = SubSeq(data, i, n)
      BY <1>1, RestStep
  <2>14. (i - 1) + 1 = i /\ p <= last + 1
      BY <1>e
  <2>15. Fine(i - 1)
      BY <2>3, <2>4, <2>5, <2>11, <2>12, <2>13, <2>14, Zenon
  <2> QED
      BY <2>1, <2>15, Zenon
<1> HIDE DEF T
<1>9. n \in T
  <2>1. Nat \subseteq T
      BY <1>7, <1>8, SetInduction
  <2> QED
      BY <2>1
<1>10. n - n = 0 /\ 0 \in 0 .. n /\ 0 + 1 = 1 /\ e + 0 = e
    BY <1>e
<1>11. Fine(0)
    BY <1>9, <1>10, Zenon DEF T
<1>12. from[e] = SubSeq(data, 1, n)
    BY <1>6, <1>10, <1>11, Zenon
<1> QED
    BY <1>1, <1>12, RestEnds

LEMMA DecodeBitsIs ==
    ASSUME NEW t, NEW N, NEW e, NEW last, ReadableTree(t, N, e, last), NEW bits
    PROVE  \E walk, from : /\ WalkEq(walk, t, bits, last) /\ FromEq(from, walk, t, last)
                           /\ DecodeBits(bits, t, last) = from[e]
<1> DEFINE walk0 == CHOOSE f : f = [p \in t.end .. last + 1 |->
              [n \in DOMAIN t.leaf |->
                 IF t.leaf[n] \/ p > last THEN <<n, p>>
                 ELSE f[p + 1][IF bits[p] = 1 THEN t.left[n] ELSE t.right[n]]]]
           from0 == CHOOSE f : f = [p \in t.end .. last + 1 |->
              IF t.leaf[walk0[p][1][1]] THEN <<t.val[walk0[p][1][1]]>> \o f[walk0[p][1][2]] ELSE << >>]
<1>1. DecodeBits(bits, t, last) = from0[t.end]
    BY DEF DecodeBits
<1>2. t.end = e
    BY DEF ReadableTree
<1>3. WalkEq(walk0, t, bits, last)
  <2>1. PICK f : WalkEq(f, t, bits, last)
      BY WalkExists
  <2>2. f = [p \in t.end .. last + 1 |->
              [n \in DOMAIN t.leaf |->
                 IF t.leaf[n] \/ p > last THEN <<n, p>>
                 ELSE f[p + 1][IF bits[p] = 1 THEN t.left[n] ELSE t.right[n]]]]
      BY <2>1, Zenon DEF WalkEq
  <2>3. walk0 = [p \in t.end .. last + 1 |->
              [n \in DOMAIN t.leaf |->
                 IF t.leaf[n] \/ p > last THEN <<n, p>>
                 ELSE walk0[p + 1][IF bits[p] = 1 THEN t.left[n] ELSE t.right[n]]]]
      BY <2>2, Zenon
  <2> HIDE DEF walk0
  <2> QED
      BY <2>3, Zenon DEF WalkEq
<1>4. FromEq(from0, walk0, t, last)
  <2> HIDE DEF walk0
  <2>1. PICK f : FromEq(f, walk0, t, last)
      BY <1>3, FromExists
  <2>2. f = [p \in t.end .. last + 1 |->
              IF t.leaf[walk0[p][1][1]] THEN <<t.val[walk0[p][1][1]]>> \o f[walk0[p][1][2]] ELSE << >>]
      BY <2>1, Zenon DEF FromEq
  <2>3. from0 = [p \in t.end .. last + 1 |->
              IF t.leaf[walk0[p][1][1]] THEN <<t.val[walk0[p][1][1]]>> \o from0[walk0[p][1][2]] ELSE << >>]
      BY <2>2, Zenon
  <2> HIDE DEF from0
  <2> QED
      BY <2>3, Zenon DEF FromEq
<1> HIDE DEF walk0, from0
<1> QED
    BY <1>1, <1>2, <1>3, <1>4, Zenon

LEMMA TreeIsReadable ==
    ASSUME NEW tree, NEW L, NEW d, NEW N, TreeIs(tree, L, d, N),
           NEW node, NodesAre(node, tree, N), Len(node[N]) = N,
           NEW t, ReadsAs(t, tree, d, N, node), NEW e \in Nat \ {0}, t.end = e,
           NEW last \in Nat, e <= last + 1
    PROVE  ReadableTree(t, N, e, last)
<1>1. d \in Nat /\ N \in Nat /\ N \in 1 .. N /\ d \in 2 .. 256 /\ N = 2 * d - 1
    BY TreeFacts DEF TreeIs
<1>2. 1 \in 1 .. N /\ ~ (N <= d)
  <2>1. d \in 2 .. 256 /\ N = 2 * d - 1
      BY <1>1, SMTT(30)
  <2> QED
      BY <2>1
<1>3. PICK s \in Seq(1 .. N) : s = node[N] /\ Len(s) = N
    BY <1>1 DEF NodesAre
<1>4. ~ t.leaf[1]
  <2>1. \A i \in 1 .. N : node[i][1] = i
      BY NodesStand
  <2>2. node[N][1] = N
      BY <1>1, <2>1, Zenon
  <2>3. t.leaf[1] <=> node[N][1] <= d
      BY <1>2, Zenon DEF ReadsAs
  <2> QED
      BY <1>2, <2>2, <2>3
<1>5. ASSUME NEW k \in 1 .. N, t.leaf[k] PROVE t.val[k] \in Bytes
  <2>1. s[k] \in 1 .. N /\ s[k] <= d /\ t.val[k] = tree.dict[s[k]]
    <3>1. s[k] \in 1 .. N
        BY <1>3, SeqElement
    <3> QED
        BY <1>3, <1>5, <3>1, Zenon DEF ReadsAs
  <2>2. s[k] \in 1 .. d
      BY <1>1, <2>1
  <2> QED
      BY <2>1, <2>2, TreeFacts
<1>6. ASSUME NEW k \in 1 .. N, ~ t.leaf[k] PROVE t.left[k] \in 1 .. N /\ t.right[k] \in 1 .. N
  <2>1. node[N][k] > d
    <3>1. s[k] \in 1 .. N /\ ~ (s[k] <= d)
      <4>1. s[k] \in 1 .. N
          BY <1>3, SeqElement
      <4> QED
          BY <1>3, <1>6, <4>1, Zenon DEF ReadsAs
    <3>2. \A i \in 1 .. N : i <= d \/ i > d
        BY <1>1
    <3> QED
        BY <1>3, <3>1, <3>2, Zenon
  <2>2. PICK n \in 1 .. N, a \in 1 .. N, b \in 1 .. N, q \in 1 .. N, r \in 1 .. N :
           SonsAre(node, tree, N, k, n, a, b, q, r)
      BY <2>1, SonsFollow
  <2>3. PICK m \in 1 .. N, f \in 1 .. N, g \in 1 .. N :
           SonsAre(node, tree, N, k, m, f, g, t.left[k], t.right[k])
      BY <1>6, Zenon DEF ReadsAs
  <2>4. t.left[k] = q /\ t.right[k] = r
      BY <2>2, <2>3, Zenon DEF SonsAre
  <2> QED
      BY <2>2, <2>4, Zenon
<1> QED
    BY <1>2, <1>4, <1>5, <1>6, Zenon DEF ReadableTree, ReadsAs

-----------------------------------------------------------------------------
(* The dictionary. *)

\* An order on a finite set, and the place of each element in it.
Precedes(freq, c, e) == freq[c] < freq[e] \/ (freq[c] = freq[e] /\ c < e)

PlaceOf(used, freq, c) == Cardinality({e \in used : Precedes(freq, e, c)}) + 1

LEMMA PlacesDiffer ==
    ASSUME NEW used \in SUBSET Nat, IsFiniteSet(used), NEW freq \in [used -> Nat],
           NEW u \in Nat, u = Cardinality(used)
    PROVE  /\ \A c \in used : PlaceOf(used, freq, c) \in 1 .. u
           /\ \A c, e \in used : PlaceOf(used, freq, c) = PlaceOf(used, freq, e) => c = e
<1> DEFINE Below(c) == {e \in used : Precedes(freq, e, c)}
<1>1. ASSUME NEW c \in used
      PROVE  IsFiniteSet(Below(c)) /\ Cardinality(Below(c)) \in Nat /\ c \notin Below(c)
  <2>1. Below(c) \in SUBSET used
      OBVIOUS
  <2>2. IsFiniteSet(Below(c))
      BY <2>1, FS_Subset
  <2>3. ~ Precedes(freq, c, c)
    <3>1. freq[c] \in Nat /\ c \in Nat
        OBVIOUS
    <3> QED
        BY <3>1 DEF Precedes
  <2> QED
      BY <2>2, <2>3, FS_CardinalityType
<1>2. ASSUME NEW c \in used, NEW e \in used, Precedes(freq, c, e)
      PROVE  Cardinality(Below(c)) < Cardinality(Below(e))
  <2>1. \A z \in used : Precedes(freq, z, c) => Precedes(freq, z, e)
    <3> SUFFICES ASSUME NEW z \in used, Precedes(freq, z, c) PROVE Precedes(freq, z, e)
        OBVIOUS
    <3>1. PICK x \in Nat, y \in Nat, w \in Nat : x = freq[z] /\ y = freq[c] /\ w = freq[e]
        OBVIOUS
    <3>2. (x < y \/ (x = y /\ z < c)) /\ (y < w \/ (y = w /\ c < e)) /\ z \in Nat /\ c \in Nat /\ e \in Nat
        BY <1>2, <3>1 DEF Precedes
    <3>3. x < w \/ (x = w /\ z < e)
        BY <3>2
    <3> QED
        BY <3>1, <3>3 DEF Precedes
  <2>2. PICK B : B = Below(c)
      OBVIOUS
  <2>3. PICK E : E = Below(e)
      OBVIOUS
  <2>4. B \cup {c} \in SUBSET E
      BY <1>2, <2>1, <2>2, <2>3
  <2>5. IsFiniteSet(B) /\ Cardinality(B) \in Nat /\ c \notin B /\ IsFiniteSet(E) /\ Cardinality(E) \in Nat
      BY <1>1, <2>2, <2>3
  <2>6. Cardinality(B \cup {c}) = Cardinality(B) + 1
      BY <2>5, FS_AddElement
  <2>7. Cardinality(B \cup {c}) <= Cardinality(E)
      BY <2>4, <2>5, FS_Subset
  <2> QED
      BY <2>2, <2>3, <2>5, <2>6, <2>7
<1>3. ASSUME NEW c \in used, NEW e \in used, c # e PROVE Precedes(freq, c, e) \/ Precedes(freq, e, c)
  <2>1. freq[c] \in Nat /\ freq[e] \in Nat /\ c \in Nat /\ e \in Nat
      OBVIOUS
  <2> QED
      BY <1>3, <2>1 DEF Precedes
<1>4. ASSUME NEW c \in used PROVE PlaceOf(used, freq, c) \in 1 .. u
  <2>1. PICK B : B = Below(c)
      OBVIOUS
  <2>2. IsFiniteSet(B) /\ Cardinality(B) \in Nat /\ c \notin B
      BY <1>1, <2>1
  <2>3. B \in SUBSET used /\ B # used
      BY <2>1, <2>2
  <2>4. Cardinality(B) <= u /\ Cardinality(B) # u
      BY <2>3, FS_Subset
  <2>5. Cardinality(B) + 1 \in 1 .. u
      BY <2>2, <2>4
  <2> QED
      BY <2>1, <2>5, Zenon DEF PlaceOf
<1>5. ASSUME NEW c \in used, NEW e \in used, PlaceOf(used, freq, c) = PlaceOf(used, freq, e) PROVE c = e
  <2>1. PICK b \in Nat, f \in Nat : b = Cardinality(Below(c)) /\ f = Cardinality(Below(e))
      BY <1>1
  <2>2. b + 1 = f + 1
      BY <1>5, <2>1, Zenon DEF PlaceOf
  <2>3. ~ (b < f) /\ ~ (f < b)
      BY <2>2
  <2> QED
      BY <1>2, <1>3, <2>1, <2>3, Zenon
<1> QED
    BY <1>4, <1>5

\* The elements of a finite set in that order.
PlacedBy(place, used, freq) == place = [c \in used |-> PlaceOf(used, freq, c)]

AtPlace(sorted, used, place, u) == sorted = [i \in 1 .. u |-> CHOOSE c \in used : place[c] = i]

Covers(sorted, used, u) == sorted \in [1 .. u -> used] /\ \A c \in used : \E i \in 1 .. u : sorted[i] = c

LEMMA SortedIs ==
    ASSUME NEW used \in SUBSET Nat, IsFiniteSet(used), NEW freq \in [used -> Nat],
           NEW u \in Nat, u = Cardinality(used),
           NEW place, PlacedBy(place, used, freq), NEW sorted, AtPlace(sorted, used, place, u)
    PROVE  Covers(sorted, used, u)
<1>p. /\ place = [c \in used |-> PlaceOf(used, freq, c)]
      /\ sorted = [i \in 1 .. u |-> CHOOSE c \in used : place[c] = i]
    BY DEF PlacedBy, AtPlace
<1>1. /\ \A c \in used : PlaceOf(used, freq, c) \in 1 .. u
      /\ \A c, e \in used : PlaceOf(used, freq, c) = PlaceOf(used, freq, e) => c = e
    BY PlacesDiffer
<1>2. place \in [used -> 1 .. u] /\ \A c, e \in used : place[c] = place[e] => c = e
  <2>1. place \in [used -> 1 .. u]
      BY <1>p, <1>1, Zenon
  <2>2. \A c \in used : place[c] = PlaceOf(used, freq, c)
      BY <1>p, Zenon
  <2> QED
      BY <1>1, <2>1, <2>2, Zenon
<1>3. place \in Injection(used, 1 .. u)
    BY <1>2, Zenon DEF Injection, IsInjective
<1>4. IsFiniteSet(1 .. u) /\ Cardinality(1 .. u) = u
    BY FS_Interval
<1>5. place \in Surjection(used, 1 .. u)
    BY <1>3, <1>4, FS_Injection
<1>6. \A i \in 1 .. u : \E c \in used : place[c] = i
    BY <1>5, Zenon DEF Surjection
<1>7. ASSUME NEW i \in 1 .. u PROVE sorted[i] \in used /\ place[sorted[i]] = i
  <2>1. sorted[i] = CHOOSE c \in used : place[c] = i
      BY <1>p, Zenon
  <2> QED
      BY <1>6, <2>1, Zenon
<1>8. sorted \in [1 .. u -> used]
  <2>1. \A i \in 1 .. u : (CHOOSE c \in used : place[c] = i) \in used
      BY <1>6, Zenon
  <2> QED
      BY <1>p, <2>1, ZenonT(60)
<1>9. ASSUME NEW c \in used PROVE \E i \in 1 .. u : sorted[i] = c
  <2>1. place[c] \in 1 .. u
      BY <1>2
  <2>2. sorted[place[c]] \in used /\ place[sorted[place[c]]] = place[c]
      BY <1>7, <2>1, Zenon
  <2> QED
      BY <1>2, <2>1, <2>2, Zenon
<1> QED
    BY <1>8, <1>9 DEF Covers

\* Every byte of the data is in the dictionary.
LEMMA DictionaryIs ==
    ASSUME NEW data \in Seq(Bytes), data # << >>
    PROVE  /\ IsDictionary(Dictionary(data))
           /\ \A i \in 1 .. Len(data) :
                 \E j \in 1 .. Len(Dictionary(data).chr) : Dictionary(data).chr[j] = data[i]
<1> DEFINE used == ToSet(data)
           freq == [c \in used |-> Cardinality({i \in DOMAIN data : data[i] = c})]
           place == [c \in used |-> Cardinality({e \in used : freq[e] < freq[c] \/ (freq[e] = freq[c] /\ e < c)}) + 1]
           sorted == [i \in 1 .. Cardinality(used) |-> CHOOSE c \in used : place[c] = i]
           unused == IF used = Bytes THEN << >>
                     ELSE <<CHOOSE c \in Bytes \ used : \A e \in Bytes \ used : c <= e>>
           often == [i \in DOMAIN sorted |-> freq[sorted[i]]] \o [i \in DOMAIN unused |-> 0]
<1>1. Dictionary(data) = [chr |-> sorted \o unused, freq |-> often]
    BY DEF Dictionary
<1>2. PICK n \in Nat : n = Len(data) /\ DOMAIN data = 1 .. n /\ n # 0
  <2>1. Len(data) \in Nat /\ DOMAIN data = 1 .. Len(data) /\ Len(data) # 0
      OBVIOUS
  <2> QED
      BY <2>1, Zenon
<1>3. PICK U \in SUBSET Bytes : U = used /\ \A i \in 1 .. n : data[i] \in U
  <2>1. \A i \in 1 .. n : data[i] \in Bytes
      BY <1>2, SeqElement
  <2>2. used = {data[i] : i \in 1 .. n}
      BY <1>2 DEF ToSet
  <2> QED
      BY <2>1, <2>2
<1>4. U \in SUBSET Nat /\ Bytes \in SUBSET Nat /\ IsFiniteSet(Bytes) /\ Cardinality(Bytes) = 256
  <2>1. Bytes = 0 .. 255
      BY DEF Bytes
  <2>2. IsFiniteSet(0 .. 255) /\ Cardinality(0 .. 255) = 256
    <3>1. 0 \in Int /\ 255 \in Int /\ ~ (0 > 255) /\ 255 - 0 + 1 = 256
        OBVIOUS
    <3>2. /\ IsFiniteSet(0 .. 255)
          /\ Cardinality(0 .. 255) = IF 0 > 255 THEN 0 ELSE 255 - 0 + 1
        BY <3>1, FS_Interval, ZenonT(60)
    <3> QED
        BY <3>1, <3>2, Zenon
  <2>3. 0 .. 255 \in SUBSET Nat
      OBVIOUS
  <2> QED
      BY <2>1, <2>2, <2>3
<1>5. IsFiniteSet(U) /\ Cardinality(U) \in Nat
    BY <1>4, FS_Subset, FS_CardinalityType
<1>6. PICK u \in Nat : u = Cardinality(U)
    BY <1>5
<1>7. u # 0
  <2>1. 1 \in 1 .. n
      BY <1>2
  <2>2. U # {}
      BY <1>3, <2>1
  <2> QED
      BY <1>5, <1>6, <2>2, FS_EmptySet
<1>8. PICK f : f = freq
    OBVIOUS
<1>9. f \in [U -> Nat]
  <2>1. ASSUME NEW c \in U PROVE Cardinality({i \in DOMAIN data : data[i] = c}) \in Nat
    <3>1. {i \in DOMAIN data : data[i] = c} \in SUBSET (1 .. n)
        BY <1>2
    <3>2. IsFiniteSet(1 .. n)
        BY FS_Interval
    <3> QED
        BY <3>1, <3>2, FS_Subset, FS_CardinalityType
  <2> HIDE DEF used
  <2> QED
      BY <1>3, <1>8, <2>1, Zenon
<1>10. PICK p : p = place
    OBVIOUS
<1>11. p = [c \in U |-> PlaceOf(U, f, c)]
  <2>1. place = [c \in used |-> PlaceOf(used, freq, c)]
    <3> HIDE DEF freq, used
    <3> QED
        BY Zenon DEF PlaceOf, Precedes
  <2> HIDE DEF freq, used, place
  <2> QED
      BY <1>3, <1>8, <1>10, <2>1
<1>12. PICK s : s = sorted
    OBVIOUS
<1>13. s = [i \in 1 .. u |-> CHOOSE c \in U : p[c] = i]
  <2> HIDE DEF used, place
  <2> QED
      BY <1>3, <1>6, <1>10, <1>12
<1>14. s \in [1 .. u -> U] /\ \A c \in U : \E i \in 1 .. u : s[i] = c
  <2>1. PlacedBy(p, U, f) /\ AtPlace(s, U, p, u)
      BY <1>11, <1>13 DEF PlacedBy, AtPlace
  <2>2. Covers(s, U, u)
      BY <1>4, <1>5, <1>6, <1>9, <2>1, SortedIs, Zenon
  <2> QED
      BY <2>2 DEF Covers
<1>15. s \in Seq(Bytes) /\ Len(s) = u /\ DOMAIN s = 1 .. u
  <2>1. s \in [1 .. u -> Bytes]
      BY <1>14
  <2> QED
      BY <2>1, FunctionIsSeq
<1>16. PICK x : x = unused
  <2> HIDE DEF unused
  <2> QED
      OBVIOUS
<1>17. x \in Seq(Bytes) /\ DOMAIN x = 1 .. Len(x) /\ Len(x) \in Nat /\ u + Len(x) \in 2 .. 256
  <2>1. CASE U = Bytes
    <3>1. x = << >>
        BY <1>3, <1>16, <2>1
    <3>2. x \in Seq(Bytes) /\ Len(x) = 0
        BY <3>1
    <3>3. u + 0 \in 2 .. 256
        BY <1>4, <1>6, <2>1
    <3> QED
        BY <3>2, <3>3, SeqIsFunction
  <2>2. CASE U # Bytes
    <3>1. PICK R : R = Bytes \ U
        OBVIOUS
    <3>2. R # {} /\ R \in SUBSET Nat /\ R \in SUBSET Bytes
        BY <1>4, <2>2, <3>1
    <3>3. Min(R) \in R
        BY <3>2, MinOf
    <3>4. Min(R) = CHOOSE c \in R : \A e \in R : c <= e
        BY DEF Min
    <3>5. x = <<CHOOSE c \in R : \A e \in R : c <= e>>
      <4> HIDE DEF used
      <4> QED
          BY <1>3, <1>16, <2>2, <3>1
    <3>6. x = <<Min(R)>>
        BY <3>4, <3>5, Zenon
    <3>7. Min(R) \in Bytes
        BY <3>2, <3>3
    <3>8. x \in Seq(Bytes) /\ Len(x) = 1
        BY <3>6, <3>7, SingleIs
    <3>9. u <= 256 /\ u # 256
      <4>1. /\ Cardinality(U) <= Cardinality(Bytes)
            /\ Cardinality(Bytes) = Cardinality(U) => Bytes = U
          BY <1>4, FS_Subset, Zenon
      <4> QED
          BY <1>4, <1>6, <2>2, <4>1, Zenon
    <3>10. u + 1 \in 2 .. 256
        BY <1>7, <3>9
    <3> QED
        BY <3>8, <3>10, SeqIsFunction
  <2> QED
      BY <2>1, <2>2
<1>18. PICK chr : chr = s \o x
    OBVIOUS
<1>19. chr \in Seq(Bytes) /\ Len(chr) = u + Len(x) /\ StandsAt(chr, 0, s)
  <2>1. s \o x \in Seq(Bytes) /\ Len(s \o x) = Len(s) + Len(x) /\ StandsAt(s \o x, 0, s)
      BY <1>15, <1>17, StandsParts, Zenon
  <2> QED
      BY <1>15, <1>18, <2>1, Zenon
<1>20. PICK g : g = [i \in DOMAIN s |-> f[s[i]]]
    OBVIOUS
<1>21. g \in Seq(Int) /\ Len(g) = u
  <2>1. \A i \in 1 .. u : f[s[i]] \in Int
      BY <1>9, <1>14
  <2>2. g \in [1 .. u -> Int]
      BY <1>15, <1>20, <2>1, Zenon
  <2> QED
      BY <2>2, FunctionIsSeq
<1>22. PICK h : h = [i \in DOMAIN x |-> 0]
    OBVIOUS
<1>23. h \in Seq(Int) /\ Len(h) = Len(x)
  <2>1. PICK k \in Nat : k = Len(x)
      BY <1>17
  <2>2. h \in [1 .. k -> Int]
      BY <1>17, <1>22, <2>1
  <2> QED
      BY <2>1, <2>2, FunctionIsSeq
<1>24. PICK y : y = g \o h
    OBVIOUS
<1>25. y \in Seq(Int) /\ Len(y) = u + Len(x)
  <2>1. g \o h \in Seq(Int) /\ Len(g \o h) = Len(g) + Len(h)
      BY <1>21, <1>23, StandsParts, Zenon
  <2> QED
      BY <1>21, <1>23, <1>24, <2>1, Zenon
<1>26. Dictionary(data) = [chr |-> chr, freq |-> y]
  <2>1. often = y
    <3> HIDE DEF freq, sorted, unused
    <3> QED
        BY <1>8, <1>12, <1>16, <1>20, <1>22, <1>24
  <2>2. sorted \o unused = chr
    <3> HIDE DEF sorted, unused
    <3> QED
        BY <1>12, <1>16, <1>18
  <2> HIDE DEF sorted, unused, often
  <2> QED
      BY <1>1, <2>1, <2>2
<1>27. Dictionary(data).chr = chr /\ Dictionary(data).freq = y
    BY <1>26
<1>28. IsDictionary(Dictionary(data))
    BY <1>17, <1>19, <1>25, <1>27, Zenon DEF IsDictionary
<1>29. ASSUME NEW i \in 1 .. n PROVE \E j \in 1 .. u + Len(x) : chr[j] = data[i]
  <2>1. PICK j \in 1 .. u : s[j] = data[i]
      BY <1>3, <1>14
  <2>2. j \in 1 .. u + Len(x) /\ 0 + j = j
      BY <1>17
  <2>3. chr[0 + j] = s[j]
      BY <1>15, <1>19, Zenon DEF StandsAt
  <2> QED
      BY <2>1, <2>2, <2>3, Zenon
<1> QED
    BY <1>2, <1>19, <1>27, <1>28, <1>29, Zenon

-----------------------------------------------------------------------------
(* The content that is written. *)

LEMMA TableIs ==
    ASSUME NEW tree, NEW L, NEW d, NEW N, TreeIs(tree, L, d, N),
           NEW code, CodesAre(code, tree, d, N), Codes(tree) = code[N], NEW j \in 1 .. d
    PROVE  \E c \in code[N] : c[2] = TableOf(tree)[tree.dict[j]] /\ tree.dict[c[1]] = tree.dict[j]
<1>1. N \in 1 .. N /\ d \in Nat
    BY TreeFacts
<1>2. L[N] = 1 .. d /\ tree.dict \in Seq(Bytes) /\ Len(tree.dict) = d
    BY DEF TreeIs
<1>3. DOMAIN tree.dict = 1 .. d
    BY <1>2, SeqIsFunction
<1> DEFINE x == tree.dict[j]
           n0 == CHOOSE n \in DOMAIN tree.dict : tree.dict[n] = x
           c0 == CHOOSE c \in Codes(tree) : c[1] = n0
<1>4. n0 \in 1 .. d /\ tree.dict[n0] = x
    BY <1>3
<1>5. \E c \in code[N] : c[1] = n0
  <2>1. \A n \in 1 .. N : \A l \in L[n] : \E c \in code[n] : c[1] = l
      BY CodesReach
  <2> QED
      BY <2>1, <1>1, <1>2, <1>4
<1>6. c0 \in code[N] /\ c0[1] = n0
    BY <1>5
<1>7. x \in {tree.dict[n] : n \in DOMAIN tree.dict}
    BY <1>3
<1>8. TableOf(tree)[x] = c0[2]
    BY <1>7 DEF TableOf
<1> QED
    BY <1>4, <1>6, <1>8

\* The codes of the data and their lengths, as CodeBits and EstimatedBits go
\* through them.
CodesOfData(data, table) == [i \in DOMAIN data |-> table[data[i]]]
LengthsOf(data, table) == [i \in DOMAIN data |-> Len(table[data[i]])]

LEMMA ContentExists ==
    ASSUME NEW tree, NEW L, NEW d, NEW N, TreeIs(tree, L, d, N),
           NEW code, CodesAre(code, tree, d, N), Codes(tree) = code[N],
           NEW data \in Seq(Bytes),
           \A i \in 1 .. Len(data) : \E j \in 1 .. Len(tree.dict) : tree.dict[j] = data[i],
           NEW table, table = TableOf(tree)
    PROVE  ContentIs(data, CodesOfData(data, table), LengthsOf(data, table), code, tree, N)
<1>1. N \in 1 .. N /\ d \in Nat /\ Len(tree.dict) = d
    BY TreeFacts DEF TreeIs
<1>2. Len(data) \in Nat /\ DOMAIN data = 1 .. Len(data)
    OBVIOUS
<1>3. code[N] \in SUBSET ((1 .. d) \X Seq(Bits))
    BY <1>1 DEF CodesAre
<1>4. ASSUME NEW i \in 1 .. Len(data)
      PROVE  /\ \E c \in code[N] : c[2] = table[data[i]] /\ tree.dict[c[1]] = data[i]
             /\ table[data[i]] \in Seq(Bits)
  <2>1. PICK j \in 1 .. d : tree.dict[j] = data[i]
      BY <1>1
  <2>2. \E c \in code[N] : c[2] = TableOf(tree)[tree.dict[j]] /\ tree.dict[c[1]] = tree.dict[j]
      BY TableIs
  <2>3. PICK c \in code[N] : c[2] = table[data[i]] /\ tree.dict[c[1]] = data[i]
      BY <2>1, <2>2
  <2>4. c[2] \in Seq(Bits)
      BY <1>3
  <2> QED
      BY <2>3, <2>4
<1> DEFINE ss == CodesOfData(data, table)
           w == LengthsOf(data, table)
<1>5. ss \in [1 .. Len(data) -> Seq(Bits)] /\ w \in [1 .. Len(data) -> Nat]
    BY <1>2, <1>4 DEF CodesOfData, LengthsOf
<1>6. ss \in Seq(Seq(Bits)) /\ Len(ss) = Len(data) /\ w \in Seq(Nat) /\ Len(w) = Len(data)
    BY <1>2, <1>5, FunctionIsSeq
<1>7. ASSUME NEW i \in 1 .. Len(data)
      PROVE  ss[i] = table[data[i]] /\ w[i] = Len(table[data[i]])
    BY <1>2 DEF CodesOfData, LengthsOf
<1>8. ASSUME NEW i \in 1 .. Len(data)
      PROVE  w[i] = Len(ss[i]) /\ \E c \in code[N] : c[2] = ss[i] /\ tree.dict[c[1]] = data[i]
    BY <1>4, <1>7, ZenonT(60)
<1> HIDE DEF ss, w
<1>9. ContentIs(data, ss, w, code, tree, N)
    BY <1>6, <1>8 DEF ContentIs
<1> QED
    BY <1>9 DEF ss, w

\* The lengths of the codes, added up as EstimatedBits adds them.
AddedUp(f, w, n) == \A i \in 0 .. n : f[i] = IF i = 0 THEN 0 ELSE f[i - 1] + w[i]

LEMMA AddedUpAre ==
    ASSUME NEW w \in Seq(Nat), NEW n \in Nat, n = Len(w), NEW f, AddedUp(f, w, n)
    PROVE  f[n] = PrefixSums(w)[n]
<1> DEFINE T == {i \in Nat : i <= n => f[i] = PrefixSums(w)[i]}
<1>1. /\ PrefixSums(w)[0] = 0
      /\ \A i \in 1 .. n : PrefixSums(w)[i] = PrefixSums(w)[i - 1] + w[i]
    BY PrefixSumsNat
<1>2. 0 \in T
  <2>1. 0 \in 0 .. n
      OBVIOUS
  <2> QED
      BY <2>1, <1>1 DEF AddedUp
<1>3. ASSUME NEW i \in Nat, i \in T
      PROVE  i + 1 \in T
  <2>1. CASE i + 1 <= n
    <3>1. i + 1 \in 0 .. n /\ i + 1 \in 1 .. n /\ i <= n /\ i + 1 # 0 /\ (i + 1) - 1 = i
        BY <2>1
    <3>2. PICK k \in 1 .. n : k = i + 1 /\ k \in 0 .. n /\ k # 0 /\ k - 1 = i
        BY <3>1
    <3>3. f[k] = f[i] + w[k] /\ PrefixSums(w)[k] = PrefixSums(w)[i] + w[k]
        BY <3>2, <1>1 DEF AddedUp
    <3> QED
        BY <3>1, <3>2, <3>3, <1>3
  <2>2. CASE ~ (i + 1 <= n)
      BY <2>2
  <2> QED
      BY <2>1, <2>2
<1> HIDE DEF T
<1>4. Nat \subseteq T
    BY <1>2, <1>3, SetInduction
<1>5. n \in T
    BY <1>4
<1> QED
    BY <1>5 DEF T

LengthsEq(f, data, table) ==
    f = [i \in 0 .. Len(data) |-> IF i = 0 THEN 0 ELSE f[i - 1] + Len(table[data[i]])]

LEMMA EstimatedIs ==
    ASSUME NEW data \in Seq(Bytes), NEW tree, NEW table,
           NEW w \in Seq(Nat), w = LengthsOf(data, table), Len(w) = Len(data)
    PROVE  EstimatedBits(data, tree, table)
              = 48 + (10 * Len(tree.dict) - 1) + PrefixSums(w)[Len(data)]
<1>1. PICK n \in Nat : n = Len(data)
    OBVIOUS
<1>2. \A i \in 1 .. n : w[i] = Len(table[data[i]])
    BY <1>1 DEF LengthsOf
<1> DEFINE lengths0 == CHOOSE f :
              f = [i \in 0 .. Len(data) |-> IF i = 0 THEN 0 ELSE f[i - 1] + Len(table[data[i]])]
<1>3. EstimatedBits(data, tree, table)
         = (1 + 1 + 4) * 8 + (10 * Len(tree.dict) - 1) + lengths0[Len(data)]
    BY Zenon DEF EstimatedBits
<1>4. LengthsEq(lengths0, data, table)
  <2>1. PICK f : f = PrefixSums(w)
      OBVIOUS
  <2>2. f \in [0 .. n -> Int] /\ f[0] = 0 /\ \A i \in 1 .. n : f[i] = f[i - 1] + w[i]
      BY <1>1, <2>1, PrefixSumsDef
  <2>3. \A i \in 0 .. n : f[i] = IF i = 0 THEN 0 ELSE f[i - 1] + Len(table[data[i]])
      BY <2>2, <1>2
  <2>4. f = [i \in 0 .. n |-> IF i = 0 THEN 0 ELSE f[i - 1] + Len(table[data[i]])]
      BY <2>2, <2>3
  <2>5. f = [i \in 0 .. Len(data) |-> IF i = 0 THEN 0 ELSE f[i - 1] + Len(table[data[i]])]
      BY <2>4, <1>1
  <2>6. lengths0 = [i \in 0 .. Len(data) |->
                      IF i = 0 THEN 0 ELSE lengths0[i - 1] + Len(table[data[i]])]
      BY <2>5, Zenon
  <2> HIDE DEF lengths0
  <2> QED
      BY <2>6, Zenon DEF LengthsEq
<1> HIDE DEF lengths0
<1>5. AddedUp(lengths0, w, n)
  <2>1. \A i \in 0 .. n : lengths0[i] = IF i = 0 THEN 0 ELSE lengths0[i - 1] + Len(table[data[i]])
      BY <1>1, <1>4 DEF LengthsEq
  <2> QED
      BY <2>1, <1>2 DEF AddedUp
<1>6. lengths0[n] = PrefixSums(w)[n]
    BY <1>1, <1>5, AddedUpAre
<1>7. lengths0[Len(data)] = PrefixSums(w)[Len(data)]
    BY <1>1, <1>6
<1> QED
    BY <1>3, <1>7

LEMMA CodeBitsAre ==
    ASSUME NEW data, NEW table
    PROVE  CodeBits(data, table) = FlattenSeq(CodesOfData(data, table))
BY DEF CodeBits, CodesOfData

\* What the encoder works with for these data, and what it makes of them.
EncodedAs(data, e, tree, L, d, N, pre, node, code, ss, w) ==
    /\ TreeIs(tree, L, d, N)
    /\ PreorderIs(pre, tree, N) /\ Len(pre[N]) = 10 * d - 1
    /\ NodesAre(node, tree, N) /\ Len(node[N]) = N
    /\ CodesAre(code, tree, d, N)
    /\ ContentIs(data, ss, w, code, tree, N)
    /\ e.estimate = 48 + (10 * d - 1) + PrefixSums(w)[Len(data)]
    /\ e.bits = BitsOf(HeaderBytes(data, tree, e.estimate % 8)) \o pre[N] \o FlattenSeq(ss)

LEMMA EncodedExists ==
    ASSUME NEW data \in Seq(Bytes), data # << >>
    PROVE  \E tree, L, d, N, pre, node, code, ss, w :
              EncodedAs(data, Encoding(data), tree, L, d, N, pre, node, code, ss, w)
<1>1. PICK dict : dict = Dictionary(data)
    OBVIOUS
<1>2. /\ IsDictionary(dict)
      /\ \A i \in 1 .. Len(data) : \E j \in 1 .. Len(dict.chr) : dict.chr[j] = data[i]
    BY <1>1, DictionaryIs
<1>3. PICK d, N : d = Len(dict.chr) /\ N = 2 * Len(dict.chr) - 1
    OBVIOUS
<1>4. PICK tree : tree = TreeOf(dict)
    OBVIOUS
<1>5. tree.dict = dict.chr /\ \E L : TreeIs(tree, L, d, N)
    BY <1>2, <1>3, <1>4, TreeOfIs
<1>6. PICK L : TreeIs(tree, L, d, N)
    BY <1>5
<1>7. PICK pre : PreorderIs(pre, tree, N) /\ TreeBits(tree) = pre[N]
    BY <1>6, TreeBitsIs
<1>8. PICK node : NodesAre(node, tree, N)
    BY <1>6, NodesExist
<1>9. PICK code : CodesAre(code, tree, d, N) /\ Codes(tree) = code[N]
    BY <1>6, CodesOfIs
<1>10. Len(node[N]) = N /\ Len(pre[N]) = 10 * d - 1
  <2>1. \A n \in 1 .. N : SizedAs(Cardinality(L[n]), L[n], pre[n], node[n])
      BY <1>6, <1>7, <1>8, TreeSizes
  <2>2. d \in Nat /\ N \in 1 .. N /\ N = 2 * d - 1 /\ L[N] = 1 .. d
      BY <1>6, TreeFacts DEF TreeIs
  <2>3. Cardinality(L[N]) = d
      BY <2>2, FS_Interval
  <2>4. SizedAs(Cardinality(L[N]), L[N], pre[N], node[N])
      BY <2>1, <2>2
  <2> QED
      BY <2>2, <2>3, <2>4 DEF SizedAs
<1>11. PICK table : table = TableOf(tree)
    OBVIOUS
<1>12. PICK ss, w : ss = CodesOfData(data, table) /\ w = LengthsOf(data, table)
    OBVIOUS
<1>13. ContentIs(data, ss, w, code, tree, N)
  <2>1. \A i \in 1 .. Len(data) : \E j \in 1 .. Len(tree.dict) : tree.dict[j] = data[i]
      BY <1>2, <1>5, Zenon
  <2>2. ContentIs(data, CodesOfData(data, table), LengthsOf(data, table), code, tree, N)
      BY <2>1, <1>6, <1>9, <1>11, ContentExists
  <2> QED
      BY <2>2, <1>12, Zenon
<1>14. w \in Seq(Nat) /\ Len(w) = Len(data)
    BY <1>13 DEF ContentIs
<1>15. EstimatedBits(data, tree, table) = 48 + (10 * d - 1) + PrefixSums(w)[Len(data)]
  <2>1. EstimatedBits(data, tree, table)
           = 48 + (10 * Len(tree.dict) - 1) + PrefixSums(w)[Len(data)]
      BY <1>12, <1>14, EstimatedIs
  <2> QED
      BY <2>1, <1>3, <1>5, Zenon
<1>16. CodeBits(data, table) = FlattenSeq(ss)
    BY <1>12, CodeBitsAre, Zenon
<1>17. PICK e : e = Encoding(data)
    OBVIOUS
<1>18. /\ e.estimate = EstimatedBits(data, tree, table)
       /\ e.bits = BitsOf(HeaderBytes(data, tree, EstimatedBits(data, tree, table) % 8))
                      \o TreeBits(tree) \o CodeBits(data, table)
  <2>1. e = [table |-> table, estimate |-> EstimatedBits(data, tree, table),
             bits |-> BitsOf(HeaderBytes(data, tree, EstimatedBits(data, tree, table) % 8))
                        \o TreeBits(tree) \o CodeBits(data, table)]
      BY <1>1, <1>4, <1>11, <1>17, Zenon DEF Encoding
  <2> QED
      BY <2>1, Zenon
<1>19. e.bits = BitsOf(HeaderBytes(data, tree, e.estimate % 8)) \o pre[N] \o FlattenSeq(ss)
    BY <1>7, <1>16, <1>18, Zenon
<1>20. e.estimate = 48 + (10 * d - 1) + PrefixSums(w)[Len(data)]
    BY <1>15, <1>18, Zenon
<1>21. EncodedAs(data, e, tree, L, d, N, pre, node, code, ss, w)
    BY <1>6, <1>7, <1>8, <1>9, <1>10, <1>13, <1>19, <1>20, Zenon DEF EncodedAs
<1> QED
    BY <1>17, <1>21, Zenon

\* What the six bytes of the header say.
HeaderSays(h, d, p, n) ==
    /\ h \in Seq(Bytes) /\ Len(h) = 6
    /\ h[1] = 128 + p /\ h[2] = d - 1
    /\ h[3] = (n \div 16777216) % 256 /\ h[4] = (n \div 65536) % 256
    /\ h[5] = (n \div 256) % 256 /\ h[6] = n % 256

LEMMA HeaderIs ==
    ASSUME NEW data \in Seq(Bytes), NEW tree, NEW d \in 2 .. 256, Len(tree.dict) = d,
           NEW p \in 0 .. 7
    PROVE  HeaderSays(HeaderBytes(data, tree, p), d, p, Len(data))
<1>1. PICK n \in Nat : n = Len(data)
    OBVIOUS
<1>2. PICK a, b, c, e, f, g : /\ a = 128 + p /\ b = d - 1
                              /\ c = (n \div 16777216) % 256 /\ e = (n \div 65536) % 256
                              /\ f = (n \div 256) % 256 /\ g = n % 256
    OBVIOUS
<1>n. n \in Nat
    BY <1>1
<1>3. a \in Bytes /\ b \in Bytes
    BY <1>2 DEF Bytes
<1>4. c \in Bytes /\ e \in Bytes /\ f \in Bytes /\ g \in Bytes
    BY <1>2, <1>n DEF Bytes
<1>5. PICK h : h = <<a, b, c, e, f, g>>
    OBVIOUS
<1>6. h \in Seq(Bytes) /\ Len(h) = 6
    BY <1>3, <1>4, <1>5
<1>7. h[1] = a /\ h[2] = b /\ h[3] = c /\ h[4] = e /\ h[5] = f /\ h[6] = g
    BY <1>5
<1>8. HeaderBytes(data, tree, p) = h
  <2>1. 2^24 = 16777216 /\ 2^16 = 65536 /\ 2^8 = 256
      BY SMT
  <2>2. HeaderBytes(data, tree, p)
          = <<128 + p, d - 1, (n \div 2^24) % 256, (n \div 2^16) % 256, (n \div 2^8) % 256, n % 256>>
      BY <1>1, ZenonT(60) DEF HeaderBytes, COMPRESSED_FLAG
  <2> QED
      BY <2>1, <2>2, <1>2, <1>5, SMT
<1>9. HeaderSays(h, d, p, n)
    BY <1>2, <1>6, <1>7 DEF HeaderSays
<1> QED
    BY <1>1, <1>8, <1>9, Zenon

\* The three parts of what is written, each where the decoder looks for it.
LEMMA EncodedBitsAre ==
    ASSUME NEW data \in Seq(Bytes), NEW e, NEW tree, NEW L, NEW d, NEW N, NEW pre, NEW node,
           NEW code, NEW ss, NEW w,
           EncodedAs(data, e, tree, L, d, N, pre, node, code, ss, w)
    PROVE  /\ e.estimate \in Nat /\ e.bits \in Seq(Bits) /\ Len(e.bits) = e.estimate
           /\ StandsAt(e.bits, 0, BitsOf(HeaderBytes(data, tree, e.estimate % 8)))
           /\ StandsAt(e.bits, 48, pre[N])
           /\ \A i \in 1 .. Len(data) :
                 StandsAt(e.bits, 48 + (10 * d - 1) + PrefixSums(w)[i - 1], ss[i])
<1>1. /\ TreeIs(tree, L, d, N)
      /\ PreorderIs(pre, tree, N) /\ Len(pre[N]) = 10 * d - 1
      /\ ContentIs(data, ss, w, code, tree, N)
      /\ e.estimate = 48 + (10 * d - 1) + PrefixSums(w)[Len(data)]
      /\ e.bits = BitsOf(HeaderBytes(data, tree, e.estimate % 8)) \o pre[N] \o FlattenSeq(ss)
    BY DEF EncodedAs
<1>2. d \in 2 .. 256 /\ Len(tree.dict) = d /\ N \in 1 .. N
    BY <1>1, TreeFacts DEF TreeIs
<1>3. /\ ss \in Seq(Seq(Bits)) /\ w \in Seq(Nat) /\ Len(ss) = Len(data) /\ Len(w) = Len(data)
      /\ \A i \in 1 .. Len(data) : w[i] = Len(ss[i])
    BY <1>1 DEF ContentIs
<1>4. PICK n \in Nat : n = Len(data)
    OBVIOUS
<1>5. /\ \A i \in 0 .. n : PrefixSums(w)[i] \in Nat
    BY <1>3, <1>4, PrefixSumsNat
<1>6. PICK sum \in Nat : sum = PrefixSums(w)[n]
    BY <1>5
<1>7. PICK m \in Nat : m = 10 * d - 1
    BY <1>2
<1>8. e.estimate = 48 + m + sum
    BY <1>1, <1>4, <1>6, <1>7
<1>9. e.estimate \in Nat /\ e.estimate % 8 \in 0 .. 7
    BY <1>8
<1>10. PICK h : h = HeaderBytes(data, tree, e.estimate % 8)
    OBVIOUS
<1>11. h \in Seq(Bytes) /\ Len(h) = 6
  <2>1. PICK p \in 0 .. 7 : p = e.estimate % 8
      BY <1>9
  <2>2. HeaderSays(HeaderBytes(data, tree, p), d, p, Len(data))
    <3>1. data \in Seq(Bytes) /\ d \in 2 .. 256 /\ Len(tree.dict) = d /\ p \in 0 .. 7
        BY <1>2
    <3> QED
        BY <3>1, HeaderIs, Zenon
  <2>3. h = HeaderBytes(data, tree, p)
      BY <2>1, <1>10, Zenon
  <2> QED
      BY <2>2, <2>3 DEF HeaderSays
<1>12. BitsOf(h) \in Seq(Bits) /\ Len(BitsOf(h)) = 48
  <2>1. BitsOf(h) \in Seq(Bits) /\ Len(BitsOf(h)) = 8 * Len(h)
      BY <1>11, BitsOfIs
  <2> QED
      BY <2>1, <1>11
<1>13. pre[N] \in Seq(Bits) /\ Len(pre[N]) = m
    BY <1>1, <1>2, <1>7 DEF PreorderIs
<1>14. PICK cs : cs = FlattenSeq(ss)
    OBVIOUS
<1>15. /\ cs \in Seq(Bits) /\ Len(cs) = sum
       /\ \A i \in 1 .. n : StandsAt(cs, PrefixSums(w)[i - 1], ss[i])
    BY <1>3, <1>4, <1>6, <1>14, FlattenSeqStands
<1>16. PICK b, a : b = e.bits /\ a = BitsOf(h)
    OBVIOUS
<1>17. b = a \o pre[N] \o cs
    BY <1>1, <1>10, <1>14, <1>16, Zenon
<1>18. a \in Seq(Bits) /\ Len(a) = 48
    BY <1>12, <1>16
<1>19. /\ b \in Seq(Bits) /\ Len(b) = 48 + m + sum
       /\ StandsAt(b, 0, a) /\ StandsAt(b, 48, pre[N]) /\ StandsAt(b, 48 + m, cs)
  <2>0. PICK q : q = pre[N] /\ q \in Seq(Bits)
      BY <1>13
  <2>2. a \in Seq(Bits) /\ cs \in Seq(Bits)
      BY <1>15, <1>18
  <2>3. /\ a \o q \o cs \in Seq(Bits) /\ Len(a \o q \o cs) = Len(a) + Len(q) + Len(cs)
        /\ StandsAt(a \o q \o cs, 0, a) /\ StandsAt(a \o q \o cs, Len(a), q)
        /\ StandsAt(a \o q \o cs, Len(a) + Len(q), cs)
      BY <2>0, <2>2, StandsThree
  <2>1. /\ a \o pre[N] \o cs \in Seq(Bits)
        /\ Len(a \o pre[N] \o cs) = Len(a) + Len(pre[N]) + Len(cs)
        /\ StandsAt(a \o pre[N] \o cs, 0, a) /\ StandsAt(a \o pre[N] \o cs, Len(a), pre[N])
        /\ StandsAt(a \o pre[N] \o cs, Len(a) + Len(pre[N]), cs)
      BY <2>0, <2>3, Zenon
  <2> QED
      BY <2>1, <1>13, <1>15, <1>17, <1>18, Zenon
<1>20. ASSUME NEW i \in 1 .. n
       PROVE  StandsAt(b, 48 + m + PrefixSums(w)[i - 1], ss[i])
  <2>1. i - 1 \in 0 .. n
      OBVIOUS
  <2>2. PrefixSums(w)[i - 1] \in Nat /\ 48 + m \in Nat
      BY <2>1, <1>5
  <2>3. ss[i] \in Seq(Bits)
      BY <1>3, <1>4
  <2>4. StandsAt(cs, PrefixSums(w)[i - 1], ss[i]) /\ StandsAt(b, 48 + m, cs)
      BY <1>15, <1>19
  <2> QED
      BY <2>2, <2>3, <2>4, <1>15, <1>19, StandsWithin, Zenon
<1>21. Len(e.bits) = e.estimate /\ e.bits \in Seq(Bits)
    BY <1>8, <1>16, <1>19
<1>22. StandsAt(e.bits, 0, BitsOf(HeaderBytes(data, tree, e.estimate % 8)))
       /\ StandsAt(e.bits, 48, pre[N])
    BY <1>10, <1>16, <1>19, Zenon
<1>23. \A i \in 1 .. Len(data) :
          StandsAt(e.bits, 48 + (10 * d - 1) + PrefixSums(w)[i - 1], ss[i])
    BY <1>4, <1>7, <1>16, <1>20, Zenon
<1> QED
    BY <1>9, <1>21, <1>22, <1>23, Zenon

-----------------------------------------------------------------------------
(* The whole way and back. *)

\* x bits take size bytes, p of the bits in the last one.
Padded(x, p, size) ==
    /\ p \in 0 .. 7 /\ size \in Nat /\ (128 + p) % 64 = p
    /\ LastBit(size, p) = x /\ CompressedSize(x) = size

LEMMA PaddingIs ==
    ASSUME NEW x \in Nat, NEW p, p = x % 8, NEW size, size = (x + 7) \div 8
    PROVE  Padded(x, p, size)
<1>1. p \in 0 .. 7 /\ size \in Nat
    OBVIOUS
<1>2. (128 + p) % 64 = p
    BY <1>1
<1>3. p = 0 => 8 * size = x /\ size = x \div 8
    OBVIOUS
<1>4. p # 0 => 8 * (size - 1) + p = x /\ size = x \div 8 + 1
    OBVIOUS
<1>5. LastBit(size, p) = x
    BY <1>3, <1>4 DEF LastBit
<1>6. CompressedSize(x) = size
  <2>1. CompressedSize(x) = x \div 8 + (IF p # 0 THEN 1 ELSE 0)
      BY DEF CompressedSize
  <2> QED
      BY <2>1, <1>3, <1>4
<1> QED
    BY <1>1, <1>2, <1>5, <1>6 DEF Padded

LEMMA SizeComesBack ==
    ASSUME NEW n \in Nat, n < 4294967296
    PROVE  ((n \div 16777216) % 256) * 16777216 + ((n \div 65536) % 256) * 65536
             + ((n \div 256) % 256) * 256 + (n % 256) = n
BY SMT

\* The compressed bytes, and their bits as the decoder reads them.
WrittenAs(bytes, data, e, d, N, pre, ss, w, p) ==
    /\ bytes \in Seq(Bytes) /\ Len(bytes) = (e.estimate + 7) \div 8 /\ e.estimate \in Nat
    /\ Len(bytes) >= 6
    /\ \E h : HeaderSays(h, d, p, Len(data)) /\ \A k \in 1 .. 6 : bytes[k] = h[k]
    /\ BitsOf(bytes) \in Seq(Bits) /\ StandsAt(BitsOf(bytes), 48, pre[N])
    /\ \A i \in 1 .. Len(data) :
          StandsAt(BitsOf(bytes), 48 + (10 * d - 1) + PrefixSums(w)[i - 1], ss[i])

LEMMA WrittenIs ==
    ASSUME NEW data \in Seq(Bytes), NEW e, NEW tree, NEW L, NEW d, NEW N, NEW pre, NEW node,
           NEW code, NEW ss, NEW w,
           EncodedAs(data, e, tree, L, d, N, pre, node, code, ss, w),
           NEW bytes, bytes = BytesOf(e.bits), NEW p, p = e.estimate % 8
    PROVE  WrittenAs(bytes, data, e, d, N, pre, ss, w, p)
<1>1. /\ e.estimate \in Nat /\ e.bits \in Seq(Bits) /\ Len(e.bits) = e.estimate
      /\ StandsAt(e.bits, 0, BitsOf(HeaderBytes(data, tree, e.estimate % 8)))
      /\ StandsAt(e.bits, 48, pre[N])
      /\ \A i \in 1 .. Len(data) :
            StandsAt(e.bits, 48 + (10 * d - 1) + PrefixSums(w)[i - 1], ss[i])
    BY EncodedBitsAre
<1>2. /\ TreeIs(tree, L, d, N) /\ PreorderIs(pre, tree, N)
      /\ ContentIs(data, ss, w, code, tree, N)
    BY DEF EncodedAs
<1>3. d \in 2 .. 256 /\ Len(tree.dict) = d /\ N \in 1 .. N /\ p \in 0 .. 7
  <2>1. d \in 2 .. 256 /\ Len(tree.dict) = d /\ N \in 1 .. N
      BY <1>2, TreeFacts, Zenon DEF TreeIs
  <2>2. p \in 0 .. 7
      BY <1>1, SMTT(30)
  <2> QED
      BY <2>1, <2>2
<1>4. pre[N] \in Seq(Bits)
    BY <1>2, <1>3 DEF PreorderIs
<1>5. PICK n \in Nat : n = Len(data)
    OBVIOUS
<1>6. /\ ss \in Seq(Seq(Bits)) /\ w \in Seq(Nat) /\ Len(ss) = n /\ Len(w) = n
    BY <1>2, <1>5 DEF ContentIs
<1>7. PICK b, x : b = e.bits /\ x = e.estimate
    OBVIOUS
<1>8. b \in Seq(Bits) /\ x \in Nat /\ Len(b) = x
    BY <1>1, <1>7
<1>9. bytes \in Seq(Bytes) /\ Len(bytes) = (x + 7) \div 8
    BY <1>7, <1>8, BytesOfIs, SMTT(30)
<1>10. PICK h : h = HeaderBytes(data, tree, p)
    OBVIOUS
<1>11. HeaderSays(h, d, p, Len(data))
  <2>1. HeaderSays(HeaderBytes(data, tree, p), d, p, Len(data))
      BY <1>3, HeaderIs
  <2> QED
      BY <2>1, <1>10, Zenon
<1>12. h \in Seq(Bytes) /\ Len(h) = 6
    BY <1>11 DEF HeaderSays
<1>13. StandsAt(b, 0, BitsOf(h))
    BY <1>1, <1>7, <1>10, Zenon
<1>14. /\ BitsOf(h) \in Seq(Bits)
       /\ \A k \in 1 .. 6 : StandsAt(BitsOf(h), 8 * k - 8, BitsOfByte(h[k]))
    BY <1>12, BitsOfIs
<1>15. ASSUME NEW k \in 1 .. 6 PROVE bytes[k] = h[k] /\ k \in 1 .. Len(bytes)
  <2>1. h[k] \in Bytes
    <3>1. k \in 1 .. Len(h) /\ h \in Seq(Bytes)
        BY <1>12
    <3> QED
        BY <3>1, SeqElement, Zenon
  <2>2. PICK c \in Bytes : c = h[k]
      BY <2>1
  <2>3. PICK z \in Nat : z = 8 * k - 8
      OBVIOUS
  <2>4. PICK y : y = BitsOfByte(c) /\ y \in Seq(Bits)
      BY BitsOfByteIs
  <2>5. StandsAt(BitsOf(h), z, y)
      BY <1>14, <2>2, <2>3, <2>4, Zenon
  <2>6. StandsAt(b, 0 + z, y)
      BY <2>5, <2>4, <1>8, <1>13, <1>14, StandsWithin
  <2>7. 0 + z = 8 * k - 8
      BY <2>3
  <2>8. StandsAt(b, 8 * k - 8, BitsOfByte(c))
      BY <2>4, <2>6, <2>7, Zenon
  <2>9. k \in Nat \ {0}
      OBVIOUS
  <2>10. k \in 1 .. Len(BytesOf(b)) /\ BytesOf(b)[k] = c
      BY <2>8, <2>9, <1>8, ByteComesBack
  <2> QED
      BY <2>2, <2>10, <1>7, Zenon
<1>16. Len(bytes) >= 6
  <2>1. 6 \in 1 .. 6
      OBVIOUS
  <2>2. 6 \in 1 .. Len(bytes)
      BY <2>1, <1>15, Zenon
  <2> QED
      BY <2>2, <1>9
<1>17. PICK c : c = BitsOf(bytes)
    OBVIOUS
<1>18. c \in Seq(Bits) /\ StandsAt(c, 0, b)
  <2>1. BitsOf(BytesOf(b)) \in Seq(Bits) /\ StandsAt(BitsOf(BytesOf(b)), 0, b)
      BY <1>8, BitsComeBack
  <2> QED
      BY <2>1, <1>7, <1>17, Zenon
<1>19. ASSUME NEW q \in Nat, NEW y \in Seq(Bits), StandsAt(b, q, y)
       PROVE  StandsAt(c, q, y)
  <2>1. StandsAt(c, 0 + q, y)
      BY <1>8, <1>18, <1>19, StandsWithin
  <2>2. 0 + q = q
      OBVIOUS
  <2> QED
      BY <2>1, <2>2, Zenon
<1>20. StandsAt(c, 48, pre[N])
  <2>1. 48 \in Nat /\ StandsAt(b, 48, pre[N])
      BY <1>1, <1>7
  <2> QED
      BY <2>1, <1>4, <1>19, Zenon
<1>21. ASSUME NEW i \in 1 .. n
       PROVE  StandsAt(c, 48 + (10 * d - 1) + PrefixSums(w)[i - 1], ss[i])
  <2>1. i - 1 \in 0 .. n
      OBVIOUS
  <2>2. PrefixSums(w)[i - 1] \in Nat
      BY <2>1, <1>6, PrefixSumsNat
  <2>3. 48 + (10 * d - 1) + PrefixSums(w)[i - 1] \in Nat
      BY <2>2, <1>3
  <2>4. ss[i] \in Seq(Bits)
      BY <1>6
  <2>5. StandsAt(b, 48 + (10 * d - 1) + PrefixSums(w)[i - 1], ss[i])
      BY <1>1, <1>5, <1>7
  <2> QED
      BY <2>3, <2>4, <2>5, <1>19, Zenon
<1>22. Len(bytes) = (e.estimate + 7) \div 8
    BY <1>7, <1>9, Zenon
<1>23. \E g : HeaderSays(g, d, p, Len(data)) /\ \A k \in 1 .. 6 : bytes[k] = g[k]
    BY <1>11, <1>15
<1>24. \A i \in 1 .. Len(data) :
          StandsAt(c, 48 + (10 * d - 1) + PrefixSums(w)[i - 1], ss[i])
    BY <1>5, <1>21
<1> QED
    BY <1>1, <1>9, <1>16, <1>17, <1>18, <1>20, <1>22, <1>23, <1>24, Zenon DEF WrittenAs

LEMMA DecodesBack ==
    ASSUME NEW data \in Seq(Bytes), NEW e, NEW tree, NEW L, NEW d, NEW N, NEW pre, NEW node,
           NEW code, NEW ss, NEW w,
           EncodedAs(data, e, tree, L, d, N, pre, node, code, ss, w),
           NEW bits \in Seq(Bits), StandsAt(bits, 48, pre[N]),
           \A i \in 1 .. Len(data) :
              StandsAt(bits, 48 + (10 * d - 1) + PrefixSums(w)[i - 1], ss[i])
    PROVE  DecodeBits(bits, ReadTree(bits, d), e.estimate) = data
<1>1. /\ TreeIs(tree, L, d, N) /\ PreorderIs(pre, tree, N) /\ Len(pre[N]) = 10 * d - 1
      /\ NodesAre(node, tree, N) /\ Len(node[N]) = N
      /\ CodesAre(code, tree, d, N)
      /\ ContentIs(data, ss, w, code, tree, N)
      /\ e.estimate = 48 + (10 * d - 1) + PrefixSums(w)[Len(data)]
    BY DEF EncodedAs
<1>2. d \in 2 .. 256
    BY <1>1 DEF TreeIs
<1>3. PICK n \in Nat : n = Len(data)
    OBVIOUS
<1>4. w \in Seq(Nat) /\ Len(w) = n
    BY <1>1, <1>3 DEF ContentIs
<1>5. PICK sum \in Nat : sum = PrefixSums(w)[n]
  <2>1. n \in 0 .. n
      OBVIOUS
  <2> QED
      BY <2>1, <1>4, PrefixSumsNat
<1>6. PICK begin : begin = 49 + (10 * d - 1)
    OBVIOUS
<1>7. begin \in Nat \ {0} /\ begin - 1 = 48 + (10 * d - 1)
    BY <1>2, <1>6
<1>8. PICK last : last = 48 + (10 * d - 1) + sum
    OBVIOUS
<1>9. last \in Nat /\ begin <= last + 1 /\ begin + sum = last + 1
    BY <1>2, <1>6, <1>8
<1>10. last = e.estimate
    BY <1>1, <1>3, <1>5, <1>8, Zenon
<1>11. PICK t : t = ReadTree(bits, d)
    OBVIOUS
<1>12. ReadsAs(t, tree, d, N, node) /\ t.end = begin
  <2>1. ReadsAs(ReadTree(bits, d), tree, d, N, node) /\ ReadTree(bits, d).end = 49 + Len(pre[N])
      BY <1>1, ReadTreeIs
  <2> QED
      BY <2>1, <1>1, <1>6, <1>11, Zenon
<1>13. ReadableTree(t, N, begin, last)
    BY <1>1, <1>7, <1>9, <1>12, TreeIsReadable
<1>14. PICK walk, from : /\ WalkEq(walk, t, bits, last) /\ FromEq(from, walk, t, last)
                         /\ DecodeBits(bits, t, last) = from[begin]
    BY <1>13, DecodeBitsIs
<1>15. CodesStand(bits, begin, ss, w, data)
    BY <1>7, Zenon DEF CodesStand
<1>16. begin + PrefixSums(w)[Len(data)] = last + 1
    BY <1>3, <1>5, <1>9, Zenon
<1>17. from[begin] = data
  <2>1. ReadsContent(tree, L, d, N, node, code, t, begin, last, bits, walk, from, data, ss, w)
      BY <1>1, <1>12, <1>13, <1>14, <1>15, <1>16, Zenon DEF ReadsContent
  <2> QED
      BY <2>1, ContentRead, Zenon
<1> QED
    BY <1>10, <1>11, <1>14, <1>17, Zenon

LEMMA CutAt ==
    ASSUME NEW S, NEW s \in Seq(S), NEW z, z \in Seq(S), NEW n, n = Len(s)
    PROVE  SubSeq(s \o z, 1, n) = s
<1>1. s \o z \in Seq(S) /\ StandsAt(s \o z, 0, s)
    BY StandsParts
<1>2. SubSeq(s \o z, 0 + 1, 0 + Len(s)) = s
    BY <1>1, StandsIs, 0 \in Nat
<1>3. 0 + 1 = 1 /\ 0 + Len(s) = n
    OBVIOUS
<1> QED
    BY <1>2, <1>3, Zenon

LEMMA ZerosAre ==
    ASSUME NEW n \in Nat
    PROVE  [i \in 1 .. n |-> 0] \in Seq(Bytes)
<1>1. [i \in 1 .. n |-> 0] \in [1 .. n -> Bytes]
    BY DEF Bytes
<1> QED
    BY <1>1, FunctionIsSeq

\* The code counts the data and the frequencies of their bytes in ints, and reads
\* the size in the header back as one, which is negative from here on
\* (huffman_encoding.c:50, 91, 196, 269, 333-337): Huffman says nothing about more.
SizeLimit == 2147483648

\* The size the encoder computes before it writes is the number of the bits it
\* writes: the buffer it allocates is never too small and none of it is left.
THEOREM EstimateIsExact ==
    ASSUME NEW data \in Seq(Bytes), data # << >>, Len(data) < SizeLimit
    PROVE  /\ Encoding(data).estimate \in Nat /\ Encoding(data).bits \in Seq(Bits)
           /\ Len(Encoding(data).bits) = Encoding(data).estimate
           /\ Len(BytesOf(Encoding(data).bits)) = CompressedSize(Encoding(data).estimate)
<1>1. PICK e : e = Encoding(data)
    OBVIOUS
<1>2. PICK tree, L, d, N, pre, node, code, ss, w :
         EncodedAs(data, e, tree, L, d, N, pre, node, code, ss, w)
    BY <1>1, EncodedExists, Zenon
<1>3. e.estimate \in Nat /\ e.bits \in Seq(Bits) /\ Len(e.bits) = e.estimate
    BY <1>2, EncodedBitsAre
<1>4. PICK x \in Nat, b \in Seq(Bits) : x = e.estimate /\ b = e.bits /\ Len(b) = x
    BY <1>3
<1>5. Len(BytesOf(b)) = (Len(b) + 7) \div 8
    BY BytesOfIs
<1>6. PICK size : size = (x + 7) \div 8
    OBVIOUS
<1>7. CompressedSize(x) = size
  <2>1. Padded(x, x % 8, size)
      BY <1>6, PaddingIs, Zenon
  <2> QED
      BY <2>1 DEF Padded
<1>8. Len(BytesOf(b)) = CompressedSize(x)
    BY <1>4, <1>5, <1>6, <1>7, Zenon
<1> QED
    BY <1>1, <1>3, <1>4, <1>8, Zenon

\* Data that do not get smaller are sent behind a byte that says so.
LEMMA PlainComesBack ==
    ASSUME NEW data \in Seq(Bytes), NEW bytes, bytes = <<NOT_COMPRESSED_FLAG>> \o data
    PROVE  /\ bytes \in Seq(Bytes) /\ Len(bytes) = Len(data) + 1
           /\ decompress_data(bytes) = data
<1>1. 0 \in Bytes
    BY DEF Bytes
<1>2. bytes = << 0 >> \o data
    BY DEF NOT_COMPRESSED_FLAG
<1>3. bytes \in Seq(Bytes) /\ Len(bytes) = Len(data) + 1 /\ bytes[1] = 0 /\ bytes # << >>
    BY <1>1, <1>2
<1>4. Tail(bytes) = data
    BY <1>1, <1>2
<1>5. bytes[1] < COMPRESSED_FLAG
    BY <1>3 DEF COMPRESSED_FLAG
<1>6. decompress_data(bytes) = Tail(bytes)
    BY <1>3, <1>5, Zenon DEF decompress_data
<1> QED
    BY <1>3, <1>4, <1>6

LEMMA SizeRead ==
    ASSUME NEW h, NEW d, NEW p, NEW n \in Nat, n < SizeLimit, HeaderSays(h, d, p, n),
           NEW bytes, \A k \in 1 .. 6 : bytes[k] = h[k]
    PROVE  bytes[3] * 2^24 + bytes[4] * 2^16 + bytes[5] * 2^8 + bytes[6] = n
<1>1. bytes[3] = h[3] /\ bytes[4] = h[4] /\ bytes[5] = h[5] /\ bytes[6] = h[6]
    OBVIOUS
<1>2. PICK a, b, c, z : /\ a = (n \div 16777216) % 256 /\ b = (n \div 65536) % 256
                        /\ c = (n \div 256) % 256 /\ z = n % 256
    OBVIOUS
<1>3. bytes[3] = a /\ bytes[4] = b /\ bytes[5] = c /\ bytes[6] = z
    BY <1>1, <1>2, SMT DEF HeaderSays
<1>4. a * 16777216 + b * 65536 + c * 256 + z = n
    BY <1>2, SizeComesBack, SMT DEF SizeLimit
<1> QED
    BY <1>3, <1>4, SMT

LEMMA PackedComesBack ==
    ASSUME NEW data \in Seq(Bytes), data # << >>, Len(data) < SizeLimit,
           NEW bytes, bytes = BytesOf(Encoding(data).bits)
    PROVE  /\ bytes \in Seq(Bytes) /\ Len(bytes) \in Nat /\ Len(bytes) >= 6
           /\ Len(bytes) = CompressedSize(Encoding(data).estimate)
           /\ decompress_data(bytes) = data
<1>1. PICK e : e = Encoding(data)
    OBVIOUS
<1>2. PICK tree, L, d, N, pre, node, code, ss, w :
         EncodedAs(data, e, tree, L, d, N, pre, node, code, ss, w)
    BY <1>1, EncodedExists, Zenon
<1>3. PICK p : p = e.estimate % 8
    OBVIOUS
<1>4. bytes = BytesOf(e.bits)
    BY <1>1
<1>5. /\ bytes \in Seq(Bytes) /\ Len(bytes) = (e.estimate + 7) \div 8 /\ e.estimate \in Nat
      /\ Len(bytes) >= 6
      /\ \E h : HeaderSays(h, d, p, Len(data)) /\ \A k \in 1 .. 6 : bytes[k] = h[k]
      /\ BitsOf(bytes) \in Seq(Bits) /\ StandsAt(BitsOf(bytes), 48, pre[N])
      /\ \A i \in 1 .. Len(data) :
            StandsAt(BitsOf(bytes), 48 + (10 * d - 1) + PrefixSums(w)[i - 1], ss[i])
  <2>1. WrittenAs(bytes, data, e, d, N, pre, ss, w, p)
      BY <1>2, <1>3, <1>4, WrittenIs, Zenon
  <2> QED
      BY <2>1 DEF WrittenAs
<1>6. PICK h : HeaderSays(h, d, p, Len(data)) /\ \A k \in 1 .. 6 : bytes[k] = h[k]
    BY <1>5
<1>7. PICK bits : bits = BitsOf(bytes)
    OBVIOUS
<1>8. /\ bits \in Seq(Bits) /\ StandsAt(bits, 48, pre[N])
      /\ \A i \in 1 .. Len(data) :
            StandsAt(bits, 48 + (10 * d - 1) + PrefixSums(w)[i - 1], ss[i])
    BY <1>5, <1>7, Zenon
<1>9. DecodeBits(bits, ReadTree(bits, d), e.estimate) = data
    BY <1>2, <1>8, DecodesBack
<1>10. PICK size : size = Len(bytes) /\ size \in Nat
    BY <1>5
<1>11. PICK x \in Nat : x = e.estimate
    BY <1>5
<1>12. p = x % 8 /\ size = (x + 7) \div 8
    BY <1>3, <1>5, <1>10, <1>11, Zenon
<1>13. p \in 0 .. 7 /\ (128 + p) % 64 = p /\ LastBit(size, p) = x /\ CompressedSize(x) = size
  <2>1. Padded(x, p, size)
      BY <1>12, PaddingIs, Zenon
  <2> QED
      BY <2>1 DEF Padded
<1>14. d \in 2 .. 256
    BY <1>2 DEF EncodedAs, TreeIs
<1>15. bytes[1] = 128 + p /\ bytes[2] = d - 1
    BY <1>6 DEF HeaderSays
<1>16. bytes[2] + 1 = d /\ bytes[1] % 64 = p /\ ~ (bytes[1] < 128)
    BY <1>13, <1>14, <1>15
<1>17. PICK n \in Nat : n = Len(data) /\ n < SizeLimit
    OBVIOUS
<1>18. bytes[3] * 2^24 + bytes[4] * 2^16 + bytes[5] * 2^8 + bytes[6] = n
    BY <1>6, <1>17, SizeRead
<1>19. DecodeBits(bits, ReadTree(bits, bytes[2] + 1), LastBit(Len(bytes), bytes[1] % 64)) = data
    BY <1>9, <1>10, <1>11, <1>13, <1>16, Zenon
<1>20. bytes # << >>
    BY <1>5
<1>21. ~ (bytes[1] < COMPRESSED_FLAG)
    BY <1>16 DEF COMPRESSED_FLAG
<1>22. decompress_data(bytes) = SubSeq(data \o [i \in 1 .. n |-> 0], 1, n)
  <2> DEFINE originalSize == bytes[3] * 2^24 + bytes[4] * 2^16 + bytes[5] * 2^8 + bytes[6]
             out == DecodeBits(BitsOf(bytes), ReadTree(BitsOf(bytes), bytes[2] + 1),
                               LastBit(Len(bytes), bytes[1] % 64))
  <2>1. decompress_data(bytes)
           = SubSeq(out \o [i \in 1 .. originalSize |-> 0], 1, originalSize)
      BY <1>20, <1>21, Zenon DEF decompress_data
  <2>2. originalSize = n
      BY <1>18
  <2>3. out = data
      BY <1>7, <1>19, Zenon
  <2> HIDE DEF originalSize, out
  <2> QED
      BY <2>1, <2>2, <2>3
<1>23. SubSeq(data \o [i \in 1 .. n |-> 0], 1, n) = data
    BY <1>17, ZerosAre, CutAt
<1>24. CompressedSize(Encoding(data).estimate) = Len(bytes)
    BY <1>1, <1>10, <1>11, <1>13, Zenon
<1> QED
    BY <1>5, <1>10, <1>22, <1>23, <1>24

\* compress_data never makes the data more than one byte longer, and
\* decompress_data gives them back, for data whose size is an int.
THEOREM CompressionIsLossless ==
    ASSUME NEW data \in Seq(Bytes), data # << >>, Len(data) < SizeLimit
    PROVE  /\ compress_data(data) \in Seq(Bytes)
           /\ Len(compress_data(data)) \in 1 .. Len(data) + 1
           /\ decompress_data(compress_data(data)) = data
<1>1. PICK n \in Nat : n = Len(data)
    OBVIOUS
<1>2. PICK size : size = CompressedSize(Encoding(data).estimate)
    OBVIOUS
<1>3. CASE size > n
  <2>1. PICK bytes : bytes = <<NOT_COMPRESSED_FLAG>> \o data
      OBVIOUS
  <2>2. compress_data(data) = bytes
      BY <1>1, <1>2, <1>3, <2>1, Zenon DEF compress_data
  <2>3. bytes \in Seq(Bytes) /\ Len(bytes) = n + 1 /\ decompress_data(bytes) = data
      BY <1>1, <2>1, PlainComesBack
  <2> QED
      BY <1>1, <2>2, <2>3
<1>4. CASE ~ (size > n)
  <2>1. PICK bytes : bytes = BytesOf(Encoding(data).bits)
      OBVIOUS
  <2>2. compress_data(data) = bytes
      BY <1>1, <1>2, <1>4, <2>1, Zenon DEF compress_data
  <2>3. /\ bytes \in Seq(Bytes) /\ Len(bytes) \in Nat /\ Len(bytes) >= 6 /\ Len(bytes) = size
        /\ decompress_data(bytes) = data
      BY <1>2, <2>1, PackedComesBack
  <2>4. Len(bytes) \in 1 .. n + 1
      BY <2>3, <1>4
  <2> QED
      BY <1>1, <2>2, <2>3, <2>4
<1> QED
    BY <1>3, <1>4
=============================================================================
