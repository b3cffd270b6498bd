--------------------------- MODULE MessagesProofs ---------------------------
(***************************************************************************)
(* However the calls on the socket are cut, for any messages and any size  *)
(* of its buffer, readMessage takes exactly the messages writeMessage put  *)
(* in.  The stream is the packets one after the other (Streamed); the      *)
(* writer is in one of them (Writing), and the reader in one of them, at   *)
(* the place its state says (Reading).                                     *)
(*                                                                         *)
(* That the bytes of a message are the message again is proved of the      *)
(* layout; that compression loses nothing is proved in HuffmanProofs.      *)
(***************************************************************************)
EXTENDS Messages, HuffmanProofs

\* The part of the transfer that is no call on the socket: what a message is on
\* the wire, and that the message comes back out of it.
CodecWorks ==
    \A c \in BOOLEAN, m \in Message :
        /\ Wire(c, m) \in Seq(Bytes) /\ Len(Wire(c, m)) \in 1 .. MaxNumber
        /\ Returned(c, Wire(c, m)) = m

\* The packet of m is in the stream s, after its first "at" bytes.
PacketIn(s, at, c, m) ==
    /\ at + SizeSize + Len(Wire(c, m)) <= Len(s)
    /\ At(s, at, SizeSize) = Field(SizeSize, Len(Wire(c, m)))
    /\ At(s, at + SizeSize, Len(Wire(c, m))) = Wire(c, m)

Streamed ==
    /\ Len(stream) = PacketStart(started)
    /\ \A n \in 1 .. started : PacketIn(stream, PacketStart(n - 1), compress, script[n])

Writing ==
    /\ written <= Len(stream)
    /\ wpc = "idle" => written = Len(stream)
    /\ wpc = "writing" => written < Len(stream) /\ wstart + SizeSize <= Len(stream)

Reading ==
    /\ Len(received) <= started /\ base = PacketStart(Len(received))
    /\ base <= taken /\ taken <= written
    /\ rpc = "size" => taken < base + SizeSize
    /\ rpc = "body" =>
          /\ Len(received) < started
          /\ msgSize = Len(Wire(compress, script[Len(received) + 1]))
          /\ base + SizeSize <= taken /\ taken < base + SizeSize + msgSize

Ended == rpc = "eof" => "writer" \in gone /\ EndAfterLastMessage

MInv == TypeOK /\ Streamed /\ Writing /\ Reading /\ Ended

-----------------------------------------------------------------------------
(* Numbers in memory. *)

LEMMA MaxNumberIs == MaxNumber \in Nat
BY SMT DEF MaxNumber

LEMMA FieldType ==
    ASSUME NEW width \in Nat, NEW n \in Nat
    PROVE  Field(width, n) \in Seq(Bytes) /\ Len(Field(width, n)) = width
<1>1. PICK f : f = Field(width, n)
    OBVIOUS
<1>2. f = [i \in 1 .. width |-> IF i > 4 THEN 0 ELSE (n \div 256^(i - 1)) % 256]
    BY <1>1 DEF Field
<1>3. /\ 1 <= width => f[1] = n % 256
      /\ 2 <= width => f[2] = (n \div 256) % 256
      /\ 3 <= width => f[3] = (n \div 65536) % 256
      /\ 4 <= width => f[4] = (n \div 16777216) % 256
    BY <1>2
<1>4. ASSUME NEW i \in 1 .. width PROVE f[i] \in Bytes
  <2>1. CASE i > 4
      BY <1>2, <2>1 DEF Bytes
  <2>2. CASE i \in {1, 2, 3, 4}
      BY <1>3, <2>2 DEF Bytes
  <2> QED
      BY <2>1, <2>2
<1>5. f \in [1 .. width -> Bytes]
    BY <1>2, <1>4
<1>6. f \in Seq(Bytes) /\ Len(f) = width
    BY <1>5
<1> QED
    BY <1>1, <1>6

LEMMA NumberOfField ==
    ASSUME NEW width \in {4, 8}, NEW n \in Nat, n <= MaxNumber
    PROVE  Number(Field(width, n)) = n
<1>1. PICK f : f = Field(width, n)
    OBVIOUS
<1>2. f = [i \in 1 .. width |-> IF i > 4 THEN 0 ELSE (n \div 256^(i - 1)) % 256]
    BY <1>1 DEF Field
<1>3. /\ f[1] = n % 256
      /\ f[2] = (n \div 256) % 256
      /\ f[3] = (n \div 65536) % 256
      /\ f[4] = (n \div 16777216) % 256
    BY <1>2
<1>4. n < 2147483648
    BY SMT DEF MaxNumber
<1>5. Number(f) = f[1] + f[2] * 256 + f[3] * 65536 + f[4] * 16777216
    BY DEF Number
<1> QED
    BY <1>1, <1>3, <1>4, <1>5

-----------------------------------------------------------------------------
(* The bytes of a message. *)

LEMMA NumberAt ==
    ASSUME NEW b \in Seq(Bytes), NEW p \in Nat, NEW width \in {4, 8}, NEW n \in Nat,
           n <= MaxNumber, StandsAt(b, p, Field(width, n))
    PROVE  Number(At(b, p, width)) = n
<1>1. Field(width, n) \in Seq(Bytes) /\ Len(Field(width, n)) = width
    BY FieldType
<1>2. SubSeq(b, p + 1, p + width) = Field(width, n)
    BY <1>1, StandsIs
<1> QED
    BY <1>2, NumberOfField DEF At

\* What IsMessage says of the files.
LEMMA FilesAre ==
    ASSUME NEW m, IsMessage(m)
    PROVE  /\ Len(m.files) \in Nat /\ DOMAIN m.files = 1 .. Len(m.files)
           /\ \A i \in 1 .. Len(m.files) :
                 /\ m.files[i].name \in Seq(Bytes) /\ Len(m.files[i].name) \in Nat
                 /\ m.files[i].content \in Seq(Bytes) /\ Len(m.files[i].content) \in Nat
<1>1. m.files \in Seq([name : Seq(Bytes), content : Seq(Bytes)])
    BY DEF IsMessage
<1>2. ASSUME NEW i \in 1 .. Len(m.files)
      PROVE  m.files[i].name \in Seq(Bytes) /\ m.files[i].content \in Seq(Bytes)
  <2>1. m.files[i] \in [name : Seq(Bytes), content : Seq(Bytes)]
      BY <1>1, SeqElement, Zenon
  <2> QED
      BY <2>1
<1> QED
    BY <1>1, <1>2, SeqIsFunction

\* The raw bytes of file i are where its offsets say.
RawHolds(m, i) ==
    /\ RawIndex(m)[i - 1] \in Nat
    /\ StandsAt(RawOf(m), RawIndex(m)[i - 1], m.files[i].name)
    /\ StandsAt(RawOf(m), RawIndex(m)[i - 1] + Len(m.files[i].name), m.files[i].content)

LEMMA RawIs ==
    ASSUME NEW m, IsMessage(m)
    PROVE  /\ RawOf(m) \in Seq(Bytes) /\ Len(RawOf(m)) = RawIndex(m)[Len(m.files)]
           /\ RawIndex(m)[Len(m.files)] \in Nat /\ RawIndex(m)[0] = 0
           /\ \A i \in 1 .. Len(m.files) : RawHolds(m, i)
<1>1. PICK n \in Nat : n = Len(m.files) /\ DOMAIN m.files = 1 .. n
    BY FilesAre
<1>2. PICK ss : ss = [i \in 1 .. n |-> m.files[i].name \o m.files[i].content]
    OBVIOUS
<1>3. PICK w : w = [i \in 1 .. n |-> Len(m.files[i].name) + Len(m.files[i].content)]
    OBVIOUS
<1>4. ASSUME NEW i \in 1 .. n
      PROVE  /\ ss[i] \in Seq(Bytes) /\ w[i] \in Nat /\ w[i] = Len(ss[i])
             /\ StandsAt(ss[i], 0, m.files[i].name)
             /\ StandsAt(ss[i], Len(m.files[i].name), m.files[i].content)
  <2>1. /\ m.files[i].name \in Seq(Bytes) /\ Len(m.files[i].name) \in Nat
        /\ m.files[i].content \in Seq(Bytes) /\ Len(m.files[i].content) \in Nat
      BY <1>1, FilesAre
  <2>2. ss[i] = m.files[i].name \o m.files[i].content
      BY <1>2
  <2>3. w[i] = Len(m.files[i].name) + Len(m.files[i].content)
      BY <1>3
  <2>4. /\ ss[i] \in Seq(Bytes) /\ Len(ss[i]) = Len(m.files[i].name) + Len(m.files[i].content)
        /\ StandsAt(ss[i], 0, m.files[i].name)
        /\ StandsAt(ss[i], Len(m.files[i].name), m.files[i].content)
      BY <2>1, <2>2, StandsParts
  <2>5. w[i] \in Nat
    <3>1. PICK k \in Nat, l \in Nat : k = Len(m.files[i].name) /\ l = Len(m.files[i].content)
        BY <2>1
    <3>2. w[i] = k + l
        BY <2>3, <3>1
    <3> QED
        BY <3>2
  <2>6. w[i] = Len(ss[i])
      BY <2>3, <2>4
  <2> QED
      BY <2>4, <2>5, <2>6
<1>5. ss \in Seq(Seq(Bytes)) /\ Len(ss) = n
  <2>1. ss \in [1 .. n -> Seq(Bytes)]
      BY <1>2, <1>4
  <2> QED
      BY <2>1
<1>6. w \in Seq(Nat) /\ Len(w) = n
  <2>1. w \in [1 .. n -> Nat]
      BY <1>3, <1>4
  <2> QED
      BY <2>1
<1>7. RawOf(m) = FlattenSeq(ss)
    BY <1>1, <1>2 DEF RawOf
<1>8. RawIndex(m) = PrefixSums(w)
    BY <1>1, <1>3 DEF RawIndex
<1>9. /\ FlattenSeq(ss) \in Seq(Bytes) /\ Len(FlattenSeq(ss)) = PrefixSums(w)[n]
      /\ \A i \in 1 .. n : StandsAt(FlattenSeq(ss), PrefixSums(w)[i - 1], ss[i])
    BY <1>4, <1>5, <1>6, FlattenSeqStands
<1>10. ASSUME NEW i \in 1 .. n PROVE RawHolds(m, i)
  <2>1. i - 1 \in 0 .. n /\ PrefixSums(w)[i - 1] \in Nat
      BY <1>6, PrefixSumsNat
  <2>2. m.files[i].name \in Seq(Bytes) /\ m.files[i].content \in Seq(Bytes) /\ Len(m.files[i].name) \in Nat
      BY <1>1, FilesAre
  <2>3. PICK at \in Nat : at = PrefixSums(w)[i - 1]
      BY <2>1
  <2>4. StandsAt(FlattenSeq(ss), at, ss[i])
      BY <1>9, <2>3
  <2>5. StandsAt(FlattenSeq(ss), at + 0, m.files[i].name)
      BY <1>4, <1>9, <2>2, <2>4, StandsWithin
  <2>6. StandsAt(FlattenSeq(ss), at + Len(m.files[i].name), m.files[i].content)
      BY <1>4, <1>9, <2>2, <2>4, StandsWithin
  <2> QED
      BY <1>7, <1>8, <2>3, <2>5, <2>6 DEF RawHolds
<1>11. PrefixSums(w)[n] \in Nat /\ PrefixSums(w)[0] = 0
  <2>1. n \in 0 .. Len(w)
      BY <1>6
  <2> QED
      BY <1>6, <2>1, PrefixSumsNat
<1> QED
    BY <1>1, <1>7, <1>8, <1>9, <1>10, <1>11

\* Four numbers one after the other.
FourNumbers(h, a, b, c, d) ==
    /\ h \in Seq(Bytes) /\ Len(h) = 32
    /\ StandsAt(h, 0, Field(8, a)) /\ StandsAt(h, 8, Field(8, b))
    /\ StandsAt(h, 16, Field(8, c)) /\ StandsAt(h, 24, Field(8, d))

LEMMA FourFields ==
    ASSUME NEW a \in Nat, NEW b \in Nat, NEW c \in Nat, NEW d \in Nat
    PROVE  FourNumbers(Field(8, a) \o Field(8, b) \o Field(8, c) \o Field(8, d), a, b, c, d)
<1>0. \A n \in Nat : Field(8, n) \in Seq(Bytes) /\ Len(Field(8, n)) = 8
    BY FieldType
<1>p. PICK p \in Seq(Bytes) : p = Field(8, a) /\ Len(p) = 8
    BY <1>0
<1>q. PICK q \in Seq(Bytes) : q = Field(8, b) /\ Len(q) = 8
    BY <1>0
<1>r. PICK r \in Seq(Bytes) : r = Field(8, c) /\ Len(r) = 8
    BY <1>0
<1>s. PICK s \in Seq(Bytes) : s = Field(8, d) /\ Len(s) = 8
    BY <1>0
<1>2. PICK h : h = p \o q \o r \o s
    OBVIOUS
<1>3. /\ h \in Seq(Bytes)
      /\ Len(h) = Len(p) + Len(q) + Len(r) + Len(s)
      /\ StandsAt(h, 0, p) /\ StandsAt(h, Len(p), q)
      /\ StandsAt(h, Len(p) + Len(q), r) /\ StandsAt(h, Len(p) + Len(q) + Len(r), s)
  <2>1. h \in Seq(Bytes) /\ FourIn(h, p, q, r, s)
      BY <1>2, StandsFour
  <2> QED
      BY <2>1 DEF FourIn
<1>4. Len(p) + Len(q) = 16 /\ Len(p) + Len(q) + Len(r) = 24
  <2>1. 8 + 8 = 16 /\ 16 + 8 = 24
      OBVIOUS
  <2> QED
      BY <1>p, <1>q, <1>r, <2>1, Zenon
<1>5. Len(p) + Len(q) + Len(r) + Len(s) = 32
  <2>1. 24 + 8 = 32
      OBVIOUS
  <2> QED
      BY <1>4, <1>s, <2>1, Zenon
<1>6. FourNumbers(h, a, b, c, d)
    BY <1>p, <1>q, <1>r, <1>s, <1>3, <1>4, <1>5 DEF FourNumbers
<1> QED
    BY <1>p, <1>q, <1>r, <1>s, <1>2, <1>6

\* The heads of the files follow each other, four numbers each.
HeadHolds(m, i) ==
    LET f == m.files[i]  index == RawIndex(m)[i - 1]  at == 32 * (i - 1) IN
    /\ StandsAt(HeadsOf(m), at, Field(8, Len(f.name)))
    /\ StandsAt(HeadsOf(m), at + 8, Field(8, index))
    /\ StandsAt(HeadsOf(m), at + 16, Field(8, Len(f.content)))
    /\ StandsAt(HeadsOf(m), at + 24, Field(8, index + Len(f.name)))

LEMMA HeadsAre ==
    ASSUME NEW m, IsMessage(m)
    PROVE  /\ HeadsOf(m) \in Seq(Bytes) /\ Len(HeadsOf(m)) = 32 * Len(m.files)
           /\ \A i \in 1 .. Len(m.files) : HeadHolds(m, i)
<1>1. PICK n \in Nat : n = Len(m.files) /\ DOMAIN m.files = 1 .. n
    BY FilesAre
<1> DEFINE Head4(i) ==
            LET f == m.files[i]  index == RawIndex(m)[i - 1] IN
            Field(8, Len(f.name)) \o Field(8, index)
              \o Field(8, Len(f.content)) \o Field(8, index + Len(f.name))
<1>2. PICK ss : ss = [i \in 1 .. n |-> Head4(i)]
    OBVIOUS
<1>3. PICK w : w = [i \in 1 .. n |-> 32]
    OBVIOUS
<1>4. HeadsOf(m) = FlattenSeq(ss)
    BY <1>1, <1>2 DEF HeadsOf, SizeSize
<1>5. ASSUME NEW i \in 1 .. n
      PROVE  FourNumbers(ss[i], Len(m.files[i].name), RawIndex(m)[i - 1], Len(m.files[i].content),
                         RawIndex(m)[i - 1] + Len(m.files[i].name))
  <2>1. PICK a \in Nat, c \in Nat : a = Len(m.files[i].name) /\ c = Len(m.files[i].content)
      BY <1>1, FilesAre
  <2>2. PICK b \in Nat : b = RawIndex(m)[i - 1]
      BY <1>1, RawIs DEF RawHolds
  <2>3. PICK d \in Nat : d = b + a
      OBVIOUS
  <2>4. ss[i] = Field(8, a) \o Field(8, b) \o Field(8, c) \o Field(8, d)
      BY <1>2, <2>1, <2>2, <2>3
  <2>5. FourNumbers(ss[i], a, b, c, d)
      BY <2>4, FourFields
  <2> QED
      BY <2>1, <2>2, <2>3, <2>5
<1> HIDE DEF Head4
<1>6. ASSUME NEW i \in 1 .. n PROVE ss[i] \in Seq(Bytes) /\ Len(ss[i]) = 32
    BY <1>5 DEF FourNumbers
<1>7. ss \in Seq(Seq(Bytes)) /\ Len(ss) = n
  <2>1. ss \in [1 .. n -> Seq(Bytes)]
      BY <1>2, <1>6
  <2> QED
      BY <2>1
<1>8. w \in Seq(Nat) /\ Len(w) = n /\ \A i \in 1 .. n : w[i] = 32
  <2>1. w \in [1 .. n -> Nat]
      BY <1>3
  <2> QED
      BY <1>3, <2>1
<1>9. \A i \in 0 .. n : PrefixSums(w)[i] = 32 * i
  <2> DEFINE T == {i \in Nat : i <= n => PrefixSums(w)[i] = 32 * i}
  <2>1. 0 \in T
      BY <1>8, PrefixSumsNat
  <2>2. ASSUME NEW i \in Nat, i \in T PROVE i + 1 \in T
    <3> SUFFICES ASSUME i + 1 <= n PROVE PrefixSums(w)[i + 1] = 32 * (i + 1)
        OBVIOUS
    <3>1. i + 1 \in 1 .. n /\ (i + 1) - 1 = i /\ PrefixSums(w)[i] = 32 * i
        BY <2>2
    <3>2. PrefixSums(w)[i + 1] = PrefixSums(w)[i] + w[i + 1]
        BY <1>8, <3>1, PrefixSumsNat
    <3> QED
        BY <1>8, <3>1, <3>2
  <2>3. Nat \subseteq T
    <3> HIDE DEF T
    <3> QED
        BY <2>1, <2>2, SetInduction
  <2> QED
      BY <2>3
<1>10. /\ FlattenSeq(ss) \in Seq(Bytes) /\ Len(FlattenSeq(ss)) = PrefixSums(w)[n]
       /\ \A i \in 1 .. n : StandsAt(FlattenSeq(ss), PrefixSums(w)[i - 1], ss[i])
  <2>1. Len(w) = Len(ss) /\ \A i \in 1 .. Len(ss) : w[i] = Len(ss[i])
      BY <1>6, <1>7, <1>8
  <2>2. /\ FlattenSeq(ss) \in Seq(Bytes) /\ Len(FlattenSeq(ss)) = PrefixSums(w)[Len(ss)]
        /\ \A i \in 1 .. Len(ss) : StandsAt(FlattenSeq(ss), PrefixSums(w)[i - 1], ss[i])
      BY <1>6, <1>7, <1>8, <2>1, FlattenSeqStands
  <2> QED
      BY <1>6, <1>7, <1>8, <2>2
<1>11. ASSUME NEW i \in 1 .. n PROVE HeadHolds(m, i)
  <2>1. PICK a \in Nat, c \in Nat : a = Len(m.files[i].name) /\ c = Len(m.files[i].content)
      BY <1>1, FilesAre
  <2>2. PICK b \in Nat : b = RawIndex(m)[i - 1]
      BY <1>1, RawIs DEF RawHolds
  <2>3. PICK d \in Nat : d = b + a
      OBVIOUS
  <2>31. FourNumbers(ss[i], a, b, c, d)
      BY <1>5, <2>1, <2>2, <2>3
  <2>32. /\ StandsAt(ss[i], 0, Field(8, a)) /\ StandsAt(ss[i], 8, Field(8, b))
         /\ StandsAt(ss[i], 16, Field(8, c)) /\ StandsAt(ss[i], 24, Field(8, d))
      BY <2>31 DEF FourNumbers
  <2>33. /\ Field(8, a) \in Seq(Bytes) /\ Field(8, b) \in Seq(Bytes)
         /\ Field(8, c) \in Seq(Bytes) /\ Field(8, d) \in Seq(Bytes)
      BY FieldType
  <2>4. PICK at \in Nat : at = 32 * (i - 1)
      OBVIOUS
  <2>5. i - 1 \in 0 .. n /\ StandsAt(FlattenSeq(ss), at, ss[i])
      BY <1>9, <1>10, <2>4
  <2>6. /\ StandsAt(FlattenSeq(ss), at + 0, Field(8, a))
        /\ StandsAt(FlattenSeq(ss), at + 8, Field(8, b))
        /\ StandsAt(FlattenSeq(ss), at + 16, Field(8, c))
        /\ StandsAt(FlattenSeq(ss), at + 24, Field(8, d))
      BY <1>6, <1>10, <2>32, <2>33, <2>5, StandsWithin, SMTT(30)
  <2> QED
      BY <1>4, <2>1, <2>2, <2>3, <2>4, <2>6 DEF HeadHolds
<1> QED
    BY <1>1, <1>4, <1>9, <1>10, <1>11, SMTT(30)

\* Where the parts of a message are.
HeadsStart(m) == UuidSize + IntSize + IntSize + (IF m.type = MSG_RESP_WITH_FILES THEN IntSize ELSE 0)

PartsHold(m, b) ==
    /\ b \in Seq(Bytes)
    /\ Len(b) = 20 + (IF m.type \in HasNum THEN 4 ELSE 0)
                   + (IF m.type = MSG_RESP_WITH_FILES THEN 4 ELSE 0)
                   + 32 * Len(m.files) + Len(RawOf(m))
    /\ StandsAt(b, 0, m.uid) /\ StandsAt(b, 16, Field(4, m.type))
    /\ m.type \in HasNum => StandsAt(b, 20, Field(4, m.num))
    /\ m.type = MSG_RESP_WITH_FILES => StandsAt(b, 24, Field(4, Len(m.files)))
    /\ m.type \in FileRequests \cup {MSG_RESP_WITH_FILES} =>
          /\ StandsAt(b, HeadsStart(m), HeadsOf(m))
          /\ StandsAt(b, HeadsStart(m) + 32 * Len(m.files), RawOf(m))

LEMMA MessageFields ==
    ASSUME NEW m, IsMessage(m)
    PROVE  /\ m = [type |-> m.type, uid |-> m.uid, num |-> m.num, files |-> m.files]
           /\ m.uid \in Seq(Bytes) /\ Len(m.uid) = 16
           /\ m.type \in Nat /\ m.type <= MaxNumber /\ m.num \in Nat /\ m.num <= MaxNumber
<1>1. PICK r : r = m
    OBVIOUS
<1>2. r \in [type : HasNum \cup {MSG_REQ_OPEN_SESSION, MSG_REQ_CLOSE_SESSION},
              uid : Seq(Bytes), num : 0 .. MaxNumber,
              files : Seq([name : Seq(Bytes), content : Seq(Bytes)])]
    BY <1>1 DEF IsMessage
<1>3. r = [type |-> r.type, uid |-> r.uid, num |-> r.num, files |-> r.files]
    BY <1>2
<1>4. r.uid \in Seq(Bytes) /\ r.num \in 0 .. MaxNumber
    BY <1>2
<1>5. r.type \in HasNum \cup {MSG_REQ_OPEN_SESSION, MSG_REQ_CLOSE_SESSION}
    BY <1>2
<1>6. r.type \in 1 .. 21
    BY <1>5 DEF HasNum, FileRequests, MSG_REQ_OPEN_SESSION, MSG_REQ_CLOSE_SESSION,
                MSG_REQ_OPEN_FILE, MSG_REQ_APPEND_TO_FILE, MSG_REQ_READ_N_FILES,
                MSG_RESP_SIMPLE, MSG_RESP_WITH_FILES
<1>61. r.type \in Nat /\ r.type <= MaxNumber
    BY <1>6, SMT DEF MaxNumber
<1>7. Len(r.uid) = 16
    BY <1>1 DEF IsMessage, UuidSize
<1>8. r.num \in Nat /\ r.num <= MaxNumber
  <2>1. MaxNumber \in Nat
      BY MaxNumberIs
  <2>2. PICK k : k = r.num
      OBVIOUS
  <2>3. k \in 0 .. MaxNumber
      BY <1>4, <2>2
  <2> QED
      BY <2>1, <2>2, <2>3
<1> QED
    BY <1>1, <1>3, <1>4, <1>61, <1>7, <1>8, Zenon

LEMMA PartsAre ==
    ASSUME NEW m, IsMessage(m)
    PROVE  PartsHold(m, MessageBytes(m))
<1>1. PICK n \in Nat : n = Len(m.files)
    BY FilesAre
<1>2. PICK x : x = IF m.type \in HasNum THEN Field(4, m.num) ELSE << >>
    OBVIOUS
<1>3. PICK y : y = IF m.type = MSG_RESP_WITH_FILES THEN Field(4, n) ELSE << >>
    OBVIOUS
<1>4. PICK lx \in Nat : lx = IF m.type \in HasNum THEN 4 ELSE 0
    OBVIOUS
<1>5. PICK ly \in Nat : ly = IF m.type = MSG_RESP_WITH_FILES THEN 4 ELSE 0
    OBVIOUS
<1>6. x \in Seq(Bytes) /\ Len(x) = lx
  <2>1. m.num \in Nat /\ << >> \in Seq(Bytes) /\ Len(<< >>) = 0
      BY MessageFields
  <2> QED
      BY <1>2, <1>4, <2>1, FieldType
<1>7. y \in Seq(Bytes) /\ Len(y) = ly
  <2>1. << >> \in Seq(Bytes) /\ Len(<< >>) = 0
      OBVIOUS
  <2> QED
      BY <1>3, <1>5, <2>1, FieldType
<1>8. m.uid \in Seq(Bytes) /\ Len(m.uid) = 16
    BY MessageFields
<1>9. PICK t \in Seq(Bytes) : t = Field(4, m.type) /\ Len(t) = 4
  <2>1. m.type \in Nat
      BY MessageFields, Zenon
  <2> QED
      BY <2>1, FieldType
<1>10. PICK h \in Seq(Bytes), lh \in Nat : h = HeadsOf(m) /\ Len(h) = lh /\ lh = 32 * n
    BY <1>1, HeadsAre
<1>11. PICK r \in Seq(Bytes) : r = RawOf(m)
    BY RawIs
<1>12. PICK b : b = m.uid \o t \o x \o y \o h \o r
    OBVIOUS
<1>13. MessageBytes(m) = b
    BY <1>1, <1>2, <1>3, <1>9, <1>10, <1>11, <1>12 DEF MessageBytes, IntSize
<1>14. /\ b \in Seq(Bytes) /\ StandsAt(b, 0, m.uid) /\ StandsAt(b, 16, t) /\ StandsAt(b, 16 + 4, x)
       /\ StandsAt(b, 16 + 4 + lx, y) /\ StandsAt(b, 16 + 4 + lx + ly, h)
       /\ StandsAt(b, 16 + 4 + lx + ly + lh, r)
       /\ Len(b) = 16 + 4 + lx + ly + lh + Len(r)
  <2>1. 16 \in Nat /\ 4 \in Nat
      OBVIOUS
  <2>2. b \in Seq(Bytes) /\ SixIn(b, m.uid, t, x, y, h, r, 16, 4, lx, ly, lh)
      BY <1>6, <1>7, <1>8, <1>9, <1>10, <1>12, <2>1, StandsSix, Zenon
  <2> QED
      BY <2>2, Zenon DEF SixIn
<1>15. m.type \in FileRequests \cup {MSG_RESP_WITH_FILES} => lx = 4
    BY <1>4 DEF HasNum
<1>16. m.type \in FileRequests \cup {MSG_RESP_WITH_FILES} =>
          /\ 16 + 4 + lx + ly = HeadsStart(m)
          /\ 16 + 4 + lx + ly + lh = HeadsStart(m) + 32 * n
  <2>1. HeadsStart(m) = 24 + ly
      BY <1>5 DEF HeadsStart, UuidSize, IntSize
  <2> QED
      BY <1>10, <1>15, <2>1
<1>17. m.type = MSG_RESP_WITH_FILES => 16 + 4 + lx = 24
    BY <1>15
<1>18. PartsHold(m, b)
  <2>1. b \in Seq(Bytes) /\ StandsAt(b, 0, m.uid) /\ StandsAt(b, 16, Field(4, m.type))
      BY <1>9, <1>14
  <2>2. m.type \in HasNum => StandsAt(b, 20, Field(4, m.num))
    <3>1. 16 + 4 = 20
        OBVIOUS
    <3> QED
        BY <1>2, <1>14, <3>1, Zenon
  <2>3. m.type = MSG_RESP_WITH_FILES => StandsAt(b, 24, Field(4, Len(m.files)))
      BY <1>1, <1>3, <1>14, <1>17, Zenon
  <2>4. m.type \in FileRequests \cup {MSG_RESP_WITH_FILES} =>
          /\ StandsAt(b, HeadsStart(m), HeadsOf(m))
          /\ StandsAt(b, HeadsStart(m) + 32 * Len(m.files), RawOf(m))
      BY <1>1, <1>10, <1>11, <1>14, <1>16, Zenon
  <2>5. Len(b) = 20 + (IF m.type \in HasNum THEN 4 ELSE 0)
                   + (IF m.type = MSG_RESP_WITH_FILES THEN 4 ELSE 0)
                   + 32 * Len(m.files) + Len(RawOf(m))
    <3>1. 16 + 4 = 20
        OBVIOUS
    <3> QED
        BY <1>1, <1>4, <1>5, <1>10, <1>11, <1>14, <3>1, Zenon
  <2> QED
      BY <2>1, <2>2, <2>3, <2>4, <2>5, Zenon DEF PartsHold
<1> QED
    BY <1>13, <1>18

\* A number of a message, read where it was written.
LEMMA FileAtIs ==
    ASSUME NEW m, IsMessage(m), NEW b, PartsHold(m, b), NEW i \in 1 .. Len(m.files),
           m.type \in FileRequests \cup {MSG_RESP_WITH_FILES}, Len(b) <= MaxNumber
    PROVE  FileAt(b, HeadsStart(m) + (i - 1) * 4 * SizeSize, HeadsStart(m) + Len(m.files) * 4 * SizeSize)
              = m.files[i]
<1>1. PICK n \in Nat : n = Len(m.files)
    BY FilesAre
<1>2. PICK hs \in Nat : hs = HeadsStart(m)
    BY DEF HeadsStart, UuidSize, IntSize
<1>3. PICK raw \in Nat : raw = hs + 32 * n /\ raw = hs + n * 4 * SizeSize
    BY DEF SizeSize
<1>4. PICK head \in Nat : head = hs + 32 * (i - 1) /\ head = hs + (i - 1) * 4 * SizeSize
    BY DEF SizeSize
<1>5. PICK h \in Seq(Bytes), r \in Seq(Bytes) : h = HeadsOf(m) /\ r = RawOf(m)
    BY HeadsAre, RawIs
<1>6. b \in Seq(Bytes) /\ StandsAt(b, hs, h) /\ StandsAt(b, raw, r)
    BY <1>1, <1>2, <1>3, <1>5 DEF PartsHold
<1>7. PICK f : f = m.files[i]
    OBVIOUS
<1>8. PICK name \in Seq(Bytes), content \in Seq(Bytes) :
         name = f.name /\ content = f.content /\ f = [name |-> name, content |-> content]
  <2>1. m.files \in Seq([name : Seq(Bytes), content : Seq(Bytes)])
      BY DEF IsMessage
  <2>2. f \in [name : Seq(Bytes), content : Seq(Bytes)]
      BY <1>7, <2>1, SeqElement, Zenon
  <2> QED
      BY <2>2
<1>9. PICK a \in Nat, c \in Nat : a = Len(name) /\ c = Len(content)
    BY SeqIsFunction
<1>10. PICK index \in Nat : index = RawIndex(m)[i - 1]
    BY RawIs DEF RawHolds
<1>11. StandsAt(r, index, name) /\ StandsAt(r, index + a, content)
    BY <1>5, <1>7, <1>8, <1>9, <1>10, RawIs DEF RawHolds
<1>12. StandsAt(b, raw + index, name) /\ StandsAt(b, raw + (index + a), content)
  <2>1. index + a \in Nat
      OBVIOUS
  <2> QED
      BY <1>6, <1>11, <2>1, StandsWithin
<1>13. /\ a <= MaxNumber /\ c <= MaxNumber /\ index <= MaxNumber /\ index + a <= MaxNumber
  <2>1. PICK l \in Nat : l = Len(b) /\ l <= MaxNumber
      BY <1>6, SeqIsFunction
  <2>2. (raw + index) + a <= l /\ (raw + (index + a)) + c <= l
      BY <1>9, <1>12, <2>1 DEF StandsAt
  <2>3. MaxNumber \in Nat
      BY MaxNumberIs
  <2> QED
      BY <2>1, <2>2, <2>3
<1>14. /\ StandsAt(h, 32 * (i - 1), Field(8, a)) /\ StandsAt(h, 32 * (i - 1) + 8, Field(8, index))
       /\ StandsAt(h, 32 * (i - 1) + 16, Field(8, c)) /\ StandsAt(h, 32 * (i - 1) + 24, Field(8, index + a))
    BY <1>5, <1>7, <1>8, <1>9, <1>10, HeadsAre DEF HeadHolds
<1>15. PICK p \in Nat : p = 32 * (i - 1)
    OBVIOUS
<1>16. /\ StandsAt(b, hs + p, Field(8, a)) /\ StandsAt(b, hs + (p + 8), Field(8, index))
       /\ StandsAt(b, hs + (p + 16), Field(8, c)) /\ StandsAt(b, hs + (p + 24), Field(8, index + a))
  <2>1. /\ Field(8, a) \in Seq(Bytes) /\ Field(8, index) \in Seq(Bytes)
        /\ Field(8, c) \in Seq(Bytes) /\ Field(8, index + a) \in Seq(Bytes)
      BY FieldType
  <2>2. p + 8 \in Nat /\ p + 16 \in Nat /\ p + 24 \in Nat
      OBVIOUS
  <2>3. /\ StandsAt(h, p, Field(8, a)) /\ StandsAt(h, p + 8, Field(8, index))
        /\ StandsAt(h, p + 16, Field(8, c)) /\ StandsAt(h, p + 24, Field(8, index + a))
      BY <1>14, <1>15
  <2> QED
      BY <1>6, <2>1, <2>2, <2>3, StandsWithin
<1>17. /\ hs + p = head + 0 * SizeSize /\ hs + (p + 8) = head + 1 * SizeSize
       /\ hs + (p + 16) = head + 2 * SizeSize /\ hs + (p + 24) = head + 3 * SizeSize
    BY <1>4, <1>15 DEF SizeSize
<1> DEFINE N(k) == Number(At(b, head + k * SizeSize, SizeSize))
           Piece(len, offset) == IF len = 0 THEN <<>> ELSE At(b, raw + offset, len)
<1>18. N(0) = a /\ N(1) = index /\ N(2) = c /\ N(3) = index + a
  <2>1. SizeSize = 8 /\ 8 \in {4, 8} /\ index + a \in Nat
      BY DEF SizeSize
  <2>2. /\ hs + p \in Nat /\ hs + (p + 8) \in Nat /\ hs + (p + 16) \in Nat /\ hs + (p + 24) \in Nat
      OBVIOUS
  <2>3. Number(At(b, hs + p, 8)) = a
      BY <1>6, <1>13, <1>16, <2>1, <2>2, NumberAt
  <2>4. Number(At(b, hs + (p + 8), 8)) = index
      BY <1>6, <1>13, <1>16, <2>1, <2>2, NumberAt
  <2>5. Number(At(b, hs + (p + 16), 8)) = c
      BY <1>6, <1>13, <1>16, <2>1, <2>2, NumberAt
  <2>6. Number(At(b, hs + (p + 24), 8)) = index + a
      BY <1>6, <1>13, <1>16, <2>1, <2>2, NumberAt
  <2> QED
      BY <1>17, <2>1, <2>3, <2>4, <2>5, <2>6, Zenon
<1>19. Piece(a, index) = name
  <2>1. CASE a = 0
    <3>1. name = << >>
        BY <1>9, <2>1, EmptySeq
    <3> QED
        BY <2>1, <3>1
  <2>2. CASE a # 0
    <3>1. SubSeq(b, (raw + index) + 1, (raw + index) + a) = name
        BY <1>6, <1>9, <1>12, StandsIs
    <3> QED
        BY <2>2, <3>1 DEF At
  <2> QED
      BY <2>1, <2>2
<1>20. Piece(c, index + a) = content
  <2>1. CASE c = 0
    <3>1. content = << >>
        BY <1>9, <2>1, EmptySeq
    <3> QED
        BY <2>1, <3>1
  <2>2. CASE c # 0
    <3>1. raw + (index + a) \in Nat
        OBVIOUS
    <3>2. SubSeq(b, (raw + (index + a)) + 1, (raw + (index + a)) + c) = content
        BY <1>6, <1>9, <1>12, <3>1, StandsIs
    <3> QED
        BY <2>2, <3>2 DEF At
  <2> QED
      BY <2>1, <2>2
<1>21. FileAt(b, head, raw) = [name |-> Piece(N(0), N(1)), content |-> Piece(N(2), N(3))]
    BY DEF FileAt
<1> HIDE DEF N, Piece
<1>22. FileAt(b, head, raw) = f
    BY <1>8, <1>18, <1>19, <1>20, <1>21, Zenon
<1> QED
    BY <1>1, <1>2, <1>3, <1>4, <1>7, <1>22, Zenon

\* What readMessage makes of the bytes of a message is the message.
LEMMA LayoutRoundTrip ==
    ASSUME NEW m, IsMessage(m)
    PROVE  MessageBytes(m) \in Seq(Bytes) /\ MessageOf(MessageBytes(m)) = m
<1>1. PICK b : b = MessageBytes(m)
    OBVIOUS
<1>2. b \in Seq(Bytes) /\ PartsHold(m, b)
    BY <1>1, PartsAre DEF PartsHold
<1>3. PICK n \in Nat : n = Len(m.files) /\ DOMAIN m.files = 1 .. n
    BY FilesAre
<1>4. PICK l \in Nat : l = Len(b) /\ l <= MaxNumber
  <2>1. Len(b) < MaxNumber
      BY <1>1 DEF IsMessage
  <2>2. Len(b) \in Nat /\ MaxNumber \in Nat
      BY <1>2, SeqIsFunction, MaxNumberIs
  <2> QED
      BY <2>1, <2>2
<1>5. MaxNumber \in Nat
    BY MaxNumberIs
<1> DEFINE type == Number(At(b, UuidSize, IntSize))
           body == UuidSize + IntSize
           num == IF type \in HasNum THEN Number(At(b, body, IntSize)) ELSE 0
           numFiles == IF type \in FileRequests THEN 1
                       ELSE IF type # MSG_RESP_WITH_FILES THEN 0
                       ELSE Number(At(b, body + IntSize, IntSize))
           heads == body + IntSize + (IF type = MSG_RESP_WITH_FILES THEN IntSize ELSE 0)
           raw == heads + numFiles * 4 * SizeSize
<1>6. UuidSize = 16 /\ IntSize = 4 /\ body = 20 /\ body + IntSize = 24
    BY DEF UuidSize, IntSize
<1>7. type = m.type
  <2>1. m.type \in Nat /\ m.type <= MaxNumber /\ 16 \in Nat /\ 4 \in {4, 8}
      BY MessageFields, Zenon
  <2>2. StandsAt(b, 16, Field(4, m.type))
      BY <1>2 DEF PartsHold
  <2> QED
      BY <1>2, <1>6, <2>1, <2>2, NumberAt
<1>8. At(b, 0, UuidSize) = m.uid
  <2>1. m.uid \in Seq(Bytes) /\ Len(m.uid) = 16 /\ StandsAt(b, 0, m.uid)
      BY <1>2, MessageFields DEF PartsHold
  <2>2. SubSeq(b, 0 + 1, 0 + Len(m.uid)) = m.uid
      BY <1>2, <2>1, StandsIs
  <2> QED
      BY <1>6, <2>1, <2>2 DEF At
<1>9. num = m.num
  <2>1. CASE m.type \in HasNum
    <3>1. m.num \in Nat /\ m.num <= MaxNumber /\ 20 \in Nat /\ 4 \in {4, 8}
        BY MessageFields, Zenon
    <3>2. StandsAt(b, 20, Field(4, m.num))
        BY <1>2, <2>1 DEF PartsHold
    <3>3. Number(At(b, 20, 4)) = m.num
        BY <1>2, <3>1, <3>2, NumberAt
    <3> QED
        BY <1>6, <1>7, <2>1, <3>3
  <2>2. CASE m.type \notin HasNum
      BY <1>7, <2>2 DEF IsMessage
  <2> QED
      BY <2>1, <2>2
<1>10. numFiles = n
  <2>1. CASE m.type \in FileRequests
      BY <1>3, <1>7, <2>1 DEF IsMessage
  <2>2. CASE m.type \notin FileRequests /\ m.type # MSG_RESP_WITH_FILES
      BY <1>3, <1>7, <2>2 DEF IsMessage
  <2>3. CASE m.type \notin FileRequests /\ m.type = MSG_RESP_WITH_FILES
    <3>1. n <= MaxNumber
      <4>1. StandsAt(b, HeadsStart(m), HeadsOf(m)) /\ Len(HeadsOf(m)) = 32 * n
          BY <1>2, <1>3, <2>3, HeadsAre DEF PartsHold
      <4>2. HeadsStart(m) + 32 * n <= l /\ HeadsStart(m) \in Nat
          BY <1>4, <4>1 DEF StandsAt, HeadsStart, UuidSize, IntSize
      <4> QED
          BY <1>4, <1>5, <4>2
    <3>2. StandsAt(b, 24, Field(4, n)) /\ 24 \in Nat /\ 4 \in {4, 8}
        BY <1>2, <1>3, <2>3 DEF PartsHold
    <3>3. Number(At(b, 24, 4)) = n
        BY <1>2, <3>1, <3>2, NumberAt
    <3> QED
        BY <1>6, <1>7, <2>3, <3>3
  <2> QED
      BY <2>1, <2>2, <2>3
<1>11. heads = HeadsStart(m) /\ raw = HeadsStart(m) + n * 4 * SizeSize
    BY <1>7, <1>10 DEF HeadsStart
<1>12. MessageOf(b) =
          [type |-> type, uid |-> At(b, 0, UuidSize), num |-> num,
           files |-> [i \in 1 .. numFiles |-> FileAt(b, heads + (i - 1) * 4 * SizeSize, raw)]]
    BY DEF MessageOf
<1> HIDE DEF type, body, num, numFiles, heads, raw
<1>13. ASSUME NEW i \in 1 .. n
       PROVE  FileAt(b, heads + (i - 1) * 4 * SizeSize, raw) = m.files[i]
  <2>1. m.type \in FileRequests \cup {MSG_RESP_WITH_FILES}
      BY <1>3 DEF IsMessage
  <2>2. i \in 1 .. Len(m.files) /\ Len(b) <= MaxNumber
      BY <1>3, <1>4
  <2>3. FileAt(b, HeadsStart(m) + (i - 1) * 4 * SizeSize, HeadsStart(m) + Len(m.files) * 4 * SizeSize)
           = m.files[i]
      BY <1>2, <2>1, <2>2, FileAtIs
  <2> QED
      BY <1>3, <1>11, <2>3, Zenon
<1>14. m.files = [i \in 1 .. n |-> m.files[i]]
  <2>1. m.files \in Seq([name : Seq(Bytes), content : Seq(Bytes)])
      BY DEF IsMessage
  <2>2. m.files = [i \in 1 .. Len(m.files) |-> m.files[i]]
      BY <2>1, SeqIsMap, Zenon
  <2> QED
      BY <1>3, <2>2, Zenon
<1>15. [i \in 1 .. numFiles |-> FileAt(b, heads + (i - 1) * 4 * SizeSize, raw)] = m.files
    BY <1>10, <1>13, <1>14
<1>16. m = [type |-> m.type, uid |-> m.uid, num |-> m.num, files |-> m.files]
    BY MessageFields, Zenon
<1>17. MessageOf(b) = m
    BY <1>7, <1>8, <1>9, <1>12, <1>15, <1>16, Zenon
<1> QED
    BY <1>1, <1>2, <1>17

\* The size computed beforehand is the size written.
LEMMA SizeIs ==
    ASSUME NEW m, IsMessage(m)
    PROVE  Len(MessageBytes(m)) = calcMsgSize(m)
<1>1. PICK n \in Nat, sizes \in Nat :
         n = Len(m.files) /\ sizes = Len(RawOf(m)) /\ sizes = RawIndex(m)[n]
    BY FilesAre, RawIs
<1>2. PICK l : l = Len(MessageBytes(m))
    OBVIOUS
<1>3. l = 20 + (IF m.type \in HasNum THEN 4 ELSE 0)
             + (IF m.type = MSG_RESP_WITH_FILES THEN 4 ELSE 0) + 32 * n + sizes
    BY <1>1, <1>2, PartsAre DEF PartsHold
<1>4. n = 0 => sizes = 0
    BY <1>1, RawIs
<1>5. PICK type : type = m.type
    OBVIOUS
<1>6. type \in HasNum \cup {1, 2}
  <2>1. m \in [type : HasNum \cup {MSG_REQ_OPEN_SESSION, MSG_REQ_CLOSE_SESSION},
              uid : Seq(Bytes), num : 0 .. MaxNumber,
              files : Seq([name : Seq(Bytes), content : Seq(Bytes)])]
      BY DEF IsMessage
  <2>2. m.type \in HasNum \cup {MSG_REQ_OPEN_SESSION, MSG_REQ_CLOSE_SESSION}
      BY <2>1
  <2> QED
      BY <1>5, <2>2 DEF MSG_REQ_OPEN_SESSION, MSG_REQ_CLOSE_SESSION
<1>7. /\ type \in FileRequests => n = 1
      /\ type \notin FileRequests \cup {21} => n = 0
    BY <1>1, <1>5 DEF IsMessage, MSG_RESP_WITH_FILES
<1>8. calcMsgSize(m) =
          20 + (CASE type = 9 -> 4
                  [] type \in FileRequests -> 36 + sizes
                  [] type = 20 -> 4
                  [] type = 21 -> 8 + n * 32 + sizes
                  [] OTHER -> 0)
    BY <1>1, <1>5 DEF calcMsgSize, UuidSize, IntSize, SizeSize, MSG_REQ_READ_N_FILES,
                      MSG_RESP_SIMPLE, MSG_RESP_WITH_FILES
<1>9. FileRequests = (3 .. 11) \ {9} /\ HasNum = FileRequests \cup {9, 20, 21}
    BY DEF FileRequests, HasNum, MSG_REQ_OPEN_FILE, MSG_REQ_APPEND_TO_FILE, MSG_REQ_READ_N_FILES,
           MSG_RESP_SIMPLE, MSG_RESP_WITH_FILES
<1>10. l = calcMsgSize(m)
    BY <1>3, <1>4, <1>5, <1>6, <1>7, <1>8, <1>9 DEF MSG_RESP_WITH_FILES
<1> QED
    BY <1>2, <1>10

\* The tables only save work.
LEMMA WireIs ==
    ASSUME NEW c \in BOOLEAN, NEW m \in Message
    PROVE  Wire(c, m) = ToWire(c, m)
<1>1. <<ToWire(c, m), c, m>> \in WireTable
    BY DEF WireTable
<1>2. ASSUME NEW t \in WireTable, t[2] = c, t[3] = m PROVE t[1] = ToWire(c, m)
    BY <1>2 DEF WireTable
<1>3. PICK t : t = CHOOSE u \in WireTable : u[2] = c /\ u[3] = m
    OBVIOUS
<1>4. t \in WireTable /\ t[2] = c /\ t[3] = m
    BY <1>1, <1>3
<1>5. t[1] = ToWire(c, m)
    BY <1>2, <1>4
<1> QED
    BY <1>3, <1>5 DEF Wire

LEMMA ReturnedIs ==
    ASSUME NEW c \in BOOLEAN, NEW b
    PROVE  Returned(c, b) = FromWire(c, b)
<1>1. ASSUME NEW t \in ReadTable, t[2] = c, t[3] = b PROVE t[1] = FromWire(c, b)
    BY <1>1 DEF ReadTable
<1> DEFINE known == {t \in ReadTable : t[2] = c /\ t[3] = b}
<1>2. CASE known = {}
    BY <1>2 DEF Returned
<1>3. CASE known # {}
  <2>1. (CHOOSE t \in known : TRUE) \in known
      BY <1>3
  <2>2. (CHOOSE t \in known : TRUE)[1] = FromWire(c, b)
      BY <1>1, <2>1
  <2> QED
      BY <1>3, <2>2 DEF Returned
<1> QED
    BY <1>2, <1>3

\* A message has at least its uid.
LEMMA MessageSize ==
    ASSUME NEW m, IsMessage(m)
    PROVE  /\ MessageBytes(m) \in Seq(Bytes) /\ Len(MessageBytes(m)) \in 16 .. MaxNumber
           /\ Len(MessageBytes(m)) < MaxNumber
<1>1. PICK w : w = MessageBytes(m) /\ w \in Seq(Bytes)
    BY LayoutRoundTrip
<1>2. StandsAt(w, 0, m.uid) /\ Len(m.uid) = 16
    BY <1>1, PartsAre, MessageFields DEF PartsHold
<1>3. 16 <= Len(w) /\ Len(w) \in Nat
    BY <1>1, <1>2, SeqIsFunction DEF StandsAt
<1>4. Len(w) < MaxNumber
    BY <1>1 DEF IsMessage
<1>5. MaxNumber \in Nat
    BY MaxNumberIs
<1>6. Len(w) \in 16 .. MaxNumber
    BY <1>3, <1>4, <1>5
<1> QED
    BY <1>1, <1>4, <1>6

LEMMA MessageFits ==
    ASSUME NEW m, IsMessage(m)
    PROVE  /\ MessageBytes(m) \in Seq(Bytes) /\ MessageBytes(m) # << >>
           /\ Len(MessageBytes(m)) < SizeLimit /\ Len(MessageBytes(m)) < MaxNumber
<1>1. PICK w : w = MessageBytes(m)
    OBVIOUS
<1>2. w \in Seq(Bytes) /\ Len(w) \in 16 .. MaxNumber /\ Len(w) < MaxNumber
    BY <1>1, MessageSize
<1>3. PICK n \in Nat : n = Len(w) /\ n >= 16 /\ n < MaxNumber
  <2>1. MaxNumber \in Nat
      BY MaxNumberIs
  <2> QED
      BY <1>2, <2>1
<1>4. n < SizeLimit
  <2>1. n \in Nat /\ n < MaxNumber
      BY <1>3
  <2> QED
      BY <2>1, SMT DEF MaxNumber, SizeLimit
<1> QED
    BY <1>1, <1>2, <1>3, <1>4

(* Compression loses nothing of any message, and there is always a byte.     *)
THEOREM CompressionLosesNothing == CompressionLossless
<1> SUFFICES ASSUME NEW data \in {MessageBytes(m) : m \in Message} \cap Seq(Bytes)
             PROVE  /\ compress_data(data) \in Seq(Bytes)
                    /\ Len(compress_data(data)) \in 1 .. MaxNumber
                    /\ decompress_data(compress_data(data)) = data
    BY DEF CompressionLossless
<1>1. PICK m \in Message : data = MessageBytes(m)
    OBVIOUS
<1>2. IsMessage(m)
    BY MessagesAssumption
<1>3. data \in Seq(Bytes) /\ data # << >> /\ Len(data) < SizeLimit /\ Len(data) < MaxNumber
    BY <1>1, <1>2, MessageFits
<1>4. PICK n \in Nat : n = Len(data) /\ n < MaxNumber
    BY <1>3
<1>8. /\ compress_data(data) \in Seq(Bytes)
      /\ Len(compress_data(data)) \in 1 .. Len(data) + 1
      /\ decompress_data(compress_data(data)) = data
    BY <1>3, CompressionIsLossless
<1>9. Len(compress_data(data)) \in 1 .. MaxNumber
  <2>1. PICK l : l = Len(compress_data(data)) /\ l \in 1 .. n + 1
      BY <1>4, <1>8
  <2>2. MaxNumber \in Nat
      BY MaxNumberIs
  <2>3. n < MaxNumber
      BY <1>4
  <2>4. l \in 1 .. MaxNumber
      BY <2>1, <2>2, <2>3
  <2> QED
      BY <2>1, <2>4
<1> QED
    BY <1>8, <1>9

LEMMA Codec == CodecWorks
<1> SUFFICES ASSUME NEW c \in BOOLEAN, NEW m \in Message
             PROVE  /\ Wire(c, m) \in Seq(Bytes) /\ Len(Wire(c, m)) \in 1 .. MaxNumber
                    /\ Returned(c, Wire(c, m)) = m
    BY DEF CodecWorks
<1>1. IsMessage(m)
    BY MessagesAssumption
<1>2. MessageBytes(m) \in Seq(Bytes) /\ MessageOf(MessageBytes(m)) = m
    BY <1>1, LayoutRoundTrip
<1>3. PICK w : w = ToWire(c, m)
    OBVIOUS
<1>4. CASE c
  <2>1. w = compress_data(MessageBytes(m))
      BY <1>3, <1>4 DEF ToWire
  <2>2. w \in Seq(Bytes) /\ Len(w) \in 1 .. MaxNumber /\ decompress_data(w) = MessageBytes(m)
      BY <1>2, <2>1, CompressionLosesNothing DEF CompressionLossless
  <2>3. FromWire(c, w) = m
      BY <1>2, <1>4, <2>2 DEF FromWire
  <2> QED
      BY <1>3, <2>2, <2>3, WireIs, ReturnedIs, Zenon
<1>5. CASE ~c
  <2>1. w = MessageBytes(m)
      BY <1>3, <1>5 DEF ToWire
  <2>2. Len(w) \in 1 .. MaxNumber
    <3>1. Len(w) \in 16 .. MaxNumber
        BY <1>1, <2>1, MessageSize
    <3>2. MaxNumber \in Nat
        BY MaxNumberIs
    <3> QED
        BY <3>1, <3>2
  <2>3. FromWire(c, w) = m
      BY <1>2, <1>5, <2>1 DEF FromWire
  <2> QED
      BY <1>2, <1>3, <2>1, <2>2, <2>3, WireIs, ReturnedIs, Zenon
<1> QED
    BY <1>4, <1>5

-----------------------------------------------------------------------------
(* The packets. *)

LEMMA PacketIs ==
    ASSUME CodecWorks, NEW c \in BOOLEAN, NEW m \in Message
    PROVE  /\ Packet(c, m) \in Seq(Bytes)
           /\ Len(Packet(c, m)) = SizeSize + Len(Wire(c, m))
           /\ Len(Wire(c, m)) \in Nat \ {0}
           /\ Number(Field(SizeSize, Len(Wire(c, m)))) = Len(Wire(c, m))
<1>1. /\ Wire(c, m) \in Seq(Bytes) /\ Len(Wire(c, m)) \in Nat \ {0}
      /\ Len(Wire(c, m)) <= MaxNumber
  <2>1. Wire(c, m) \in Seq(Bytes) /\ Len(Wire(c, m)) \in 1 .. MaxNumber
      BY DEF CodecWorks
  <2>2. PICK k \in 1 .. MaxNumber : k = Len(Wire(c, m))
      BY <2>1
  <2>3. MaxNumber \in Nat
      BY MaxNumberIs
  <2>4. k \in Nat \ {0} /\ k <= MaxNumber
      BY <2>3
  <2> QED
      BY <2>1, <2>2, <2>4
<1>2. SizeSize \in Nat /\ SizeSize \in {4, 8}
    BY DEF SizeSize
<1>3. /\ Field(SizeSize, Len(Wire(c, m))) \in Seq(Bytes)
      /\ Len(Field(SizeSize, Len(Wire(c, m)))) = SizeSize
    BY <1>1, <1>2, FieldType
<1>4. Number(Field(SizeSize, Len(Wire(c, m)))) = Len(Wire(c, m))
    BY <1>1, <1>2, NumberOfField
<1> QED
    BY <1>1, <1>3, <1>4, ConcatProperties DEF Packet

LEMMA StartIs ==
    ASSUME CodecWorks, compress \in BOOLEAN, script \in Seq(Message), NEW n \in 0 .. Len(script)
    PROVE  /\ PacketStart(n) \in Nat
           /\ n = 0 => PacketStart(n) = 0
           /\ n # 0 => PacketStart(n) =
                          PacketStart(n - 1) + SizeSize + Len(Wire(compress, script[n]))
<1> DEFINE w(k) == [i \in 1 .. k |-> Len(Packet(compress, script[i]))]
<1>0. Len(script) \in Nat /\ n \in Nat
    BY SeqIsFunction
<1>1. ASSUME NEW i \in 1 .. Len(script)
      PROVE  /\ script[i] \in Message
             /\ Len(Packet(compress, script[i])) = SizeSize + Len(Wire(compress, script[i]))
             /\ Len(Packet(compress, script[i])) \in Nat
  <2>1. script[i] \in Message
      OBVIOUS
  <2> QED
      BY <2>1, PacketIs, SMTT(30) DEF SizeSize
<1>2. ASSUME NEW k \in 0 .. n
      PROVE  w(k) \in Seq(Nat) /\ Len(w(k)) = k /\ PacketStart(k) = PrefixSums(w(k))[k]
  <2>1. w(k) \in [1 .. k -> Nat] /\ k \in Nat
      BY <1>0, <1>1
  <2> QED
      BY <2>1 DEF PacketStart
<1>3. n \in 0 .. n /\ PacketStart(n) = PrefixSums(w(n))[n]
    BY <1>0, <1>2
<1>4. PacketStart(n) \in Nat /\ (n = 0 => PacketStart(n) = 0)
  <2> HIDE DEF w
  <2> QED
      BY <1>0, <1>2, <1>3, PrefixSumsNat
<1>5. CASE n # 0
  <2>1. n \in 1 .. n /\ n - 1 \in 0 .. n /\ n \in 1 .. Len(script)
      BY <1>0, <1>5
  <2>2. w(n)[n] = SizeSize + Len(Wire(compress, script[n]))
      BY <1>1, <2>1
  <2>3. \A i \in 1 .. n - 1 : w(n - 1)[i] = w(n)[i]
      BY <1>0
  <2> HIDE DEF w
  <2>4. PrefixSums(w(n))[n] = PrefixSums(w(n))[n - 1] + w(n)[n]
      BY <1>2, <1>3, <2>1, PrefixSumsNat
  <2>5. /\ w(n - 1) \in Seq(Int) /\ w(n) \in Seq(Int) /\ Len(w(n - 1)) = n - 1
        /\ Len(w(n - 1)) <= Len(w(n)) /\ \A i \in 1 .. Len(w(n - 1)) : w(n - 1)[i] = w(n)[i]
    <3>1. /\ w(n - 1) \in Seq(Nat) /\ Len(w(n - 1)) = n - 1
          /\ w(n) \in Seq(Nat) /\ Len(w(n)) = n
        BY <1>2, <2>1
    <3> QED
        BY <1>0, <2>3, <3>1
  <2>6. n - 1 \in 0 .. n - 1
      BY <2>1
  <2>7. PrefixSums(w(n - 1))[n - 1] = PrefixSums(w(n))[n - 1]
      BY <2>5, <2>6, PrefixSumsLocal
  <2>8. PacketStart(n - 1) = PrefixSums(w(n - 1))[n - 1]
      BY <1>2, <2>1
  <2>9. PacketStart(n - 1) \in Nat
    <3>1. 0 \in 0 .. n - 1 /\ n - 1 \in 0 .. Len(w(n - 1)) /\ w(n - 1) \in Seq(Nat)
        BY <1>0, <1>2, <2>1, <2>5
    <3> QED
        BY <2>8, <3>1, PrefixSumsNat
  <2> QED
      BY <1>1, <1>3, <1>4, <1>5, <2>1, <2>2, <2>4, <2>7, <2>8, <2>9 DEF SizeSize
<1> QED
    BY <1>4, <1>5

\* What is in the stream stays there when bytes are added,
LEMMA PacketStays ==
    ASSUME CodecWorks, NEW c \in BOOLEAN, NEW m \in Message, NEW s \in Seq(Bytes),
           NEW t \in Seq(Bytes), NEW at \in Nat, PacketIn(s, at, c, m)
    PROVE  PacketIn(s \o t, at, c, m)
<1>1. PICK n \in Nat \ {0} : n = Len(Wire(c, m))
    BY PacketIs
<1>2. /\ Len(s) \in Nat /\ Len(t) \in Nat /\ Len(s \o t) = Len(s) + Len(t)
    BY ConcatProperties, SeqIsFunction
<1>3. at + 8 + n <= Len(s)
    BY <1>1 DEF PacketIn, SizeSize
<1>4. /\ at + 1 \in 1 .. Len(s) /\ at + 8 \in 1 .. Len(s)
      /\ (at + 8) + 1 \in 1 .. Len(s) /\ (at + 8) + n \in 1 .. Len(s)
    BY <1>2, <1>3
<1>5. SubSeq(s \o t, at + 1, at + 8) = SubSeq(s, at + 1, at + 8)
    BY <1>4, SubSeqOfConcat1
<1>6. SubSeq(s \o t, (at + 8) + 1, (at + 8) + n) = SubSeq(s, (at + 8) + 1, (at + 8) + n)
    BY <1>4, SubSeqOfConcat1
<1> QED
    BY <1>1, <1>2, <1>3, <1>5, <1>6 DEF PacketIn, At, SizeSize

\* and a packet is where it is added.
PiecesIn(t, l, f, w) ==
    /\ Len(t) = l + Len(f) + Len(w)
    /\ SubSeq(t, l + 1, l + Len(f)) = f
    /\ SubSeq(t, l + Len(f) + 1, l + Len(f) + Len(w)) = w

LEMMA PiecesAdded ==
    ASSUME NEW S, NEW s \in Seq(S), NEW f \in Seq(S), NEW w \in Seq(S),
           Len(f) # 0, Len(w) # 0
    PROVE  PiecesIn(s \o (f \o w), Len(s), f, w)
<1>0. PICK l \in Nat, k \in Nat \ {0}, n \in Nat \ {0} : Len(s) = l /\ Len(f) = k /\ Len(w) = n
    BY SeqIsFunction
<1>1. PICK p : p = f \o w
    OBVIOUS
<1>2. p \in Seq(S) /\ Len(p) = k + n
    BY <1>0, <1>1, ConcatProperties
<1>3. Len(s \o p) = l + k + n
  <2>1. Len(s \o p) = Len(s) + Len(p)
      BY <1>2, ConcatProperties
  <2> QED
      BY <1>0, <1>2, <2>1
<1>4. SubSeq(p, 1, k) = f
  <2>1. 1 \in 1 .. Len(f) /\ k \in 1 .. Len(f)
      BY <1>0
  <2>2. SubSeq(f \o w, 1, k) = SubSeq(f, 1, k)
      BY <2>1, SubSeqOfConcat1
  <2> QED
      BY <1>1, <1>0, <2>2, SubSeqFull
<1>5. SubSeq(p, k + 1, k + n) = w
  <2>1. k + 1 \in Len(f) + 1 .. Len(f) + Len(w) /\ k + n \in Len(f) + 1 .. Len(f) + Len(w)
      BY <1>0
  <2>2. SubSeq(f \o w, k + 1, k + n) = SubSeq(w, (k + 1) - Len(f), (k + n) - Len(f))
      BY <2>1, SubSeqOfConcat2
  <2>3. (k + 1) - Len(f) = 1 /\ (k + n) - Len(f) = Len(w)
      BY <1>0
  <2> QED
      BY <1>1, <2>2, <2>3, SubSeqFull
<1>6. SubSeq(s \o p, l + 1, l + k) = f
  <2>1. l + 1 \in Len(s) + 1 .. Len(s) + Len(p) /\ l + k \in Len(s) + 1 .. Len(s) + Len(p)
      BY <1>0, <1>2
  <2>2. SubSeq(s \o p, l + 1, l + k) = SubSeq(p, (l + 1) - Len(s), (l + k) - Len(s))
      BY <1>2, <2>1, SubSeqOfConcat2
  <2>3. (l + 1) - Len(s) = 1 /\ (l + k) - Len(s) = k
      BY <1>0
  <2> QED
      BY <1>4, <2>2, <2>3
<1>7. SubSeq(s \o p, (l + k) + 1, (l + k) + n) = w
  <2>1. PICK a, b : a = (l + k) + 1 /\ b = (l + k) + n
      BY <1>0
  <2>2. a \in Len(s) + 1 .. Len(s) + Len(p) /\ b \in Len(s) + 1 .. Len(s) + Len(p)
      BY <1>0, <1>2, <2>1
  <2>3. SubSeq(s \o p, a, b) = SubSeq(p, a - Len(s), b - Len(s))
      BY <1>2, <2>2, SubSeqOfConcat2
  <2>4. a - Len(s) = k + 1 /\ b - Len(s) = k + n
      BY <1>0, <2>1
  <2> QED
      BY <1>5, <2>1, <2>3, <2>4
<1> QED
    BY <1>0, <1>1, <1>3, <1>6, <1>7 DEF PiecesIn

LEMMA PacketAdded ==
    ASSUME CodecWorks, NEW c \in BOOLEAN, NEW m \in Message, NEW s \in Seq(Bytes)
    PROVE  PacketIn(s \o Packet(c, m), Len(s), c, m)
<1>1. Wire(c, m) \in Seq(Bytes) /\ Len(Wire(c, m)) \in Nat \ {0}
    BY PacketIs DEF CodecWorks
<1>2. SizeSize \in Nat /\ SizeSize = 8
    BY DEF SizeSize
<1>3. /\ Field(SizeSize, Len(Wire(c, m))) \in Seq(Bytes)
      /\ Len(Field(SizeSize, Len(Wire(c, m)))) = 8
    BY <1>1, <1>2, FieldType
<1>4. Len(Wire(c, m)) # 0 /\ Len(Field(SizeSize, Len(Wire(c, m)))) # 0
    BY <1>1, <1>3
<1>5. PiecesIn(s \o Packet(c, m), Len(s), Field(SizeSize, Len(Wire(c, m))), Wire(c, m))
    BY <1>1, <1>3, <1>4, PiecesAdded, Zenon DEF Packet
<1>6. PICK l \in Nat, n \in Nat : l = Len(s) /\ n = Len(Wire(c, m))
    BY <1>1, SeqIsFunction
<1>7. PICK t : t = s \o Packet(c, m)
    OBVIOUS
<1>8. /\ Len(t) = l + 8 + n
      /\ SubSeq(t, l + 1, l + 8) = Field(SizeSize, Len(Wire(c, m)))
      /\ SubSeq(t, l + 8 + 1, l + 8 + n) = Wire(c, m)
    BY <1>3, <1>5, <1>6, <1>7 DEF PiecesIn
<1>9. At(t, l, 8) = SubSeq(t, l + 1, l + 8) /\ At(t, l + 8, n) = SubSeq(t, l + 8 + 1, l + 8 + n)
    BY DEF At
<1>10. PacketIn(t, l, c, m)
  <2>1. At(t, l, SizeSize) = Field(SizeSize, Len(Wire(c, m)))
      BY <1>2, <1>8, <1>9
  <2>2. At(t, l + SizeSize, Len(Wire(c, m))) = Wire(c, m)
      BY <1>2, <1>6, <1>8, <1>9
  <2>3. l + SizeSize + Len(Wire(c, m)) <= Len(t)
      BY <1>2, <1>6, <1>8
  <2> QED
      BY <2>1, <2>2, <2>3 DEF PacketIn
<1> QED
    BY <1>6, <1>7, <1>10

-----------------------------------------------------------------------------
(* Each action keeps the invariant. *)

LEMMA Types ==
    ASSUME TypeOK
    PROVE  /\ compress \in BOOLEAN /\ script \in Seq(Message) /\ Len(script) \in Nat
           /\ started \in 0 .. Len(script) /\ Len(received) \in Nat /\ Len(stream) \in Nat
           /\ wstart \in Nat /\ written \in Nat /\ base \in Nat /\ msgSize \in Nat
           /\ taken \in Nat /\ faults \in Nat
BY MessagesAssumption, SeqIsFunction DEF TypeOK

LEMMA StartStays ==
    ASSUME UNCHANGED <<compress, script>>
    PROVE  \A n : PacketStart(n)' = PacketStart(n)
BY DEF PacketStart, Packet

LEMMA InitStep == ASSUME CodecWorks, Init PROVE MInv
<1> USE DEF Init
<1>1. TypeOK
    BY MessagesAssumption, SeqIsFunction DEF TypeOK
<1>2. PacketStart(0) = 0
  <2>1. 0 \in 0 .. Len(script)
      BY <1>1, Types
  <2> QED
      BY <1>1, <2>1, Types, StartIs
<1>3. Streamed /\ Writing /\ Reading
    BY <1>2 DEF Streamed, Writing, Reading, SizeSize
<1> QED
    BY <1>1, <1>3 DEF MInv, Ended

\* A call moves at least a byte, and no more than it can.
LEMMA AmountsAre ==
    ASSUME TypeOK, NEW most \in Nat \ {0}, NEW k \in Amounts(most), CountShort(k, most)
    PROVE  k \in Nat \ {0} /\ k <= most /\ faults' \in 0 .. MaxFaults
<1>1. k = most \/ (k \in Shorts /\ k < most /\ faults < MaxFaults)
    BY DEF Amounts
<1>2. k \in Nat \ {0} /\ k <= most
  <2>1. CASE k = most
      BY <2>1
  <2>2. CASE k \in Shorts /\ k < most
    <3>1. k \in Nat \ {0}
        BY <2>2, MessagesAssumption
    <3> QED
        BY <2>2, <3>1
  <2> QED
      BY <1>1, <2>1, <2>2
<1>3. faults \in Nat /\ faults <= MaxFaults /\ MaxFaults \in Nat
    BY MessagesAssumption DEF TypeOK
<1>4. k < most => faults < MaxFaults /\ faults' = faults + 1
    BY <1>1, <1>2 DEF CountShort
<1>5. ~(k < most) => faults' = faults
    BY DEF CountShort
<1>6. faults' \in 0 .. MaxFaults
    BY <1>3, <1>4, <1>5
<1> QED
    BY <1>2, <1>6

LEMMA StartStep == ASSUME CodecWorks, MInv, StartMessage PROVE MInv'
<1>1. /\ wpc = "idle" /\ "writer" \notin gone /\ started < Len(script)
      /\ started' = started + 1 /\ wpc' = "writing" /\ wstart' = Len(stream)
      /\ UNCHANGED <<compress, script, written, rpc, base, msgSize, taken, received, gone, faults>>
    BY DEF StartMessage, readerVars
<1>2. PICK n \in Nat : n = started + 1
    BY Types DEF MInv
<1>3. n \in 1 .. Len(script) /\ n \in 0 .. Len(script) /\ n - 1 = started /\ script[n] \in Message
    BY <1>1, <1>2, Types, SMTT(30) DEF MInv
<1>4. stream' = stream \o Packet(compress, script[n])
    BY <1>2 DEF StartMessage
<1>5. stream \in Seq(Bytes)
    BY DEF MInv, TypeOK
<1>6. /\ Packet(compress, script[n]) \in Seq(Bytes)
      /\ Len(Packet(compress, script[n])) = 8 + Len(Wire(compress, script[n]))
      /\ Len(Wire(compress, script[n])) \in Nat
    BY <1>3, PacketIs, Types DEF MInv, SizeSize
<1>7. stream' \in Seq(Bytes) /\ Len(stream') = Len(stream) + 8 + Len(Wire(compress, script[n]))
  <2>1. /\ stream' \in Seq(Bytes)
        /\ Len(stream') = Len(stream) + Len(Packet(compress, script[n]))
      BY <1>4, <1>5, <1>6, ConcatProperties
  <2> QED
      BY <1>6, <2>1, Types DEF MInv
<1>8. TypeOK'
    BY <1>1, <1>7, Types DEF MInv, TypeOK
<1>9. Streamed'
  <2>1. Len(stream) = PacketStart(started)
      BY DEF MInv, Streamed
  <2>2. Len(stream') = PacketStart(n)
      BY <1>3, <1>6, <1>7, <2>1, StartIs, Types DEF MInv, SizeSize
  <2>3. ASSUME NEW i \in 1 .. n PROVE PacketIn(stream', PacketStart(i - 1), compress, script[i])
    <3>1. i \in Nat /\ i - 1 \in 0 .. Len(script) /\ i \in 1 .. Len(script) /\ script[i] \in Message
        BY <1>3, Types DEF MInv
    <3>2. PacketStart(i - 1) \in Nat
        BY <3>1, StartIs, Types DEF MInv
    <3>3. CASE i <= started
      <4>1. PacketIn(stream, PacketStart(i - 1), compress, script[i])
          BY <3>1, <3>3, Types DEF MInv, Streamed
      <4> QED
          BY <1>4, <1>5, <1>6, <3>1, <3>2, <4>1, PacketStays, Types DEF MInv
    <3>4. CASE i > started
      <4>1. i = n
          BY <1>2, <3>1, <3>4, Types, SMTT(30) DEF MInv
      <4>2. PacketStart(i - 1) = Len(stream)
          BY <1>3, <2>1, <4>1
      <4> QED
          BY <1>3, <1>4, <1>5, <4>1, <4>2, PacketAdded, Types DEF MInv
    <3> QED
        BY <3>1, <3>3, <3>4, Types DEF MInv
  <2>4. \A i : PacketStart(i)' = PacketStart(i)
      BY <1>1, StartStays
  <2>5. started' = n
      BY <1>1, <1>2
  <2> QED
      BY <1>1, <2>2, <2>3, <2>4, <2>5 DEF Streamed
<1>10. Writing'
  <2>1. written = Len(stream) /\ Len(stream) \in Nat
      BY <1>1, Types DEF MInv, Writing
  <2>2. Len(Wire(compress, script[n])) \in Nat
      BY <1>6
  <2>3. Len(stream') >= Len(stream) + 8
      BY <1>7, <2>1, <2>2
  <2>4. Len(stream') \in Nat
      BY <1>7, SeqIsFunction
  <2>5. written' < Len(stream') /\ wstart' + 8 <= Len(stream')
      BY <1>1, <2>1, <2>3, <2>4
  <2>6. written' \in Nat
      BY <1>1, <2>1
  <2> QED
      BY <1>1, <2>4, <2>5, <2>6 DEF Writing, SizeSize
<1>11. Reading'
  <2>1. \A i : PacketStart(i)' = PacketStart(i)
      BY <1>1, StartStays
  <2> QED
      BY <1>1, <2>1, Types DEF MInv, Reading
<1>12. Ended'
    BY <1>1 DEF MInv, Ended
<1> QED
    BY <1>8, <1>9, <1>10, <1>11, <1>12 DEF MInv

\* The packets stay as they are.
LEMMA StreamStays ==
    ASSUME Streamed, UNCHANGED <<compress, script, started, stream>>
    PROVE  Streamed'
BY StartStays DEF Streamed

LEMMA WriteStep == ASSUME CodecWorks, MInv, Write PROVE MInv'
<1>1. /\ wpc = "writing" /\ gone = {} /\ written - taken < Room
      /\ UNCHANGED <<compress, script, started, stream, wstart, rpc, base, msgSize, taken, received, gone>>
    BY DEF Write, readerVars
<1>2. Writable \in Nat \ {0} /\ written + Writable <= Len(stream)
  <2>1. WriteEnd \in Nat /\ WriteEnd > written /\ WriteEnd <= Len(stream)
      BY <1>1, Types DEF WriteEnd, MInv, Writing, SizeSize
  <2>2. /\ Room - (written - taken) \in Nat \ {0} /\ WriteEnd - written \in Nat \ {0}
    <3>1. PICK w \in Int, t \in Int, r \in Int, e \in Int :
              /\ w = written /\ t = taken /\ r = Room /\ e = WriteEnd
              /\ w - t < r /\ e > w
        BY <1>1, <2>1, MessagesAssumption, Types DEF MInv
    <3>2. r - (w - t) \in Nat \ {0} /\ e - w \in Nat \ {0}
        BY <3>1
    <3> QED
        BY <3>1, <3>2
  <2> QED
      BY <2>1, <2>2, Types, SMTT(30) DEF Writable, MInv
<1>3. PICK k \in Amounts(Writable) :
         /\ CountShort(k, Writable) /\ written' = written + k
         /\ wpc' = IF written + k = Len(stream) THEN "idle" ELSE "writing"
    BY DEF Write
<1>4. k \in Nat \ {0} /\ k <= Writable /\ faults' \in 0 .. MaxFaults
    BY <1>2, <1>3, AmountsAre DEF MInv
<1>5. TypeOK'
    BY <1>1, <1>3, <1>4, Types DEF MInv, TypeOK
<1>6. Streamed'
    BY <1>1, StreamStays DEF MInv
<1>7. written < written' /\ written' <= Len(stream)
    BY <1>2, <1>3, <1>4, Types, SMTT(30) DEF MInv
<1>8. Writing'
    BY <1>1, <1>3, <1>5, <1>7, Types DEF MInv, Writing
<1>9. Reading'
  <2>1. \A i : PacketStart(i)' = PacketStart(i)
      BY <1>1, StartStays
  <2>2. taken <= written'
      BY <1>3, <1>7, <1>4, Types DEF MInv, Reading
  <2> QED
      BY <1>1, <2>1, <2>2 DEF MInv, Reading
<1>10. Ended'
    BY <1>1 DEF MInv, Ended
<1> QED
    BY <1>5, <1>6, <1>8, <1>9, <1>10 DEF MInv

\* What the reader has in hand.
LEMMA InHand ==
    ASSUME CodecWorks, MInv, Len(received) < started
    PROVE  LET r == Len(received) + 1  w == Wire(compress, script[r]) IN
           /\ r \in Nat /\ r \in 1 .. Len(script) /\ script[r] \in Message
           /\ Len(w) \in Nat \ {0}
           /\ PacketStart(r) = base + SizeSize + Len(w)
           /\ base + SizeSize + Len(w) <= Len(stream)
           /\ Number(At(stream, base, SizeSize)) = Len(w)
           /\ At(stream, base + SizeSize, Len(w)) = w
           /\ Returned(compress, w) = script[r]
<1>1. PICK r \in Nat : r = Len(received) + 1
    BY Types DEF MInv
<1>2. /\ r \in 1 .. Len(script) /\ r \in 0 .. Len(script) /\ r # 0 /\ r \in 1 .. started
      /\ script[r] \in Message /\ r - 1 = Len(received)
    BY <1>1, Types DEF MInv
<1>3. PICK w : w = Wire(compress, script[r])
    OBVIOUS
<1>4. /\ Len(w) \in Nat \ {0} /\ Number(Field(SizeSize, Len(w))) = Len(w)
      /\ Returned(compress, w) = script[r]
    BY <1>2, <1>3, PacketIs, Types DEF MInv, CodecWorks
<1>5. base = PacketStart(r - 1)
    BY <1>2 DEF MInv, Reading
<1>6. PacketStart(r) = base + SizeSize + Len(w)
    BY <1>2, <1>3, <1>5, StartIs, Types DEF MInv
<1>7. PacketIn(stream, base, compress, script[r])
    BY <1>2, <1>5 DEF MInv, Streamed
<1>8. /\ base + SizeSize + Len(w) <= Len(stream)
      /\ At(stream, base, SizeSize) = Field(SizeSize, Len(w))
      /\ At(stream, base + SizeSize, Len(w)) = w
    BY <1>3, <1>7 DEF PacketIn
<1> QED
    BY <1>1, <1>2, <1>3, <1>4, <1>6, <1>8

\* A reader that has not reached the last byte is in a packet.
LEMMA MoreToRead ==
    ASSUME CodecWorks, MInv, taken < Len(stream)
    PROVE  Len(received) < started
<1>1. Len(received) = started => base = Len(stream)
    BY DEF MInv, Reading, Streamed
<1> QED
    BY <1>1, Types DEF MInv, Reading

\* The same, with a name for the packet's number and for its bytes.
InPacket(r, w) ==
    /\ r = Len(received) + 1 /\ w = Wire(compress, script[r])
    /\ r \in 1 .. Len(script) /\ script[r] \in Message
    /\ PacketStart(r) = base + 8 + Len(w)
    /\ base + 8 + Len(w) <= Len(stream)
    /\ Number(At(stream, base, SizeSize)) = Len(w)
    /\ At(stream, base + SizeSize, Len(w)) = w
    /\ Returned(compress, w) = script[r]

LEMMA PacketInHand ==
    ASSUME CodecWorks, MInv, Len(received) < started
    PROVE  \E r \in Nat, n \in Nat \ {0} : \E w : InPacket(r, w) /\ n = Len(w)
<1>1. PICK r : r = Len(received) + 1
    OBVIOUS
<1>2. PICK w : w = Wire(compress, script[r])
    OBVIOUS
<1>3. /\ r \in Nat /\ r \in 1 .. Len(script) /\ script[r] \in Message
      /\ Len(w) \in Nat \ {0}
      /\ PacketStart(r) = base + SizeSize + Len(w)
      /\ base + SizeSize + Len(w) <= Len(stream)
      /\ Number(At(stream, base, SizeSize)) = Len(w)
      /\ At(stream, base + SizeSize, Len(w)) = w
      /\ Returned(compress, w) = script[r]
    BY <1>1, <1>2, InHand, Zenon
<1>4. InPacket(r, w)
    BY <1>1, <1>2, <1>3 DEF InPacket, SizeSize
<1> QED
    BY <1>3, <1>4, Zenon

LEMMA ReadStep == ASSUME CodecWorks, MInv, Read PROVE MInv'
<1>1. /\ rpc \in {"size", "body"} /\ taken < written
      /\ UNCHANGED <<compress, script, started, stream, wpc, wstart, written, gone>>
    BY DEF Read, writerVars
<1>2. Len(received) < started
    BY <1>1, MoreToRead, Types DEF MInv, Writing
<1>3. PICK r \in Nat, n \in Nat \ {0} : \E w : InPacket(r, w) /\ n = Len(w)
    BY <1>2, PacketInHand
<1>4. PICK w : InPacket(r, w) /\ n = Len(w)
    BY <1>3
<1>5. /\ base \in Nat /\ taken \in Nat /\ written \in Nat
      /\ written <= Len(stream) /\ Len(stream) \in Nat
    BY Types DEF MInv, Writing
<1>6. /\ rpc = "size" => ReadEnd = base + 8 /\ base <= taken /\ taken < base + 8
      /\ rpc = "body" => /\ ReadEnd = base + 8 + n /\ msgSize = n
                         /\ base + 8 <= taken /\ taken < base + 8 + n
    BY <1>4, <1>5, SMTT(30) DEF MInv, Reading, ReadEnd, SizeSize, InPacket
<1>7. ReadEnd \in Nat /\ taken < ReadEnd
    BY <1>1, <1>5, <1>6
<1>8. Readable \in Nat \ {0} /\ taken + Readable <= ReadEnd /\ taken + Readable <= written
  <2>1. ReadEnd - taken \in Nat \ {0} /\ written - taken \in Nat \ {0}
      BY <1>1, <1>5, <1>7
  <2>2. Readable = IF ReadEnd - taken < written - taken THEN ReadEnd - taken ELSE written - taken
      BY DEF Readable
  <2> QED
      BY <1>5, <1>7, <2>1, <2>2
<1>9. PICK k \in Amounts(Readable) :
         /\ CountShort(k, Readable) /\ taken' = taken + k
         /\ \/ taken + k < ReadEnd /\ UNCHANGED <<rpc, base, msgSize, received>>
            \/ taken + k = ReadEnd /\ rpc = "size" /\ TakeSize
            \/ taken + k = ReadEnd /\ rpc = "body" /\ TakeBody
    BY DEF Read
<1>10. k \in Nat \ {0} /\ k <= Readable /\ faults' \in 0 .. MaxFaults
    BY <1>8, <1>9, AmountsAre DEF MInv
<1>11. taken' \in Nat /\ taken < taken' /\ taken' <= ReadEnd /\ taken' <= written
    BY <1>5, <1>7, <1>8, <1>9, <1>10
<1>12. Streamed' /\ Writing' /\ \A i : PacketStart(i)' = PacketStart(i)
    BY <1>1, StreamStays, StartStays DEF MInv, Writing
<1>13. TypeOK /\ Reading
    BY DEF MInv
<1>14. CASE taken + k < ReadEnd /\ UNCHANGED <<rpc, base, msgSize, received>>
  <2>1. TypeOK'
      BY <1>1, <1>10, <1>11, <1>13, <1>14 DEF TypeOK
  <2>2. taken' < ReadEnd /\ base <= taken'
      BY <1>1, <1>5, <1>6, <1>9, <1>11, <1>14
  <2>3. Reading'
    <3>1. rpc' = "size" => taken' < base' + SizeSize
        BY <1>6, <1>14, <2>2 DEF SizeSize
    <3>2. rpc' = "body" => base' + SizeSize <= taken' /\ taken' < base' + SizeSize + msgSize'
        BY <1>5, <1>6, <1>11, <1>14, <2>2 DEF SizeSize
    <3> QED
        BY <1>1, <1>11, <1>12, <1>13, <1>14, <2>2, <3>1, <3>2 DEF Reading
  <2>4. Ended'
      BY <1>1, <1>14 DEF Ended
  <2> QED
      BY <1>12, <2>1, <2>3, <2>4 DEF MInv
<1>15. CASE taken + k = ReadEnd /\ rpc = "size" /\ TakeSize
  <2>1. msgSize' = n /\ rpc' = "body" /\ UNCHANGED <<base, received>>
      BY <1>4, <1>15 DEF TakeSize, InPacket
  <2>2. TypeOK'
      BY <1>1, <1>10, <1>11, <1>13, <2>1 DEF TypeOK
  <2>3. taken' = base + 8
      BY <1>6, <1>9, <1>15
  <2>4. n = Len(Wire(compress, script[Len(received) + 1]))
      BY <1>4 DEF InPacket
  <2>5. Reading'
    <3>1. base' + SizeSize <= taken' /\ taken' < base' + SizeSize + msgSize' /\ base' <= taken'
        BY <1>5, <2>1, <2>3 DEF SizeSize
    <3> QED
        BY <1>1, <1>2, <1>11, <1>12, <1>13, <2>1, <2>4, <3>1 DEF Reading
  <2>6. Ended'
      BY <2>1 DEF Ended
  <2> QED
      BY <1>12, <2>2, <2>5, <2>6 DEF MInv
<1>16. CASE taken + k = ReadEnd /\ rpc = "body" /\ TakeBody
  <2>1. received' = Append(received, script[r]) /\ rpc' = "size" /\ base' = taken' /\ UNCHANGED msgSize
    <3>1. At(stream, base + SizeSize, msgSize) = w
        BY <1>4, <1>6, <1>16 DEF InPacket
    <3> QED
        BY <1>4, <1>16, <3>1 DEF TakeBody, InPacket
  <2>2. received \in Seq(Message) /\ script[r] \in Message
      BY <1>4, <1>13 DEF TypeOK, InPacket
  <2>3. received' \in Seq(Message) /\ Len(received') = Len(received) + 1
      BY <2>1, <2>2, AppendProperties
  <2>4. Len(received') = r
      BY <1>4, <2>3 DEF InPacket
  <2>5. TypeOK'
      BY <1>1, <1>10, <1>11, <1>13, <2>1, <2>3 DEF TypeOK
  <2>6. taken' = PacketStart(r)
      BY <1>4, <1>6, <1>9, <1>16 DEF InPacket
  <2>7. r <= started
      BY <1>2, <1>3, <2>3, <2>4, Types DEF MInv
  <2>8. taken' < base' + SizeSize /\ base' <= taken'
    <3>1. PICK t \in Nat : t = taken'
        BY <1>11
    <3>2. base' = t
        BY <2>1, <3>1
    <3>3. t < t + SizeSize /\ t <= t
        BY DEF SizeSize
    <3> QED
        BY <3>1, <3>2, <3>3
  <2>9. Reading'
      BY <1>1, <1>11, <1>12, <2>1, <2>4, <2>6, <2>7, <2>8 DEF Reading
  <2>10. Ended'
      BY <2>1 DEF Ended
  <2> QED
      BY <1>12, <2>5, <2>9, <2>10 DEF MInv
<1> QED
    BY <1>9, <1>14, <1>15, <1>16

LEMMA EofStep == ASSUME CodecWorks, MInv, ReadEof PROVE MInv'
<1>1. /\ rpc \in {"size", "body"} /\ "writer" \in gone /\ taken = written /\ rpc' = "eof"
      /\ UNCHANGED <<compress, script, started, stream, wpc, wstart, written, gone>>
      /\ UNCHANGED <<base, msgSize, taken, received, faults>>
    BY DEF ReadEof, writerVars
<1>2. TypeOK'
    BY <1>1 DEF MInv, TypeOK
<1>3. Streamed' /\ Writing' /\ \A i : PacketStart(i)' = PacketStart(i)
    BY <1>1, StreamStays, StartStays DEF MInv, Writing
<1>4. Reading'
    BY <1>1, <1>3 DEF MInv, Reading
<1>5. ASSUME Len(received) = started PROVE Ended'
    BY <1>1, <1>5 DEF Ended, EndAfterLastMessage
<1>6. ASSUME Len(received) < started PROVE Ended'
  <2>1. PICK r \in Nat, n \in Nat \ {0} : \E w : InPacket(r, w) /\ n = Len(w)
      BY <1>6, PacketInHand
  <2>2. /\ r = Len(received) + 1 /\ PacketStart(r) = base + 8 + n
        /\ n = Len(Wire(compress, script[Len(received) + 1]))
      BY <2>1 DEF InPacket
  <2>3. taken < base + 8 + n
      BY <1>1, <2>2, Types DEF MInv, Reading, SizeSize
  <2>4. PacketStart(Len(received) + 1)' = PacketStart(Len(received) + 1)
      BY <1>1, <1>3
  <2>5. written < PacketStart(Len(received) + 1)
      BY <1>1, <2>2, <2>3, Types DEF MInv
  <2> QED
      BY <1>1, <2>4, <2>5 DEF Ended, EndAfterLastMessage
<1>7. Ended'
    BY <1>5, <1>6, Types DEF MInv, Reading
<1> QED
    BY <1>2, <1>3, <1>4, <1>7 DEF MInv

\* The steps that move no byte.
LEMMA OtherSteps ==
    ASSUME MInv, WriteFails \/ ReadError \/ Interrupted \/ (\E end \in {"writer", "reader"} : Leave(end))
    PROVE  MInv'
<1>1. /\ UNCHANGED <<compress, script, started, stream, wstart, written>>
      /\ UNCHANGED <<base, msgSize, taken, received>>
      /\ gone \subseteq gone' /\ gone' \subseteq {"writer", "reader"}
      /\ wpc' \in {wpc, "failed"} /\ rpc' \in {rpc, "error"} /\ faults' \in 0 .. MaxFaults
  <2>1. faults \in 0 .. MaxFaults /\ MaxFaults \in Nat /\ gone \subseteq {"writer", "reader"}
      BY MessagesAssumption DEF MInv, TypeOK
  <2>2. CASE WriteFails
      BY <2>1, <2>2 DEF WriteFails, readerVars
  <2>3. CASE ReadError
      BY <2>1, <2>3 DEF ReadError, writerVars
  <2>4. CASE Interrupted
      BY <2>1, <2>4 DEF Interrupted, readerVars, writerVars
  <2>5. CASE \E end \in {"writer", "reader"} : Leave(end)
      BY <2>1, <2>5 DEF Leave, readerVars, writerVars
  <2> QED
      BY <2>2, <2>3, <2>4, <2>5
<1>2. TypeOK'
    BY <1>1 DEF MInv, TypeOK
<1>3. Streamed' /\ \A i : PacketStart(i)' = PacketStart(i)
    BY <1>1, StreamStays, StartStays DEF MInv
<1>4. Writing'
    BY <1>1 DEF MInv, Writing
<1>5. Reading'
    BY <1>1, <1>3 DEF MInv, Reading
<1>6. Ended'
    BY <1>1, <1>3 DEF MInv, Ended, EndAfterLastMessage
<1> QED
    BY <1>2, <1>3, <1>4, <1>5, <1>6 DEF MInv

LEMMA NextStep == ASSUME CodecWorks, MInv, [Next]_vars PROVE MInv'
<1>1. CASE UNCHANGED vars
  <2>1. /\ UNCHANGED <<compress, script, started, stream, wpc, wstart, written>>
        /\ UNCHANGED <<rpc, base, msgSize, taken, received, gone, faults>>
      BY <1>1 DEF vars, writerVars, readerVars
  <2>2. Streamed' /\ \A i : PacketStart(i)' = PacketStart(i)
      BY <2>1, StreamStays, StartStays DEF MInv
  <2> QED
      BY <2>1, <2>2 DEF MInv, TypeOK, Writing, Reading, Ended, EndAfterLastMessage
<1> QED
    BY <1>1, StartStep, WriteStep, ReadStep, EofStep, OtherSteps DEF Next

-----------------------------------------------------------------------------
(* What the users of the connection see. *)

LEMMA SentAre ==
    ASSUME NEW S, NEW s \in Seq(S), NEW n \in 0 .. Len(s)
    PROVE  /\ SubSeq(s, 1, n) \in Seq(S) /\ Len(SubSeq(s, 1, n)) = n
           /\ \A i \in 1 .. n : SubSeq(s, 1, n)[i] = s[i]
<1>1. PICK l \in Nat : l = Len(s) /\ n \in 0 .. l /\ n \in Nat
    BY SeqIsFunction
<1>2. \A i \in 1 .. n : s[i] \in S
    BY <1>1, SeqIsFunction
<1>3. PICK t : t = SubSeq(s, 1, n)
    OBVIOUS
<1>4. /\ t \in Seq(S) /\ Len(t) = IF 1 <= n THEN n - 1 + 1 ELSE 0
      /\ \A i \in 1 .. (n - 1 + 1) : t[i] = s[1 + i - 1]
    BY <1>1, <1>2, <1>3, SubSeqProperties
<1>5. n - 1 + 1 = n /\ \A i \in 1 .. n : 1 + i - 1 = i
    BY <1>1
<1> QED
    BY <1>1, <1>3, <1>4, <1>5

LEMMA SentAdded ==
    ASSUME NEW S, NEW s \in Seq(S), NEW n \in 1 .. Len(s)
    PROVE  SubSeq(s, 1, n) = Append(SubSeq(s, 1, n - 1), s[n])
<1>1. PICK l \in Nat, m \in Nat : l = Len(s) /\ n \in Nat /\ n <= l /\ m = n - 1 /\ n = m + 1
    BY SeqIsFunction
<1>2. n \in 0 .. Len(s) /\ m \in 0 .. Len(s) /\ s[n] \in S
    BY <1>1, SeqElement
<1>3. PICK t \in Seq(S) : t = SubSeq(s, 1, n) /\ Len(t) = n /\ \A i \in 1 .. n : t[i] = s[i]
  <2>1. /\ SubSeq(s, 1, n) \in Seq(S) /\ Len(SubSeq(s, 1, n)) = n
        /\ \A i \in 1 .. n : SubSeq(s, 1, n)[i] = s[i]
      BY <1>2, SentAre
  <2> QED
      BY <2>1
<1>4. PICK u \in Seq(S) : u = SubSeq(s, 1, m) /\ Len(u) = m /\ \A i \in 1 .. m : u[i] = s[i]
  <2>1. /\ SubSeq(s, 1, m) \in Seq(S) /\ Len(SubSeq(s, 1, m)) = m
        /\ \A i \in 1 .. m : SubSeq(s, 1, m)[i] = s[i]
      BY <1>2, SentAre
  <2> QED
      BY <2>1
<1>5. PICK v \in Seq(S) : v = Append(u, s[n])
    BY <1>2, AppendProperties
<1>6. Len(v) = m + 1 /\ v[m + 1] = s[n] /\ \A i \in 1 .. m : v[i] = s[i]
    BY <1>2, <1>4, <1>5, AppendProperties
<1>7. \A i \in 1 .. n : t[i] = v[i]
    BY <1>1, <1>3, <1>6
<1>8. t = v
    BY <1>1, <1>3, <1>6, <1>7, SeqEqual
<1> QED
    BY <1>1, <1>3, <1>4, <1>5, <1>8

\* A message comes out whole, unchanged and in its turn.
LEMMA ReadGives ==
    ASSUME CodecWorks, MInv, Read
    PROVE  \/ UNCHANGED received
           \/ Len(received) < started /\ received' = Append(received, script[Len(received) + 1])
<1>1. taken < written /\ Len(received) < started
    BY MoreToRead, Types DEF Read, MInv, Writing
<1>2. PICK r \in Nat, n \in Nat \ {0} : \E w : InPacket(r, w) /\ n = Len(w)
    BY <1>1, PacketInHand
<1>3. PICK w : InPacket(r, w) /\ n = Len(w)
    BY <1>2
<1>4. UNCHANGED received \/ (rpc = "body" /\ TakeBody)
    BY DEF Read, TakeSize
<1>5. ASSUME rpc = "body", TakeBody PROVE received' = Append(received, script[r])
  <2>1. msgSize = Len(w)
      BY <1>3, <1>5 DEF MInv, Reading, InPacket
  <2>2. At(stream, base + SizeSize, msgSize) = w
      BY <1>3, <2>1 DEF InPacket
  <2> QED
      BY <1>3, <1>5, <2>2 DEF TakeBody, InPacket
<1> QED
    BY <1>1, <1>3, <1>4, <1>5 DEF InPacket

LEMMA ChannelInit == ASSUME Init PROVE Channel!Init
<1>1. script \in Seq(Message) /\ started = 0 /\ received = << >>
    BY MessagesAssumption DEF Init
<1>2. 0 \in 0 .. Len(script)
    BY <1>1, SeqIsFunction
<1>3. SubSeq(script, 1, 0) \in Seq(Message) /\ Len(SubSeq(script, 1, 0)) = 0
    BY <1>1, <1>2, SentAre
<1>4. SubSeq(script, 1, 0) = << >>
    BY <1>3, EmptySeq
<1> QED
    BY <1>1, <1>4 DEF Channel!Init, SentMessages

LEMMA ChannelStep ==
    ASSUME CodecWorks, MInv, [Next]_vars
    PROVE  [Channel!Next]_(Channel!vars)
<1>1. /\ script \in Seq(Message) /\ started \in 0 .. Len(script)
      /\ Len(script) \in Nat /\ Len(received) \in Nat
    BY Types DEF MInv
<1>2. CASE StartMessage
  <2>1. started < Len(script) /\ started' = started + 1 /\ UNCHANGED <<script, received>>
      BY <1>2 DEF StartMessage, readerVars
  <2>2. PICK n \in 1 .. Len(script) : n = started + 1 /\ n - 1 = started
      BY <1>1, <2>1
  <2>3. script[n] \in Message /\ SubSeq(script, 1, n) = Append(SubSeq(script, 1, n - 1), script[n])
      BY <1>1, <2>2, SentAdded, SeqElement
  <2>4. SentMessages' = Append(SentMessages, script[n])
      BY <2>1, <2>2, <2>3 DEF SentMessages
  <2> QED
      BY <2>1, <2>3, <2>4 DEF Channel!Next, Channel!Send
<1>3. CASE Read
  <2>1. UNCHANGED <<script, started>>
      BY <1>3 DEF Read, writerVars
  <2>2. UNCHANGED SentMessages
      BY <2>1 DEF SentMessages
  <2>3. CASE UNCHANGED received
      BY <2>2, <2>3 DEF Channel!vars
  <2>4. CASE Len(received) < started /\ received' = Append(received, script[Len(received) + 1])
    <3>1. Len(SentMessages) = started /\ \A i \in 1 .. started : SentMessages[i] = script[i]
        BY <1>1, SentAre DEF SentMessages
    <3>2. Len(received) + 1 \in 1 .. started
        BY <1>1, <2>4
    <3> QED
        BY <2>2, <2>4, <3>1, <3>2 DEF Channel!Next, Channel!Receive
  <2> QED
      BY <1>3, <2>3, <2>4, ReadGives
<1>4. CASE Write \/ WriteFails \/ ReadEof \/ ReadError \/ Interrupted
           \/ (\E end \in {"writer", "reader"} : Leave(end)) \/ UNCHANGED vars
  <2>1. UNCHANGED <<script, started, received>>
      BY <1>4 DEF Write, WriteFails, ReadEof, ReadError, Interrupted, Leave,
                  writerVars, readerVars, vars
  <2> QED
      BY <2>1 DEF SentMessages, Channel!vars
<1> QED
    BY <1>2, <1>3, <1>4 DEF Next

-----------------------------------------------------------------------------
(* The theorems. *)

LEMMA MInvHolds == Spec => []MInv
<1>1. CodecWorks
    BY Codec
<1>2. Init => MInv
    BY <1>1, InitStep
<1>3. MInv /\ [Next]_vars => MInv'
    BY <1>1, NextStep
<1> QED
    BY <1>2, <1>3, PTL DEF Spec

(* readMessage makes of the bytes of a message the message that writeMessage *)
(* laid out, whatever its files: the lengths and the offsets of the heads    *)
(* lead to the names and the contents.                                       *)
THEOREM MessagesComeBack ==
    ASSUME NEW m \in Message
    PROVE  MessageOf(MessageBytes(m)) = m
BY MessagesAssumption, LayoutRoundTrip

(* calcMsgSize, which the buffer of writeMessage is allocated with, is the   *)
(* number of bytes that writeMessage puts into it.                           *)
THEOREM SizeIsExact ==
    ASSUME NEW m \in Message
    PROVE  calcMsgSize(m) = Len(MessageBytes(m))
BY MessagesAssumption, SizeIs

(* What writeMessage allocates is what it fills: the calculated size and the *)
(* estimate of the compressor are exact for every message, and compression   *)
(* never costs more than its flag.                                           *)
THEOREM BuffersAreLargeEnough == Spec => []BuffersFit
<1>1. ASSUME NEW t \in SizeTable
      PROVE  t.calculated = t.written /\ t.estimate = t.bits /\ t.wire <= t.written + 1
  <2>1. PICK m \in Message :
          t = [msg |-> m, calculated |-> calcMsgSize(m), written |-> Len(MessageBytes(m)),
               estimate |-> Encoding(MessageBytes(m)).estimate,
               bits |-> Len(Encoding(MessageBytes(m)).bits),
               wire |-> Len(compress_data(MessageBytes(m)))]
      BY Zenon DEF SizeTable
  <2>2. IsMessage(m)
      BY MessagesAssumption
  <2>3. PICK data \in Seq(Bytes) : data = MessageBytes(m) /\ data # << >> /\ Len(data) < SizeLimit
      BY <2>2, MessageFits
  <2>4. calcMsgSize(m) = Len(data)
      BY <2>2, <2>3, SizeIs
  <2>5. Len(Encoding(data).bits) = Encoding(data).estimate
      BY <2>3, EstimateIsExact
  <2>6. Len(compress_data(data)) \in 1 .. Len(data) + 1
      BY <2>3, CompressionIsLossless
  <2>7. Len(compress_data(data)) <= Len(data) + 1
      BY <2>6
  <2>8. t = [msg |-> m, calculated |-> Len(data), written |-> Len(data),
             estimate |-> Encoding(data).estimate, bits |-> Encoding(data).estimate,
             wire |-> Len(compress_data(data))]
      BY <2>1, <2>3, <2>4, <2>5, Zenon
  <2> QED
      BY <2>7, <2>8
<1>2. BuffersFit
    BY <1>1 DEF BuffersFit
<1> QED
    BY <1>2, PTL

(* The variables keep their types; what readMessage returns is a message.    *)
THEOREM TransferTypes == Spec => []TypeOK
<1>1. MInv => TypeOK
    BY DEF MInv
<1> QED
    BY <1>1, MInvHolds, PTL

(* However readN and writeN are cut short or interrupted, the reader takes a *)
(* size where writeMessage put one, and as many bytes as it says.            *)
THEOREM ReaderIsAligned == Spec => []Aligned
<1>1. MInv => Aligned
    BY DEF MInv, Reading, Writing, Aligned
<1> QED
    BY <1>1, MInvHolds, PTL

(* A reader that is told that the connection ended has returned every        *)
(* message that was written to its last byte.                                *)
THEOREM EndComesLast == Spec => []EndAfterLastMessage
<1>1. MInv => EndAfterLastMessage
    BY DEF MInv, Ended, EndAfterLastMessage
<1> QED
    BY <1>1, MInvHolds, PTL

(* writeMessage and readMessage are a first-in first-out channel of whole    *)
(* messages, for any messages, sizes of the socket's buffer and short calls. *)
THEOREM TransferIsFifo == Spec => FifoDelivery
<1>1. CodecWorks
    BY Codec
<1>2. Init => Channel!Init
    BY ChannelInit
<1>3. MInv /\ [Next]_vars => [Channel!Next]_(Channel!vars)
    BY <1>1, ChannelStep
<1>4. Spec => Channel!Init /\ [][Channel!Next]_(Channel!vars)
    BY <1>2, <1>3, MInvHolds, PTL DEF Spec
<1> QED
    BY <1>4 DEF FifoDelivery, Channel!Spec
=============================================================================
