------------------------------- MODULE Layout -------------------------------
(***************************************************************************)
(* What a message is on the wire (common/src/net.c): the header, then one  *)
(* group of lengths and offsets for each file, then the raw bytes the      *)
(* offsets are relative to.  The widths are those of a 64 bit build.       *)
(*                                                                         *)
(* A message is [type, uid, num, files]: num is the flags of a request or  *)
(* the status of a reply (0 where the type has neither), and files is the  *)
(* sequence of the attached files, [name, content], two byte strings.  A   *)
(* NULL pointer is an empty string: both have length 0.                    *)
(***************************************************************************)
EXTENDS Integers, Sequences, SequencesExt, Sums

UuidSize == 16
IntSize == 4      \* int and the two enumerations
SizeSize == 8     \* size_t

MSG_REQ_OPEN_SESSION == 1
MSG_REQ_CLOSE_SESSION == 2
MSG_REQ_OPEN_FILE == 3
MSG_REQ_READ_N_FILES == 9
MSG_REQ_WRITE_FILE == 10
MSG_REQ_APPEND_TO_FILE == 11
MSG_RESP_SIMPLE == 20
MSG_RESP_WITH_FILES == 21

\* The requests that name a file: 3 to 8, 10 and 11.
FileRequests == MSG_REQ_OPEN_FILE .. MSG_REQ_APPEND_TO_FILE \ {MSG_REQ_READ_N_FILES}
HasNum == FileRequests \cup {MSG_REQ_READ_N_FILES, MSG_RESP_SIMPLE, MSG_RESP_WITH_FILES}

\* (fault: the bytes are not cut to eight bits.)
Field_Unmasked(width, n) == [i \in 1 .. width |-> IF i > 4 THEN 0 ELSE n \div 256^(i - 1)]

\* An unsigned number in memory, the least significant byte first; numbers
\* below 2^31 only, whose bytes from the fifth on are zero.
Field(width, n) == [i \in 1 .. width |-> IF i > 4 THEN 0 ELSE (n \div 256^(i - 1)) % 256]
Number(bytes) == bytes[1] + bytes[2] * 2^8 + bytes[3] * 2^16 + bytes[4] * 2^24

\* What readFromBuffer copies: "width" bytes from offset "from".
At(bytes, from, width) == SubSeq(bytes, from + 1, from + width)

RawOf(m) == FlattenSeq([i \in DOMAIN m.files |-> m.files[i].name \o m.files[i].content])

\* rawBufferIndex when each file is reached.
RawIndex(m) ==
    PrefixSums([i \in DOMAIN m.files |-> Len(m.files[i].name) + Len(m.files[i].content)])

\* (fault: the offset is not advanced by the length of the name.)
HeadsOf_SameOffset(m) ==
    LET Head4(i) ==
            LET f == m.files[i]  index == RawIndex(m)[i - 1] IN
            Field(SizeSize, Len(f.name)) \o Field(SizeSize, index)
              \o Field(SizeSize, Len(f.content)) \o Field(SizeSize, index)
    IN  FlattenSeq([i \in DOMAIN m.files |-> Head4(i)])

\* The two lengths and the two offsets of each file.
HeadsOf(m) ==
    LET Head4(i) ==
            LET f == m.files[i]  index == RawIndex(m)[i - 1] IN
            Field(SizeSize, Len(f.name)) \o Field(SizeSize, index)
              \o Field(SizeSize, Len(f.content)) \o Field(SizeSize, index + Len(f.name))
    IN  FlattenSeq([i \in DOMAIN m.files |-> Head4(i)])

\* What writeMessage puts into its buffer.
MessageBytes(m) ==
    m.uid \o Field(IntSize, m.type)
      \o (IF m.type \in HasNum THEN Field(IntSize, m.num) ELSE <<>>)
      \o (IF m.type = MSG_RESP_WITH_FILES THEN Field(IntSize, Len(m.files)) ELSE <<>>)
      \o HeadsOf(m) \o RawOf(m)

\* (fault: the lengths and offsets of one file only.)
calcMsgSize_OneHead(m) ==
    Len(MessageBytes(m)) - (IF Len(m.files) = 2 THEN 4 * SizeSize ELSE 0)

\* The size of that buffer, computed before it is written.
calcMsgSize(m) ==
    LET sizes == RawIndex(m)[Len(m.files)] IN
    UuidSize + IntSize
      + (CASE m.type = MSG_REQ_READ_N_FILES -> IntSize
           [] m.type \in FileRequests -> IntSize + 4 * SizeSize + sizes
           [] m.type = MSG_RESP_SIMPLE -> IntSize
           [] m.type = MSG_RESP_WITH_FILES ->
                 2 * IntSize + Len(m.files) * 4 * SizeSize + sizes
           [] OTHER -> 0)

\* A file as readMessage finds it: the head at an offset of the buffer, then
\* pointers into the raw bytes, NULL for what has length 0 (convertOffsetToPtr).
FileAt(bytes, head, raw) ==
    LET N(k) == Number(At(bytes, head + k * SizeSize, SizeSize))
        Piece(len, offset) == IF len = 0 THEN <<>> ELSE At(bytes, raw + offset, len)
    IN  [name |-> Piece(N(0), N(1)), content |-> Piece(N(2), N(3))]

\* What readMessage makes of the bytes.
MessageOf(bytes) ==
    LET type == Number(At(bytes, UuidSize, IntSize))
        body == UuidSize + IntSize
        num == IF type \in HasNum THEN Number(At(bytes, body, IntSize)) ELSE 0
        numFiles == IF type \in FileRequests THEN 1
                    ELSE IF type # MSG_RESP_WITH_FILES THEN 0
                    ELSE Number(At(bytes, body + IntSize, IntSize))
        heads == body + IntSize + (IF type = MSG_RESP_WITH_FILES THEN IntSize ELSE 0)
        raw == heads + numFiles * 4 * SizeSize
    IN  [type |-> type, uid |-> At(bytes, 0, UuidSize), num |-> num,
         files |-> [i \in 1 .. numFiles |-> FileAt(bytes, heads + (i - 1) * 4 * SizeSize, raw)]]
=============================================================================
