------------------------------ MODULE Messages ------------------------------
(***************************************************************************)
(* readMessage and writeMessage (common/src/net.c) over one direction of a *)
(* connection: readN and writeN move the size of a message and then its    *)
(* bytes in as many read and write calls as it takes, some of them short   *)
(* or interrupted, until an end leaves.                                    *)
(*                                                                         *)
(* The bytes are numbered as they are handed to the connection: those up   *)
(* to "written" are in the socket and those up to "taken" out of it again. *)
(* Messages may follow each other without waiting for an answer, which is  *)
(* more than the client and the server do.                                 *)
(***************************************************************************)
EXTENDS Naturals, Sequences, Huffman, Layout

CONSTANTS
    Message,    \* the messages, records as in Layout
    Scripts,    \* bound: the sequences of messages a writer may send
    Room,       \* bytes the socket holds before write blocks
    Shorts,     \* bound: the sizes of the short reads and writes
    MaxFaults   \* bound: how many calls are short or interrupted

\* The messages the program makes (net.h): a request that names a file has one
\* file, only a reply may have any number.  Bound: numbers and sizes below 2^31
\* (MaxNumber), and no negative numbers.
MaxNumber == 2147483647

IsMessage(m) ==
    /\ m \in [type : HasNum \cup {MSG_REQ_OPEN_SESSION, MSG_REQ_CLOSE_SESSION},
              uid : Seq(Bytes), num : 0 .. MaxNumber,
              files : Seq([name : Seq(Bytes), content : Seq(Bytes)])]
    /\ Len(m.uid) = UuidSize
    /\ m.type \notin HasNum => m.num = 0
    /\ m.type \in FileRequests => Len(m.files) = 1
    /\ m.type \notin FileRequests \cup {MSG_RESP_WITH_FILES} => Len(m.files) = 0
    /\ Len(MessageBytes(m)) < MaxNumber

ASSUME MessagesAssumption ==
    /\ \A m \in Message : IsMessage(m)
    /\ Scripts \subseteq Seq(Message)
    /\ Room \in Nat \ {0} /\ Shorts \subseteq Nat \ {0} /\ MaxFaults \in Nat

VARIABLES
    compress,   \* built with COMPRESS_MESSAGES?
    script,     \* the messages to send
    started,    \* how many of them writeMessage was called for
    stream,     \* every byte handed to the connection, or about to be
    wpc, wstart, written,       \* the writer: state, first byte of its message
    rpc, base, msgSize, taken,  \* the reader: state, first byte of its message
    received,   \* the messages returned
    gone,       \* the ends that have left
    faults

writerVars == <<script, started, stream, wpc, wstart, written>>
readerVars == <<rpc, base, msgSize, taken, received>>
vars == <<compress, writerVars, readerVars, gone, faults>>

----------------------------------------------------------------------------
(* The bytes of a message after the size, and back. *)

\* The part of writeMessage before the socket is touched.
ToWire(c, m) == IF c THEN compress_data(MessageBytes(m)) ELSE MessageBytes(m)
WireTable == {<<ToWire(c, m), c, m>> : c \in BOOLEAN, m \in Message}
Wire(c, m) == (CHOOSE t \in WireTable : t[2] = c /\ t[3] = m)[1]

\* The part of readMessage after the last read; for the bytes of a whole message
\* the result is in a table, so that it is computed once.
FromWire(c, bytes) == MessageOf(IF c THEN decompress_data(bytes) ELSE bytes)
ReadTable == {<<FromWire(t[2], t[1]), t[2], t[1]>> : t \in WireTable}
Returned(c, bytes) ==
    LET known == {t \in ReadTable : t[2] = c /\ t[3] = bytes} IN
    IF known = {} THEN FromWire(c, bytes) ELSE (CHOOSE t \in known : TRUE)[1]

\* Decompression gives back what was compressed, and there is always a byte.
CompressionLossless ==
    \A data \in {MessageBytes(m) : m \in Message} \cap Seq(Bytes) :
        LET packed == compress_data(data) IN
        /\ packed \in Seq(Bytes) /\ Len(packed) \in 1 .. MaxNumber
        /\ decompress_data(packed) = data

\* Each message with the sizes computed beforehand and those of the output.
SizeTable ==
    {LET plain == MessageBytes(m)  e == Encoding(plain) IN
     [msg |-> m, calculated |-> calcMsgSize(m), written |-> Len(plain),
      estimate |-> e.estimate, bits |-> Len(e.bits), wire |-> Len(compress_data(plain))]
        : m \in Message}

\* (fault: the size counts its own bytes.)
Packet_SizeOfAll(c, m) == Field(SizeSize, SizeSize + Len(Wire(c, m))) \o Wire(c, m)

\* The size and the bytes.
Packet(c, m) == Field(SizeSize, Len(Wire(c, m))) \o Wire(c, m)

----------------------------------------------------------------------------
Init ==
    /\ compress \in BOOLEAN /\ script \in Scripts
    /\ started = 0 /\ stream = << >>
    /\ wpc = "idle" /\ wstart = 0 /\ written = 0
    /\ rpc = "size" /\ base = 0 /\ msgSize = 0 /\ taken = 0
    /\ received = << >> /\ gone = {} /\ faults = 0

\* Where the writeN, or the readN, that is going on ends.
WriteEnd == IF written < wstart + SizeSize THEN wstart + SizeSize ELSE Len(stream)
ReadEnd == base + SizeSize + (IF rpc = "body" THEN msgSize ELSE 0)

\* A call moves all it can, or fewer bytes, which counts as a fault.
Amounts(most) == {most} \cup {k \in Shorts : k < most /\ faults < MaxFaults}
CountShort(k, most) == faults' = IF k < most THEN faults + 1 ELSE faults

\* writeMessage: the message is laid out in the buffer and compressed.
StartMessage ==
    /\ wpc = "idle" /\ "writer" \notin gone /\ started < Len(script)
    /\ started' = started + 1
    /\ stream' = stream \o Packet(compress, script[started + 1])
    /\ wpc' = "writing" /\ wstart' = Len(stream)
    /\ UNCHANGED <<compress, script, written, readerVars, gone, faults>>

\* The most a write can move, and the most a read can.
Writable ==
    LET left == WriteEnd - written  fits == Room - (written - taken) IN
    IF left < fits THEN left ELSE fits
Readable ==
    LET left == ReadEnd - taken  there == written - taken IN
    IF left < there THEN left ELSE there

\* (fault: a short write is taken for the end of the message.)
Write_NoLoop ==
    /\ wpc = "writing" /\ gone = {} /\ written - taken < Room
    /\ \E k \in Amounts(Writable) :
          /\ CountShort(k, Writable)
          /\ written' = written + k
          /\ wpc' = IF written >= wstart + SizeSize THEN "idle" ELSE "writing"
    /\ UNCHANGED <<compress, script, started, stream, wstart, readerVars, gone>>

\* write puts k bytes into the socket; after the last one the call returns.
Write ==
    /\ wpc = "writing" /\ gone = {} /\ written - taken < Room
    /\ \E k \in Amounts(Writable) :
          /\ CountShort(k, Writable)
          /\ written' = written + k
          /\ wpc' = IF written + k = Len(stream) THEN "idle" ELSE "writing"
    /\ UNCHANGED <<compress, script, started, stream, wstart, readerVars, gone>>

\* write fails when nobody can read: writeMessage returns -1.
WriteFails ==
    /\ wpc = "writing" /\ "writer" \notin gone /\ "reader" \in gone
    /\ wpc' = "failed"
    /\ UNCHANGED <<compress, script, started, stream, wstart, written, readerVars, gone, faults>>

\* The size is complete: the buffer is made large enough for the body.
TakeSize ==
    /\ msgSize' = Number(At(stream, base, SizeSize))
    /\ rpc' = "body"
    /\ UNCHANGED <<base, received>>

\* The body is complete: readMessage returns the message.
TakeBody ==
    /\ received' = Append(received, Returned(compress, At(stream, base + SizeSize, msgSize)))
    /\ rpc' = "size" /\ base' = taken'
    /\ UNCHANGED msgSize

\* read takes k bytes out of the socket.
Read ==
    /\ rpc \in {"size", "body"} /\ "reader" \notin gone /\ taken < written
    /\ \E k \in Amounts(Readable) :
          /\ CountShort(k, Readable)
          /\ taken' = taken + k
          /\ \/ taken + k < ReadEnd /\ UNCHANGED <<rpc, base, msgSize, received>>
             \/ taken + k = ReadEnd /\ rpc = "size" /\ TakeSize
             \/ taken + k = ReadEnd /\ rpc = "body" /\ TakeBody
    /\ UNCHANGED <<compress, writerVars, gone>>

\* (fault: a read that finds nothing yet is taken for the end.)
ReadEof_Early ==
    /\ rpc \in {"size", "body"} /\ "reader" \notin gone /\ taken = written
    /\ rpc' = "eof"
    /\ UNCHANGED <<compress, writerVars, base, msgSize, taken, received, gone, faults>>

\* (fault: within a message the read is made again.)
ReadEof_Retry ==
    /\ rpc \in {"size", "body"} /\ "reader" \notin gone
    /\ "writer" \in gone /\ taken = written /\ taken = base
    /\ rpc' = "eof"
    /\ UNCHANGED <<compress, writerVars, base, msgSize, taken, received, gone, faults>>

\* read returns 0, wherever in a message it happens: readMessage returns 0.
ReadEof ==
    /\ rpc \in {"size", "body"} /\ "reader" \notin gone
    /\ "writer" \in gone /\ taken = written
    /\ rpc' = "eof"
    /\ UNCHANGED <<compress, writerVars, base, msgSize, taken, received, gone, faults>>

\* The writer left without having read all that was sent to it, and the system
\* resets the connection: readMessage returns -1.
ReadError ==
    /\ rpc \in {"size", "body"} /\ gone = {"writer"}
    /\ rpc' = "error"
    /\ UNCHANGED <<compress, writerVars, base, msgSize, taken, received, gone, faults>>

\* EINTR: the call is made again.
Interrupted ==
    /\ faults < MaxFaults /\ faults' = faults + 1
    /\ \/ wpc = "writing" /\ "writer" \notin gone
       \/ rpc \in {"size", "body"} /\ "reader" \notin gone
    /\ UNCHANGED <<compress, writerVars, readerVars, gone>>

\* A process closes the connection or ends, in the middle of a call or not.
Leave(end) ==
    /\ end \notin gone /\ gone' = gone \cup {end}
    /\ UNCHANGED <<compress, writerVars, readerVars, faults>>

Next ==
    \/ StartMessage \/ Write \/ WriteFails
    \/ Read \/ ReadEof \/ ReadError \/ Interrupted
    \/ \E end \in {"writer", "reader"} : Leave(end)

\* The calls on the socket that can go on do.
Fairness ==
    WF_vars(Write) /\ WF_vars(WriteFails) /\ WF_vars(Read) /\ WF_vars(ReadEof)

Spec == Init /\ [][Next]_vars /\ Fairness

----------------------------------------------------------------------------
(* Properties *)

SentMessages == SubSeq(script, 1, started)

TypeOK ==
    /\ compress \in BOOLEAN /\ script \in Scripts /\ started \in 0 .. Len(script)
    /\ stream \in Seq(Bytes) /\ received \in Seq(Message)
    /\ wpc \in {"idle", "writing", "failed"} /\ rpc \in {"size", "body", "eof", "error"}
    /\ {wstart, written, base, msgSize, taken} \subseteq Nat /\ faults \in 0 .. MaxFaults
    /\ gone \subseteq {"writer", "reader"}

\* Where packet n + 1 of the script starts in the stream.
PacketStart(n) ==
    PrefixSums([i \in 1 .. n |-> Len(Packet(compress, script[i]))])[n]

\* However the calls are cut, readMessage reads a size where one was written
\* and a body of that size: it never takes bytes of another message.
Aligned ==
    /\ base = PacketStart(Len(received))
    /\ base <= taken /\ taken <= written /\ written <= Len(stream)
    /\ rpc = "body" => /\ Len(received) < started
                       /\ msgSize = Len(Wire(compress, script[Len(received) + 1]))

\* When readMessage reports the end of the connection, every message that was
\* written to its last byte has been returned.
EndAfterLastMessage ==
    rpc = "eof" => \/ Len(received) = started
                  \/ written < PacketStart(Len(received) + 1)

\* calcMsgSize and the estimate of the compressor, which the buffers are
\* allocated with, are what is written into them; compression never costs more
\* than its flag.
BuffersFit ==
    \A t \in SizeTable : t.msg \in {script[i] : i \in 1 .. started} =>
        /\ t.calculated = t.written
        /\ t.estimate = t.bits
        /\ t.wire <= t.written + 1

\* The connection as its users see it: a message put in by writeMessage comes
\* out of readMessage whole, unchanged and in order.
Channel == INSTANCE MessageChannel WITH sent <- SentMessages
FifoDelivery == Channel!Spec

\* As long as both ends stay, each message is received, although calls are cut
\* short and interrupted.
EveryMessageArrives ==
    \A n \in 1 .. 3 : started >= n ~> Len(received) >= n \/ gone # {}

\* When the other end leaves, no call waits for ever.
NobodyWaitsAlone ==
    /\ "writer" \in gone ~> rpc \in {"eof", "error"} \/ "reader" \in gone
    /\ "reader" \in gone ~> wpc # "writing" \/ "writer" \in gone
=============================================================================
