---------------------------- MODULE MCMessages ----------------------------
EXTENDS Messages

Uid == [i \in 1 .. UuidSize |-> 10 * i]
Zero == [i \in 1 .. UuidSize |-> 0]
Text(n) == [i \in 1 .. n |-> IF i % 3 = 0 THEN 98 ELSE 97]
File(name, content) == [name |-> name, content |-> content]
Msg(type, uid, num, files) == [type |-> type, uid |-> uid, num |-> num, files |-> files]

\* Every layout, with empty and with repetitive contents; what the compressor
\* can shorten and what it cannot.
OpenSession == Msg(MSG_REQ_OPEN_SESSION, Uid, 0, << >>)
ReadN == Msg(MSG_REQ_READ_N_FILES, Zero, 300, << >>)
OpenFile == Msg(MSG_REQ_OPEN_FILE, Zero, 3, <<File(Text(2), << >>)>>)
WriteFile == Msg(MSG_REQ_WRITE_FILE, Uid, 0, <<File(Text(3), Text(40))>>)
Append0 == Msg(MSG_REQ_APPEND_TO_FILE, Zero, 0, <<File(Text(9), <<0>>)>>)
Simple == Msg(MSG_RESP_SIMPLE, Uid, 1, << >>)
NoFiles == Msg(MSG_RESP_WITH_FILES, Zero, 1, << >>)
TwoFiles == Msg(MSG_RESP_WITH_FILES, Zero, 1, <<File(Text(2), << >>), File(<<99>>, <<255, 0>>)>>)

\* With these the last byte of the compressed messages ends at each of its bits.
AppendText(n) == Msg(MSG_REQ_APPEND_TO_FILE, Uid, 0, <<File(<<97>>, Text(n))>>)

MCMessage == {OpenSession, ReadN, OpenFile, WriteFile, Append0, Simple, NoFiles, TwoFiles} \cup {AppendText(n) : n \in {43, 45}}
MCScripts == {<<OpenSession, ReadN, OpenFile>>, <<WriteFile, Append0>>,
              <<Simple, TwoFiles>>, <<NoFiles, WriteFile>>}
             \cup {<<AppendText(n)>> : n \in {43, 45}}

\* Proved of all messages in MessagesProofs, evaluated here of these.
ASSUME CompressionAssumption == CompressionLossless
===========================================================================
