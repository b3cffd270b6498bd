------------------------------ MODULE Huffman ------------------------------
(***************************************************************************)
(* The compression of messages (common/src/huffman_encoding.c): pure       *)
(* functions on sequences of bytes (0..255) and of bits (0, 1).            *)
(*                                                                         *)
(* A tree is numbered as the encoder's array is, from 1: first the leaves, *)
(* in the order of the dictionary, then the merged roots as they appear.   *)
(* Left is bit 1 and right is bit 0.                                       *)
(*                                                                         *)
(* The loops over the data, the frequencies and the size that is read back *)
(* are ints in the code (lines 50, 91, 196, 269, 333-337), and a code has  *)
(* room for 128 bits (13): numbers and codes have no limit here, so that   *)
(* the module stands for data of less than 2^31 bytes, where no code is as *)
(* long as that.                                                           *)
(***************************************************************************)
EXTENDS Integers, Sequences, FiniteSets, SequencesExt

COMPRESSED_FLAG == 128
NOT_COMPRESSED_FLAG == 0

Bytes == 0 .. 255

\* write_byte: the most significant bit first.
BitsOfByte(b) == [i \in 1 .. 8 |-> (b \div 2^(8 - i)) % 2]

\* read_byte over a whole stream.
BitsOf(bytes) ==
    [i \in 1 .. 8 * Len(bytes) |-> BitsOfByte(bytes[(i - 1) \div 8 + 1])[((i - 1) % 8) + 1]]

\* write_bit: the last byte is filled up with zeros.
BytesOf(bits) ==
    LET Bit(i) == IF i <= Len(bits) THEN bits[i] ELSE 0
        Byte(k) == LET b == 8 * k - 8 IN
            128 * Bit(b + 1) + 64 * Bit(b + 2) + 32 * Bit(b + 3) + 16 * Bit(b + 4)
              + 8 * Bit(b + 5) + 4 * Bit(b + 6) + 2 * Bit(b + 7) + Bit(b + 8)
    IN  [k \in 1 .. (Len(bits) + 7) \div 8 |-> Byte(k)]

----------------------------------------------------------------------------
(* Compression *)

\* The entries of the dictionary the encoder goes on with: the bytes of the
\* data by frequency and then, unless all 256 occur, one byte that does not
\* occur.  Equal frequencies stay in byte order, as a stable sort leaves them.
Dictionary(data) ==
    LET used == ToSet(data)
        freq == [c \in used |-> Cardinality({i \in DOMAIN data : data[i] = c})]
        Before(c, d) == freq[c] < freq[d] \/ (freq[c] = freq[d] /\ c < d)
        place == [c \in used |-> Cardinality({d \in used : Before(d, c)}) + 1]
        sorted == [i \in 1 .. Cardinality(used) |-> CHOOSE c \in used : place[c] = i]
        unused == IF used = Bytes THEN <<>>
                  ELSE <<CHOOSE c \in Bytes \ used : \A d \in Bytes \ used : c <= d>>
    IN  [chr |-> sorted \o unused,
         freq |-> [i \in DOMAIN sorted |-> freq[sorted[i]]] \o [i \in DOMAIN unused |-> 0]]

\* One of the two lowest roots: a leaf wins over a merged root of its value.
TakeLowest(s) ==
    LET first0 == Len(s.dict)
        takesLeaf == /\ s.treeIndex <= first0
                     /\ \/ s.mergedIndex > Len(s.val)
                        \/ s.val[s.treeIndex] <= s.val[s.mergedIndex]
    IN  IF takesLeaf
        THEN [s EXCEPT !.treeIndex = @ + 1, !.taken = Append(@, s.treeIndex)]
        ELSE [s EXCEPT !.mergedIndex = @ + 1, !.taken = Append(@, s.mergedIndex)]

\* Merges until one root is left; sons[n] is <<>> for a leaf.
TreeOf(dict) ==
    LET first0 == Len(dict.chr)
        Start == [dict |-> dict.chr, val |-> dict.freq, treeIndex |-> 1,
                  mergedIndex |-> first0 + 1, taken |-> <<>>,
                  sons |-> [n \in 1 .. first0 |-> <<>>]]
        Merge(s) ==
            LET t == TakeLowest(TakeLowest(s)) IN
            [t EXCEPT !.val = Append(@, t.val[t.taken[1]] + t.val[t.taken[2]]),
                      !.sons = Append(@, t.taken), !.taken = <<>>]
        merged[k \in 0 .. first0 - 1] == IF k = 0 THEN Start ELSE Merge(merged[k - 1])
    IN  merged[first0 - 1]

\* The codes of the leaves below each node, as pairs of a leaf and its code.
Codes(tree) ==
    LET below[n \in DOMAIN tree.sons] ==
            IF tree.sons[n] = <<>> THEN {<<n, <<>>>>}
            ELSE {<<c[1], <<1>> \o c[2]>> : c \in below[tree.sons[n][1]]}
                   \cup {<<c[1], <<0>> \o c[2]>> : c \in below[tree.sons[n][2]]}
    IN  below[Len(tree.sons)]

\* The code of each byte that is in the dictionary.
TableOf(tree) ==
    LET codes == Codes(tree)
        leafOf(chr) == CHOOSE n \in DOMAIN tree.dict : tree.dict[n] = chr
    IN  [chr \in {tree.dict[n] : n \in DOMAIN tree.dict} |->
            (CHOOSE c \in codes : c[1] = leafOf(chr))[2]]

\* The tree as it is written, a node before its sons, the left one first.
TreeBits(tree) ==
    LET preorder[n \in DOMAIN tree.sons] ==
            IF tree.sons[n] = <<>> THEN <<1>> \o BitsOfByte(tree.dict[n])
            ELSE <<0>> \o preorder[tree.sons[n][1]] \o preorder[tree.sons[n][2]]
    IN  preorder[Len(tree.sons)]

\* The content, each byte replaced by its code.
CodeBits(data, table) == FlattenSeq([i \in DOMAIN data |-> table[data[i]]])

\* The size of the output in bits, computed before anything is written.
EstimatedBits(data, tree, table) ==
    LET lengths[i \in 0 .. Len(data)] ==
            IF i = 0 THEN 0 ELSE lengths[i - 1] + Len(table[data[i]])
    IN  (1 + 1 + 4) * 8 + (10 * Len(tree.dict) - 1) + lengths[Len(data)]

HeaderBytes(data, tree, padding) ==
    <<COMPRESSED_FLAG + padding, Len(tree.dict) - 1, (Len(data) \div 2^24) % 256,
      (Len(data) \div 2^16) % 256, (Len(data) \div 2^8) % 256, Len(data) % 256>>

\* What the encoder makes of the data: the estimate and the bits it writes.
Encoding(data) ==
    LET tree == TreeOf(Dictionary(data))
        table == TableOf(tree)
        estimate == EstimatedBits(data, tree, table)
    IN  [table |-> table, estimate |-> estimate,
         bits |-> BitsOf(HeaderBytes(data, tree, estimate % 8))
                    \o TreeBits(tree) \o CodeBits(data, table)]

CompressedSize(estimate) == estimate \div 8 + (IF estimate % 8 # 0 THEN 1 ELSE 0)

compress_data(data) ==
    IF data = <<>> THEN <<>>
    ELSE LET e == Encoding(data) IN
         IF CompressedSize(e.estimate) > Len(data)
         THEN <<NOT_COMPRESSED_FLAG>> \o data
         ELSE BytesOf(e.bits)

----------------------------------------------------------------------------
(* Decompression *)

\* The tree in the stream: node k (from 1) starts at bit pos[k]; the left son
\* of an inner node is the next node, the right one follows the left subtree.
ReadTree(bits, charCount) ==
    LET nodes == 1 .. 2 * charCount - 1
        start == 6 * 8 + 1
        pos[k \in 1 .. 2 * charCount] ==
            IF k = 1 THEN start
            ELSE LET p == pos[k - 1] IN p + (IF bits[p] = 1 THEN 9 ELSE 1)
        leaf == [k \in nodes |-> bits[pos[k]] = 1]
        next[k \in nodes] == IF leaf[k] THEN k + 1 ELSE next[next[k + 1]]
    IN  [leaf |-> leaf, left |-> [k \in nodes |-> k + 1],
         right |-> [k \in nodes |-> IF leaf[k] THEN 0 ELSE next[k + 1]],
         val |-> [k \in nodes |->
                    IF leaf[k] THEN BytesOf(SubSeq(bits, pos[k] + 1, pos[k] + 8))[1] ELSE -1],
         end |-> pos[2 * charCount]]

\* The last bit of the content: the code decodes first the bits up to the next
\* byte, then whole bytes, and of the last byte only "padding" bits, if any.
LastBit(size, padding) == IF padding = 0 THEN 8 * size ELSE 8 * (size - 1) + padding

\* The bytes that the codes from bit tree.end to bit last stand for.
DecodeBits(bits, tree, last) ==
    LET walk[p \in tree.end .. last + 1] ==
            [n \in DOMAIN tree.leaf |->
                IF tree.leaf[n] \/ p > last THEN <<n, p>>
                ELSE walk[p + 1][IF bits[p] = 1 THEN tree.left[n] ELSE tree.right[n]]]
        from[p \in tree.end .. last + 1] ==
            LET w == walk[p][1] IN
            IF tree.leaf[w[1]] THEN <<tree.val[w[1]]>> \o from[w[2]] ELSE <<>>
    IN  from[tree.end]

decompress_data(bytes) ==
    IF bytes = <<>> THEN <<>>
    ELSE IF bytes[1] < COMPRESSED_FLAG THEN Tail(bytes)
    ELSE LET bits == BitsOf(bytes)
             originalSize == bytes[3] * 2^24 + bytes[4] * 2^16 + bytes[5] * 2^8 + bytes[6]
             out == DecodeBits(bits, ReadTree(bits, bytes[2] + 1),
                               LastBit(Len(bytes), bytes[1] % 64))
         IN  SubSeq(out \o [i \in 1 .. originalSize |-> 0], 1, originalSize)
============================================================================
