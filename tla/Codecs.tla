------------------------------- MODULE Codecs -------------------------------
(***************************************************************************)
(* Conversions: the frames of SPIKE Prime (crates/rust-spike/src/cobs.rs)  *)
(* and the binary messages of the network (crates/bricklogo-net/src/       *)
(* protocol.rs), each as an operator.                                      *)
(***************************************************************************)
EXTENDS Integers, Sequences, SequencesExt

CONSTANTS
  MaxBlock,   (* MAX_BLOCK_SIZE of a frame (84)                            *)
  Lengths     (* how many lengths two bytes can hold (2^16)                *)

----------------------------------------------------------------------------
(* cobs.rs.  The XOR of every byte with 3 is its own inverse and only      *)
(* moves 0, 1 and 2 to 3, 2 and 1: what must not occur in a frame is what  *)
(* must not occur in Cobs.                                                 *)

Delimiters == 0 .. 2
NoDelimiter == 255

(* The code word of a block of n bytes (the code word one of them) that    *)
(* byte d ended.                                                           *)
Code(d, n) == d * MaxBlock + n + 2

(* encode: out are the blocks that are full, block the bytes of the last.  *)
RECURSIVE Blocks(_, _, _)
Blocks(data, out, block) ==
  IF data = <<>> THEN out \o <<Code(0, Len(block) + 1)>> \o block
  ELSE LET byte == Head(data)
           longer == Append(block, byte)
       IN  IF byte \in Delimiters
           THEN Blocks(Tail(data), out \o <<Code(byte, Len(block) + 1)>> \o block, <<>>)
           ELSE IF Len(longer) = MaxBlock
           THEN Blocks(Tail(data), out \o <<NoDelimiter>> \o longer, <<>>)
           ELSE Blocks(Tail(data), out, longer)
Cobs(data) == Blocks(data, <<>>, <<>>)

(* Mutant of Unescape: a block that is full is not told from an empty one  *)
(* of the next delimiter.                                                  *)
UnescapePlain(code) ==
  IF code = NoDelimiter THEN [value |-> NoDelimiter, block |-> MaxBlock + 1]
  ELSE [value |-> (code - 2) \div MaxBlock, block |-> (code - 2) % MaxBlock]

(* The byte a block ended with, and its length.                            *)
Unescape(code) ==
  IF code = NoDelimiter THEN [value |-> NoDelimiter, block |-> MaxBlock + 1]
  ELSE LET raw == code - 2 IN
       IF raw % MaxBlock = 0 THEN [value |-> raw \div MaxBlock - 1, block |-> MaxBlock]
       ELSE [value |-> raw \div MaxBlock, block |-> raw % MaxBlock]

(* decode: the byte that ended a block appears before the next block.      *)
RECURSIVE Unblock(_, _, _)
Unblock(rest, at, out) ==
  IF rest = <<>> THEN out
  ELSE IF at.block > 1
  THEN Unblock(Tail(rest), [at EXCEPT !.block = at.block - 1], Append(out, Head(rest)))
  ELSE Unblock(Tail(rest), Unescape(Head(rest)),
               IF at.value = NoDelimiter THEN out ELSE Append(out, at.value))
Uncobs(data) == IF data = <<>> THEN <<>> ELSE Unblock(Tail(data), Unescape(Head(data)), <<>>)

(* What decode gives back, from bytes a frame may hold.                    *)
FrameReadsBack(data) ==
  /\ Uncobs(Cobs(data)) = data
  /\ \A i \in DOMAIN Cobs(data) : Cobs(data)[i] \notin Delimiters

----------------------------------------------------------------------------
(* protocol.rs, of a Set or a Snapshot.  A value is a number, a word (a    *)
(* sequence of bytes) or a list of values; a variable's name is a word.  A *)
(* number is one byte here, and so is a length.                            *)

NumberTag == 1
WordTag == 2
ListTag == 3
Value(k, bytes, items) == [k |-> k, bytes |-> bytes, items |-> items]

WriteString(word) == <<Len(word) % Lengths>> \o word

RECURSIVE WriteValue(_), WriteValues(_)
WriteValue(value) ==
  CASE value.k = "number" -> <<NumberTag>> \o value.bytes
    [] value.k = "word" -> <<WordTag>> \o WriteString(value.bytes)
    [] value.k = "list" -> <<ListTag, Len(value.items) % Lengths>> \o WriteValues(value.items)
WriteValues(values) ==
  IF values = <<>> THEN <<>> ELSE WriteValue(Head(values)) \o WriteValues(Tail(values))

(* write_vars; the order of the HashMap is the order of the sequence.      *)
RECURSIVE WritePairs(_)
WritePairs(pairs) ==
  IF pairs = <<>> THEN <<>>
  ELSE WriteString(Head(pairs).name) \o WriteValue(Head(pairs).value) \o WritePairs(Tail(pairs))
WriteVars(pairs) == <<Len(pairs) % Lengths>> \o WritePairs(pairs)

(* A read gives what was read and the bytes left, or fails at their end.   *)
Got(what, rest) == [ok |-> TRUE, what |-> what, rest |-> rest]
Failed == [ok |-> FALSE, what |-> <<>>, rest |-> <<>>]

ReadString(data) ==
  IF data = <<>> \/ Len(data) - 1 < Head(data) THEN Failed
  ELSE Got(SubSeq(data, 2, Head(data) + 1), SubSeq(data, Head(data) + 2, Len(data)))

RECURSIVE ReadValue(_), ReadValues(_, _, _)
ReadValue(data) ==
  IF Len(data) < 2 THEN Failed
  ELSE CASE data[1] = NumberTag ->
              Got(Value("number", <<data[2]>>, <<>>), SubSeq(data, 3, Len(data)))
         [] data[1] = WordTag ->
              LET word == ReadString(Tail(data))
              IN  IF word.ok THEN Got(Value("word", word.what, <<>>), word.rest) ELSE word
         [] data[1] = ListTag -> ReadValues(SubSeq(data, 3, Len(data)), data[2], <<>>)
         [] OTHER -> Failed
ReadValues(data, n, values) ==
  IF n = 0 THEN Got(Value("list", <<>>, values), data)
  ELSE LET value == ReadValue(data)
       IN  IF value.ok THEN ReadValues(value.rest, n - 1, Append(values, value.what)) ELSE value

RECURSIVE ReadPairs(_, _, _)
ReadPairs(data, n, pairs) ==
  IF n = 0 THEN Got(pairs, data)
  ELSE LET name == ReadString(data)
           value == ReadValue(name.rest)
       IN  IF name.ok /\ value.ok
           THEN ReadPairs(value.rest, n - 1, Append(pairs, [name |-> name.what, value |-> value.what]))
           ELSE Failed
ReadVars(data) == IF data = <<>> THEN Failed ELSE ReadPairs(Tail(data), Head(data), <<>>)

(* No length is cut to two bytes.                                          *)
RECURSIVE ValueFits(_)
ValueFits(value) ==
  /\ value.k # "number" => Len(value.bytes) < Lengths /\ Len(value.items) < Lengths
  /\ \A i \in DOMAIN value.items : ValueFits(value.items[i])
Fits(pairs) ==
  /\ Len(pairs) < Lengths
  /\ \A i \in DOMAIN pairs : Len(pairs[i].name) < Lengths /\ ValueFits(pairs[i].value)

(* A message whose lengths fit is read back; any other is another message  *)
(* or an error, of which the sender learns nothing.                        *)
MessageReadsBack(pairs) ==
  LET read == ReadVars(WriteVars(pairs))
  IN  (read.ok /\ read.what = pairs) <=> Fits(pairs)
=============================================================================
