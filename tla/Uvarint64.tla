------------------------------ MODULE Uvarint64 ------------------------------
(***************************************************************************)
(* The variable-length integers of the transaction format: seven bits to a *)
(* byte, the lowest first, with the top bit set on every byte but the      *)
(* last.  The wallet reads those the backend wrote, and writes its own.    *)
(*                                                                         *)
(* A number is the set of the positions of its 1 bits, which makes "or" a  *)
(* union and a shift an addition to every position.  The bitwise operators *)
(* of the language work on 32 bit words, and shift by the amount modulo    *)
(* 32; the last step of reading uses arbitrary precision.                  *)
(***************************************************************************)
EXTENDS Integers, Sequences, FiniteSets

CONSTANT Number   \* the numbers to write and to read

GroupBits == 7
WordBits  == 32
LastIndex == 9

Bits == 0 .. 63
ASSUME NumberAssumption == \A n \in Number : n \subseteq Bits

\* What reading returns when the sign bit of the word is set.
Negative == {-1}

Byte == [bits : SUBSET (0 .. GroupBits - 1), more : BOOLEAN]

\* uint >= 0x80
IsLong(uint) == \E b \in uint : b >= GroupBits

\* The encoding the backend uses: as many groups as the highest bit needs.
Groups(n) == CHOOSE k \in 1 .. LastIndex + 1 :
                /\ \A b \in n : b < GroupBits * k
                /\ k = 1 \/ \E b \in n : b >= GroupBits * (k - 1)
Canonical(n) ==
    [k \in 1 .. Groups(n) |->
        [bits |-> {b \in 0 .. GroupBits - 1 : b + GroupBits * (k - 1) \in n},
         more |-> k < Groups(n)]]

VARIABLES
    number,     \* the number that is written
    kept,       \* how many bytes of it reach the reader
    pc,         \* "write", "read", "done" or "thrown"
    uint,       \* what is left to write
    buffer,     \* the bytes
    i, s, x,    \* index, shift and word of the reader
    result

vars == <<number, kept, pc, uint, buffer, i, s, x, result>>

\* The wallet writes a number itself, or reads one the backend wrote, all of
\* it or, if the transaction was cut off, a part of it.
Init ==
    /\ number \in Number
    /\ \/ /\ pc = "write" /\ buffer = <<>> /\ kept = Groups(number)
       \/ /\ pc = "read"
          /\ kept \in 0 .. Groups(number)
          /\ buffer = SubSeq(Canonical(number), 1, kept)
    /\ uint = number
    /\ i = 0 /\ s = 0 /\ x = {}
    /\ result = {}

----------------------------------------------------------------------------
(* uvarint64ToBuf *)

\* Faulty variant: the byte keeps only six bits of the number.
WriteByteShort ==
    /\ pc = "write"
    /\ IsLong(uint)
    /\ buffer' = Append(buffer, [bits |-> uint \cap (0 .. GroupBits - 2), more |-> TRUE])
    /\ uint' = {b \in Bits : b + GroupBits \in uint}
    /\ UNCHANGED <<number, kept, pc, i, s, x, result>>

\* uint >>>= 7 cuts uint to a word first.
WriteByte ==
    /\ pc = "write"
    /\ IsLong(uint)
    /\ buffer' = Append(buffer, [bits |-> uint \cap (0 .. GroupBits - 1), more |-> TRUE])
    /\ uint' = {b \in Bits : b + GroupBits \in uint \cap (0 .. WordBits - 1)}
    /\ UNCHANGED <<number, kept, pc, i, s, x, result>>

WriteLast ==
    /\ pc = "write"
    /\ ~IsLong(uint)
    /\ buffer' = Append(buffer, [bits |-> uint, more |-> FALSE])
    /\ pc' = "read"
    /\ UNCHANGED <<number, kept, uint, i, s, x, result>>

----------------------------------------------------------------------------
(* bufToUvarint64 *)

\* The byte at the index.  Past the end it is undefined: not below 0x80, not
\* above 1, and 0 to the bitwise operators.
IsByte   == i < Len(buffer)
TheBits  == IF IsByte THEN buffer[i + 1].bits ELSE {}
More     == IsByte => buffer[i + 1].more
AboveOne == IsByte /\ (buffer[i + 1].more \/ \E b \in buffer[i + 1].bits : b >= 1)

Overflows == i > LastIndex \/ (i = LastIndex /\ AboveOne)

Throw ==
    /\ pc = "read"
    /\ Overflows
    /\ pc' = "thrown"
    /\ UNCHANGED <<number, kept, uint, buffer, i, s, x, result>>

\* Faulty variant: the end of the buffer ends the number.
ReadLastAnyhow ==
    /\ pc = "read"
    /\ ~Overflows
    /\ ~More \/ ~IsByte
    /\ result' = IF WordBits - 1 \in x THEN Negative ELSE x \cup {b + s : b \in TheBits}
    /\ pc' = "done"
    /\ UNCHANGED <<number, kept, uint, buffer, i, s, x>>

\* The last byte: BigInt(x) | BigInt(byte) << BigInt(s) is negative when x is.
ReadLast ==
    /\ pc = "read"
    /\ ~Overflows
    /\ ~More
    /\ result' = IF WordBits - 1 \in x THEN Negative ELSE x \cup {b + s : b \in TheBits}
    /\ pc' = "done"
    /\ UNCHANGED <<number, kept, uint, buffer, i, s, x>>

\* Faulty variant: the shift is made before the word is extended.
ReadByteEarly ==
    /\ pc = "read"
    /\ ~Overflows
    /\ More
    /\ s' = s + GroupBits
    /\ x' = x \cup ({b + (s' % WordBits) : b \in TheBits} \cap (0 .. WordBits - 1))
    /\ i' = i + 1
    /\ UNCHANGED <<number, kept, pc, uint, buffer, result>>

\* Faulty variant: the shift counts the bits of whole bytes.
ReadByteWhole ==
    /\ pc = "read"
    /\ ~Overflows
    /\ More
    /\ x' = x \cup ({b + (s % WordBits) : b \in TheBits} \cap (0 .. WordBits - 1))
    /\ s' = s + GroupBits + 1
    /\ i' = i + 1
    /\ UNCHANGED <<number, kept, pc, uint, buffer, result>>

\* x |= (byte & 0x7F) << s
ReadByte ==
    /\ pc = "read"
    /\ ~Overflows
    /\ More
    /\ x' = x \cup ({b + (s % WordBits) : b \in TheBits} \cap (0 .. WordBits - 1))
    /\ s' = s + GroupBits
    /\ i' = i + 1
    /\ UNCHANGED <<number, kept, pc, uint, buffer, result>>

Next == WriteByte \/ WriteLast \/ Throw \/ ReadLast \/ ReadByte

Spec == Init /\ [][Next]_vars

----------------------------------------------------------------------------
(* Properties *)

TypeOK ==
    /\ number \in Number
    /\ kept \in 0 .. LastIndex + 1
    /\ pc \in {"write", "read", "done", "thrown"}
    /\ uint \subseteq Bits
    /\ buffer \in Seq(Byte) /\ Len(buffer) <= LastIndex + 1
    /\ i \in 0 .. LastIndex + 1
    /\ s = GroupBits * i
    /\ x \subseteq 0 .. WordBits - 1
    /\ result = Negative \/ result \subseteq 0 .. 127

\* The bits the reader gets right whatever the others are: the groups that fit
\* into a word, and one more.
ExactBits == GroupBits * (WordBits \div GroupBits) + GroupBits

\* What is read is what was written, for every number below 2^32 that the wallet
\* writes and every number below 2^35 of the backend.
ReadsWhatWasWritten ==
    pc = "done" /\ number \subseteq 0 .. ExactBits - 1 =>
        (buffer = Canonical(number) => result = number)

\* The wallet writes numbers of a word the way the backend reads them.
WritesCanonically ==
    pc # "write" /\ kept = Groups(number) /\ number \subseteq 0 .. WordBits - 1 =>
        buffer = Canonical(number)

\* A number that was cut off is never taken for another.
CutOffIsRefused == pc = "done" => kept = Groups(number)

\* The reader's name and its "uint64 overflow" promise numbers of 64 bits: what
\* the backend wrote is read as it was written.
ReadsUint64 ==
    pc = "done" /\ buffer = Canonical(number) => result = number
=============================================================================
