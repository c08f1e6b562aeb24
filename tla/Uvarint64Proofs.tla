--------------------------- MODULE Uvarint64Proofs ---------------------------
(***************************************************************************)
(* Proofs about Uvarint64, for every set of numbers.                       *)
(*                                                                         *)
(* A number below 2^35 is read as the backend wrote it: while the reader   *)
(* is inside such a number, the word holds exactly the number's bits below *)
(* the shift.  The shifts of the first four bytes stay inside the word,    *)
(* and the fifth byte, which does not fit, is the last one.                *)
(*                                                                         *)
(* A number that was cut off is refused: its bytes all say that another    *)
(* follows.  And the wallet writes a number of 32 bits as the backend      *)
(* does: each turn of its loop writes the next group of seven bits, and    *)
(* what is left in the word is the number shifted as often.                *)
(***************************************************************************)
EXTENDS Uvarint64, TLAPS

\* Every number of 64 bits has a highest group.
LEMMA GroupsOfNumber ==
    ASSUME NEW n, n \subseteq Bits
    PROVE  /\ Groups(n) \in 1 .. 10
           /\ \A b \in n : b < 7 * Groups(n)
           /\ Groups(n) = 1 \/ \E b \in n : b >= 7 * (Groups(n) - 1)
<1> DEFINE Below(k)   == \A b \in n : b < 7 * k
           IsLeast(k) == Below(k) /\ (k = 1 \/ \E b \in n : b >= 7 * (k - 1))
<1>1. Below(10)
  BY DEF Bits
<1>2. \A k \in 2 .. 10 : Below(k) => IsLeast(k) \/ Below(k - 1)
  BY DEF Bits
<1>3. \E k \in 1 .. 10 : IsLeast(k)
  <2> HIDE DEF IsLeast, Below
  <2>1. Below(1) => IsLeast(1)
    BY DEF IsLeast
  <2>2. \A k \in 2 .. 10 : Below(k) /\ ~IsLeast(k) => Below(k - 1)
    BY <1>2
  <2>3. \/ IsLeast(10) \/ IsLeast(9) \/ IsLeast(8) \/ IsLeast(7) \/ IsLeast(6)
        \/ IsLeast(5) \/ IsLeast(4) \/ IsLeast(3) \/ IsLeast(2) \/ IsLeast(1)
    BY <1>1, <2>1, <2>2
  <2> QED
    BY <2>3
<1>4. \E k \in 1 .. LastIndex + 1 :
         /\ \A b \in n : b < GroupBits * k
         /\ k = 1 \/ \E b \in n : b >= GroupBits * (k - 1)
  BY <1>3 DEF LastIndex, GroupBits
<1>5. /\ Groups(n) \in 1 .. LastIndex + 1
      /\ \A b \in n : b < GroupBits * Groups(n)
      /\ Groups(n) = 1 \/ \E b \in n : b >= GroupBits * (Groups(n) - 1)
  BY <1>4, Zenon DEF Groups
<1> QED
  BY <1>5 DEF LastIndex, GroupBits

\* A number below 2^35 needs five bytes at most.
LEMMA FiveGroups ==
    ASSUME NEW n, n \subseteq 0 .. 34
    PROVE  Groups(n) \in 1 .. 5
<1>1. n \subseteq Bits
  BY DEF Bits
<1>2. /\ Groups(n) \in 1 .. 10
      /\ Groups(n) = 1 \/ \E b \in n : b >= 7 * (Groups(n) - 1)
  BY <1>1, GroupsOfNumber
<1> QED
  BY <1>2

\* The reader is inside a number of at most five bytes.
InsideSmall == pc = "read" /\ number \subseteq 0 .. 34 /\ buffer = Canonical(number)

ReaderInv ==
    /\ number \in Number
    /\ pc = "write" => i = 0 /\ s = 0 /\ x = {}
    /\ InsideSmall => /\ i \in 0 .. Groups(number) - 1
                      /\ s = 7 * i
                      /\ x = {b \in number : b < s}
    /\ ReadsWhatWasWritten

\* The byte under the index, while the reader is inside such a number.
LEMMA ByteOfSmall ==
    ASSUME InsideSmall, ReaderInv
    PROVE  /\ IsByte
           /\ TheBits = {b \in 0 .. 6 : b + s \in number}
           /\ More <=> i + 1 < Groups(number)
           /\ ~Overflows
           /\ i <= 4
<1> DEFINE g == Groups(number)
<1>1. g \in 1 .. 5
  BY FiveGroups DEF InsideSmall
<1>2. i \in 0 .. g - 1 /\ s = 7 * i
  BY DEF ReaderInv
<1>3. buffer = [k \in 1 .. g |-> [bits |-> {b \in 0 .. 6 : b + 7 * (k - 1) \in number},
                                  more |-> k < g]]
  BY DEF InsideSmall, Canonical, GroupBits
<1> HIDE DEF g
<1>4. Len(buffer) = g
  BY <1>1, <1>3
<1>5. i + 1 \in 1 .. g /\ 7 * ((i + 1) - 1) = s
  BY <1>1, <1>2
<1>6. /\ buffer[i + 1].bits = {b \in 0 .. 6 : b + s \in number}
      /\ buffer[i + 1].more = (i + 1 < g)
  <2>1. buffer[i + 1] = [bits |-> {b \in 0 .. 6 : b + 7 * ((i + 1) - 1) \in number},
                         more |-> i + 1 < g]
    BY <1>3, <1>5, Zenon
  <2>2. {b \in 0 .. 6 : b + 7 * ((i + 1) - 1) \in number} = {b \in 0 .. 6 : b + s \in number}
    BY <1>5
  <2>3. buffer[i + 1].bits = {b \in 0 .. 6 : b + 7 * ((i + 1) - 1) \in number}
    BY <2>1
  <2>4. buffer[i + 1].more = (i + 1 < g)
    BY <2>1
  <2> QED
    BY <2>2, <2>3, <2>4, Zenon
<1>7. IsByte
  BY <1>1, <1>2, <1>4 DEF IsByte
<1>8. TheBits = {b \in 0 .. 6 : b + s \in number}
  BY <1>6, <1>7 DEF TheBits
<1>9. More <=> i + 1 < g
  BY <1>6, <1>7 DEF More
<1>10. i <= 4 /\ ~Overflows
  BY <1>1, <1>2 DEF Overflows, LastIndex
<1> QED
  BY <1>7, <1>8, <1>9, <1>10 DEF g

\* Initially nothing has been read.
LEMMA InitReader == Init => ReaderInv
<1> SUFFICES ASSUME Init PROVE ReaderInv
  OBVIOUS
<1>1. number \in Number /\ i = 0 /\ s = 0 /\ x = {} /\ pc # "done"
  BY DEF Init
<1>2. ASSUME InsideSmall PROVE 0 \in 0 .. Groups(number) - 1
  <2>1. Groups(number) \in 1 .. 5
    BY <1>2, FiveGroups DEF InsideSmall
  <2> QED
    BY <2>1
<1>3. x = {b \in number : b < s}
  <2>1. \A b \in number : ~(b < 0)
    BY <1>1, NumberAssumption DEF Bits
  <2> QED
    BY <1>1, <2>1
<1> QED
  BY <1>1, <1>2, <1>3 DEF ReaderInv, ReadsWhatWasWritten

\* Every step of writer and reader preserves the invariant.
LEMMA NextReader == ReaderInv /\ [Next]_vars => ReaderInv'
<1> SUFFICES ASSUME ReaderInv, [Next]_vars PROVE ReaderInv'
  OBVIOUS
<1>n. number \subseteq Bits
  BY NumberAssumption DEF ReaderInv
<1>1. CASE WriteByte
  BY <1>1 DEF WriteByte, ReaderInv, InsideSmall, ReadsWhatWasWritten
<1>2. CASE WriteLast
  <2>1. ASSUME InsideSmall' PROVE 0 \in 0 .. Groups(number) - 1
    <3>1. number \subseteq 0 .. 34
      BY <1>2, <2>1 DEF WriteLast, InsideSmall
    <3>2. Groups(number) \in 1 .. 5
      BY <3>1, FiveGroups
    <3> QED
      BY <3>2
  <2>2. i' = 0 /\ s' = 0 /\ x' = {} /\ pc' = "read" /\ number' = number
    BY <1>2 DEF WriteLast, ReaderInv
  <2>3. {b \in number : b < 0} = {}
    <3>1. \A b \in number : ~(b < 0)
      BY <1>n DEF Bits
    <3> QED
      BY <3>1
  <2> QED
    BY <2>1, <2>2, <2>3 DEF ReaderInv, ReadsWhatWasWritten
<1>3. CASE Throw
  BY <1>3 DEF Throw, ReaderInv, InsideSmall, ReadsWhatWasWritten
<1>4. CASE ReadLast
  <2>1. number' = number /\ buffer' = buffer /\ pc = "read" /\ pc' = "done"
    BY <1>4 DEF ReadLast
  <2>2. ASSUME number \subseteq 0 .. 34, buffer = Canonical(number)
        PROVE  result' = number
    <3>1. InsideSmall
      BY <2>1, <2>2 DEF InsideSmall
    <3>2. /\ TheBits = {b \in 0 .. 6 : b + s \in number}
          /\ ~(i + 1 < Groups(number))
          /\ i <= 4
      BY <1>4, <3>1, ByteOfSmall DEF ReadLast
    <3>3. i \in 0 .. Groups(number) - 1 /\ s = 7 * i /\ x = {b \in number : b < s}
      BY <3>1 DEF ReaderInv
    <3>4. \A b \in number : b \in Nat /\ b < s + 7
      <4>1. /\ Groups(number) \in 1 .. 10
            /\ \A b \in number : b < 7 * Groups(number)
        BY <1>n, GroupsOfNumber
      <4> QED
        BY <1>n, <3>2, <3>3, <4>1 DEF Bits
    <3>5. 31 \notin x
      BY <3>2, <3>3
    <3>6. result' = x \cup {b + s : b \in TheBits}
      BY <1>4, <3>5 DEF ReadLast, WordBits
    <3>7. ASSUME NEW b \in number
          PROVE  b \in x \cup {d + s : d \in TheBits}
      <4>1. CASE b < s
        BY <3>3, <4>1
      <4>2. CASE ~(b < s)
        <5>1. b - s \in 0 .. 6 /\ (b - s) + s = b
          BY <3>3, <3>4, <4>2
        <5> QED
          BY <3>2, <5>1
      <4> QED
        BY <4>1, <4>2
    <3>8. x \cup {d + s : d \in TheBits} \subseteq number
      BY <3>2, <3>3
    <3> QED
      BY <3>6, <3>7, <3>8
  <2>3. ReadsWhatWasWritten'
    BY <2>1, <2>2 DEF ReadsWhatWasWritten, ExactBits, GroupBits, WordBits
  <2> QED
    BY <2>1, <2>3 DEF ReaderInv, InsideSmall
<1>5. CASE ReadByte
  <2>1. number' = number /\ buffer' = buffer /\ pc = "read" /\ pc' = "read"
    BY <1>5 DEF ReadByte
  <2>2. ASSUME InsideSmall
        PROVE  /\ i' \in 0 .. Groups(number) - 1
               /\ s' = 7 * i'
               /\ x' = {b \in number : b < s'}
    <3>1. /\ TheBits = {b \in 0 .. 6 : b + s \in number}
          /\ i + 1 < Groups(number)
      BY <1>5, <2>2, ByteOfSmall DEF ReadByte
    <3>2. i \in 0 .. Groups(number) - 1 /\ s = 7 * i /\ x = {b \in number : b < s}
      BY <2>2 DEF ReaderInv
    <3>3. Groups(number) \in 1 .. 5
      BY <2>2, FiveGroups DEF InsideSmall
    <3>4. i \in 0 .. 3 /\ i' = i + 1 /\ s' = s + 7 /\ s % 32 = s
      BY <1>5, <3>1, <3>2, <3>3 DEF ReadByte, GroupBits
    <3>5. x' = x \cup ({b + s : b \in TheBits} \cap (0 .. 31))
      BY <1>5, <3>4 DEF ReadByte, WordBits
    <3>6. ASSUME NEW b \in number, b < s + 7
          PROVE  b \in x'
      <4>0. b \in Nat
        BY <1>n DEF Bits
      <4>1. CASE b < s
        BY <3>2, <3>5, <4>1
      <4>2. CASE ~(b < s)
        <5>1. b - s \in 0 .. 6 /\ (b - s) + s = b /\ b \in 0 .. 31
          BY <3>2, <3>4, <3>6, <4>0, <4>2
        <5> QED
          BY <3>1, <3>5, <5>1
      <4> QED
        BY <4>1, <4>2
    <3>7. ASSUME NEW b \in x'
          PROVE  b \in number /\ b < s + 7
      BY <1>n, <3>1, <3>2, <3>4, <3>5 DEF Bits
    <3>8. x' = {b \in number : b < s + 7}
      BY <3>6, <3>7
    <3> QED
      BY <3>1, <3>2, <3>3, <3>4, <3>8
  <2> QED
    BY <2>1, <2>2 DEF ReaderInv, InsideSmall, ReadsWhatWasWritten
<1>6. CASE UNCHANGED vars
  BY <1>6 DEF vars, ReaderInv, InsideSmall, ReadsWhatWasWritten
<1> QED
  BY <1>1, <1>2, <1>3, <1>4, <1>5, <1>6 DEF Next

\* Numbers below 2^35 are read as they were written.
THEOREM SmallNumbersAreExact == Spec => []ReadsWhatWasWritten
<1>1. ReaderInv => ReadsWhatWasWritten
  BY DEF ReaderInv
<1> QED
  BY <1>1, InitReader, NextReader, PTL DEF Spec

----------------------------------------------------------------------------
(* Type correctness *)

\* The first byte leaves a word to write, and every byte takes a group of it.
WriterRoom ==
    pc = "write" =>
        \/ Len(buffer) = 0
        \/ Len(buffer) <= 4 /\ \A b \in uint : b + 7 * Len(buffer) <= 31

TypeInv == TypeOK /\ WriterRoom

\* The bits of a number's k-th group.
Group(n, k) == {b \in 0 .. 6 : b + 7 * (k - 1) \in n}

\* Two bytes with the same bits of which as much follows are the same.
LEMMA SameByte ==
    ASSUME NEW c \in Byte, NEW d \in Byte, c.bits = d.bits, c.more <=> d.more
    PROVE  c = d
BY DEF Byte

\* A number's encoding is a sequence of bytes, its groups.
LEMMA CanonicalType ==
    ASSUME NEW n \in Number
    PROVE  /\ Groups(n) \in 1 .. 10
           /\ Canonical(n) \in Seq(Byte) /\ Len(Canonical(n)) = Groups(n)
           /\ \A k \in 1 .. Groups(n) :
                  /\ Canonical(n)[k].bits = Group(n, k)
                  /\ Canonical(n)[k].more <=> k < Groups(n)
<1> DEFINE g == Groups(n)
           byte(k) == [bits |-> Group(n, k), more |-> k < g]
<1>1. g \in 1 .. 10
  BY GroupsOfNumber, NumberAssumption
<1>2. Canonical(n) = [k \in 1 .. g |-> byte(k)]
  BY DEF Canonical, GroupBits, Group
<1> HIDE DEF g
<1>3. \A k \in 1 .. g : byte(k) \in Byte
  BY DEF Byte, GroupBits, Group
<1>4. \A k \in 1 .. g : Canonical(n)[k] = byte(k)
  BY <1>2
<1>5. \A k \in 1 .. g : byte(k).bits = Group(n, k) /\ (byte(k).more <=> k < g)
  OBVIOUS
<1> HIDE DEF byte
<1>6. Canonical(n) \in Seq(Byte) /\ Len(Canonical(n)) = g
  BY <1>1, <1>2, <1>3
<1> QED
  BY <1>1, <1>4, <1>5, <1>6 DEF g

LEMMA InitTypeInv == Init => TypeInv
<1> SUFFICES ASSUME Init PROVE TypeInv
  OBVIOUS
<1>1. number \in Number /\ number \subseteq Bits
  BY NumberAssumption DEF Init
<1>2. Groups(number) \in 1 .. 10 /\ Canonical(number) \in Seq(Byte)
      /\ Len(Canonical(number)) = Groups(number)
  BY <1>1, CanonicalType
<1>3. kept \in 0 .. Groups(number) /\ kept \in 0 .. 10
  BY <1>2 DEF Init
<1>4. SubSeq(Canonical(number), 1, kept) \in Seq(Byte)
      /\ Len(SubSeq(Canonical(number), 1, kept)) = kept
  BY <1>2, <1>3
<1>5. buffer \in Seq(Byte) /\ Len(buffer) <= 10 /\ (pc = "write" => Len(buffer) = 0)
  <2>1. CASE pc = "write" /\ buffer = <<>>
    BY <2>1
  <2>2. CASE pc = "read" /\ buffer = SubSeq(Canonical(number), 1, kept)
    BY <1>3, <1>4, <2>2
  <2> QED
    BY <2>1, <2>2 DEF Init
<1>6. uint \subseteq Bits /\ i = 0 /\ s = 0 /\ x = {} /\ result = {} /\ pc \in {"write", "read"}
  BY <1>1 DEF Init
<1>7. TypeOK
  BY <1>1, <1>3, <1>5, <1>6 DEF TypeOK, LastIndex, GroupBits, WordBits
<1> QED
  BY <1>5, <1>7 DEF TypeInv, WriterRoom

\* The byte under the index.
LEMMA ByteType ==
    ASSUME TypeOK
    PROVE  TheBits \subseteq 0 .. 6
<1>1. CASE IsByte
  <2>1. i + 1 \in 1 .. Len(buffer)
    BY <1>1 DEF IsByte, TypeOK, LastIndex
  <2>2. buffer[i + 1] \in Byte
    BY <2>1 DEF TypeOK
  <2> QED
    BY <1>1, <2>2 DEF TheBits, Byte, GroupBits
<1>2. CASE ~IsByte
  BY <1>2 DEF TheBits
<1> QED
  BY <1>1, <1>2

LEMMA NextTypeInv == TypeInv /\ [Next]_vars => TypeInv'
<1> SUFFICES ASSUME TypeOK, WriterRoom, [Next]_vars PROVE TypeInv'
  BY DEF TypeInv
<1> USE DEF LastIndex, GroupBits, WordBits
<1>1. CASE WriteByte
  <2> DEFINE byte == [bits |-> uint \cap (0 .. 6), more |-> TRUE]
  <2>1. byte \in Byte
    BY DEF Byte
  <2>2. buffer' = Append(buffer, byte)
        /\ uint' = {b \in Bits : b + 7 \in uint \cap (0 .. 31)}
    BY <1>1 DEF WriteByte
  <2>3. PICK h \in uint : h >= 7
    BY <1>1 DEF WriteByte, IsLong
  <2>4. Len(buffer) \in Nat /\ Len(buffer) <= 3
    BY <1>1, <2>3 DEF WriteByte, WriterRoom, TypeOK, Bits
  <2> HIDE DEF byte
  <2>5. buffer' \in Seq(Byte) /\ Len(buffer') = Len(buffer) + 1
    BY <2>1, <2>2 DEF TypeOK
  <2>6. uint' \subseteq Bits /\ \A b \in uint' : b \in Nat /\ b + 7 \in uint /\ b + 7 <= 31
    <3>1. ASSUME NEW b \in uint' PROVE b \in Bits /\ b + 7 \in uint /\ b + 7 \in 0 .. 31
      BY <2>2
    <3> QED
      BY <3>1 DEF Bits
  <2>7. \A b \in uint' : b + 7 * (Len(buffer) + 1) <= 31
    BY <1>1, <2>4, <2>6 DEF WriteByte, WriterRoom
  <2>8. TypeOK'
    BY <1>1, <2>4, <2>5, <2>6 DEF WriteByte, TypeOK
  <2>9. WriterRoom'
    BY <2>4, <2>5, <2>7 DEF WriterRoom
  <2> QED
    BY <2>8, <2>9 DEF TypeInv
<1>2. CASE WriteLast
  <2>1. [bits |-> uint, more |-> FALSE] \in Byte
    BY <1>2 DEF WriteLast, IsLong, Byte, TypeOK, Bits
  <2>2. buffer' \in Seq(Byte) /\ Len(buffer') = Len(buffer) + 1
    BY <1>2, <2>1 DEF WriteLast, TypeOK
  <2>3. Len(buffer') <= 10
    BY <1>2, <2>2 DEF WriteLast, WriterRoom, TypeOK
  <2>4. TypeOK'
    BY <1>2, <2>2, <2>3 DEF WriteLast, TypeOK
  <2> QED
    BY <1>2, <2>4 DEF WriteLast, TypeInv, WriterRoom
<1>3. CASE Throw
  BY <1>3 DEF Throw, TypeInv, TypeOK, WriterRoom
<1>4. CASE ReadLast
  <2>1. i \in 0 .. 9
    BY <1>4 DEF ReadLast, Overflows, TypeOK
  <2>2. TheBits \subseteq 0 .. 6 /\ s \in 0 .. 63 /\ x \subseteq 0 .. 31
    BY <2>1, ByteType DEF TypeOK
  <2>3. result' = Negative \/ result' = x \cup {b + s : b \in TheBits}
    BY <1>4 DEF ReadLast
  <2>4. result' = Negative \/ result' \subseteq 0 .. 127
    <3>1. \A b \in TheBits : b + s \in 0 .. 127
      BY <2>2
    <3>2. x \cup {b + s : b \in TheBits} \subseteq 0 .. 127
      <4>1. {b + s : b \in TheBits} \subseteq 0 .. 127
        BY <3>1
      <4>2. x \subseteq 0 .. 127
        BY <2>2
      <4> QED
        BY <4>1, <4>2
    <3> QED
      BY <2>3, <3>2
  <2>5. TypeOK'
    BY <1>4, <2>4 DEF ReadLast, TypeOK
  <2> QED
    BY <1>4, <2>5 DEF ReadLast, TypeInv, WriterRoom
<1>5. CASE ReadByte
  <2>1. i \in 0 .. 9
    BY <1>5 DEF ReadByte, Overflows, TypeOK
  <2>2. x' \subseteq 0 .. 31
    <3> DEFINE new == {b + (s % 32) : b \in TheBits}
    <3>1. x' = x \cup (new \cap (0 .. 31)) /\ x \subseteq 0 .. 31
      BY <1>5 DEF ReadByte, TypeOK
    <3> HIDE DEF new
    <3> QED
      BY <3>1
  <2>3. i' \in 0 .. 10 /\ s' = 7 * i'
    BY <1>5, <2>1 DEF ReadByte, TypeOK
  <2>4. TypeOK'
    BY <1>5, <2>2, <2>3 DEF ReadByte, TypeOK
  <2> QED
    BY <1>5, <2>4 DEF ReadByte, TypeInv, WriterRoom
<1>6. CASE UNCHANGED vars
  BY <1>6 DEF vars, TypeInv, TypeOK, WriterRoom
<1> QED
  BY <1>1, <1>2, <1>3, <1>4, <1>5, <1>6 DEF Next

\* For any numbers, writing and reading stay within ten bytes, the word, and the
\* positions the last step can shift to.
THEOREM TypeCorrect == Spec => []TypeOK
<1>1. TypeInv => TypeOK
  BY DEF TypeInv
<1> QED
  BY <1>1, InitTypeInv, NextTypeInv, PTL DEF Spec

----------------------------------------------------------------------------
(* Numbers that were cut off *)

\* What is left of a number that was cut off says of every byte that more follow.
CutOffInv ==
    \/ kept = Groups(number)
    \/ /\ pc \in {"read", "thrown"}
       /\ \A k \in 1 .. Len(buffer) : buffer[k].more

LEMMA InitCutOff == Init => CutOffInv
<1> SUFFICES ASSUME Init, kept # Groups(number) PROVE CutOffInv
  BY DEF CutOffInv
<1>1. number \in Number /\ pc = "read"
      /\ kept \in 0 .. Groups(number) /\ buffer = SubSeq(Canonical(number), 1, kept)
  BY DEF Init
<1>2. /\ Groups(number) \in 1 .. 10
      /\ Canonical(number) \in Seq(Byte) /\ Len(Canonical(number)) = Groups(number)
      /\ \A k \in 1 .. Groups(number) : Canonical(number)[k].more <=> k < Groups(number)
  BY <1>1, CanonicalType
<1>3. Len(buffer) = kept /\ \A k \in 1 .. kept : buffer[k] = Canonical(number)[k]
  BY <1>1, <1>2
<1>4. \A k \in 1 .. kept : k \in 1 .. Groups(number) /\ k < Groups(number)
  BY <1>1, <1>2
<1> QED
  BY <1>1, <1>2, <1>3, <1>4 DEF CutOffInv

LEMMA NextCutOff == TypeOK /\ CutOffInv /\ [Next]_vars => CutOffInv'
<1> SUFFICES ASSUME TypeOK, CutOffInv, [Next]_vars PROVE CutOffInv'
  OBVIOUS
<1>1. CASE WriteByte
  BY <1>1 DEF WriteByte, CutOffInv
<1>2. CASE WriteLast
  BY <1>2 DEF WriteLast, CutOffInv
<1>3. CASE Throw
  BY <1>3 DEF Throw, CutOffInv
<1>4. CASE ReadLast
  <2>1. IsByte /\ ~buffer[i + 1].more
    BY <1>4 DEF ReadLast, More
  <2>2. i + 1 \in 1 .. Len(buffer)
    BY <2>1 DEF IsByte, TypeOK, LastIndex
  <2>3. kept = Groups(number)
    BY <2>1, <2>2 DEF CutOffInv
  <2> QED
    BY <1>4, <2>3 DEF ReadLast, CutOffInv
<1>5. CASE ReadByte
  BY <1>5 DEF ReadByte, CutOffInv
<1>6. CASE UNCHANGED vars
  BY <1>6 DEF vars, CutOffInv
<1> QED
  BY <1>1, <1>2, <1>3, <1>4, <1>5, <1>6 DEF Next

\* A number of which bytes are missing is never taken for another, whatever the
\* number and wherever it was cut off: past the end there is always more to read,
\* until the index overflows.
THEOREM CutOffAlwaysRefused == Spec => []CutOffIsRefused
<1>1. CutOffInv => CutOffIsRefused
  BY DEF CutOffInv, CutOffIsRefused
<1> QED
  BY <1>1, InitCutOff, NextCutOff, TypeCorrect, PTL DEF Spec

----------------------------------------------------------------------------
(* What the wallet writes *)

\* The number of groups is the only one that holds the number and is not too many.
LEMMA GroupsUnique ==
    ASSUME NEW n \in Number, NEW g \in 1 .. 10,
           \A b \in n : b < 7 * g,
           g = 1 \/ \E b \in n : b >= 7 * (g - 1)
    PROVE  Groups(n) = g
<1>1. n \subseteq Bits
  BY NumberAssumption
<1>2. /\ Groups(n) \in 1 .. 10
      /\ \A b \in n : b < 7 * Groups(n)
      /\ Groups(n) = 1 \/ \E b \in n : b >= 7 * (Groups(n) - 1)
  BY <1>1, GroupsOfNumber
<1>3. ASSUME Groups(n) < g PROVE FALSE
  <2>1. PICK b \in n : b >= 7 * (g - 1)
    BY <1>2, <1>3
  <2> QED
    BY <1>1, <1>2, <1>3, <2>1 DEF Bits
<1>4. ASSUME g < Groups(n) PROVE FALSE
  <2>1. PICK b \in n : b >= 7 * (Groups(n) - 1)
    BY <1>2, <1>4
  <2> QED
    BY <1>1, <1>2, <1>4, <2>1 DEF Bits
<1> QED
  BY <1>2, <1>3, <1>4

\* While a number of a word is written, the bytes are the groups below those that
\* are left, and something is left.
WriterAt ==
    pc = "write" /\ number \subseteq 0 .. 31 =>
        /\ \A k \in 1 .. Len(buffer) :
               buffer[k].bits = Group(number, k) /\ buffer[k].more
        /\ uint = {b \in Bits : b + 7 * Len(buffer) \in number}
        /\ Len(buffer) # 0 => \E b \in number : b >= 7 * Len(buffer)

WriterInv == WriterAt /\ WritesCanonically

LEMMA InitWriter == Init => WriterInv
<1> SUFFICES ASSUME Init PROVE WriterInv
  OBVIOUS
<1>1. number \in Number /\ uint = number /\ number \subseteq Bits
  BY NumberAssumption DEF Init
<1>2. Canonical(number) \in Seq(Byte) /\ Len(Canonical(number)) = Groups(number)
      /\ Groups(number) \in 1 .. 10
  BY <1>1, CanonicalType
<1>3. CASE pc = "write" /\ buffer = <<>>
  <2>1. \A b \in Bits : b + 7 * 0 = b
    BY DEF Bits
  <2>2. uint = {b \in Bits : b + 7 * 0 \in number}
    BY <1>1, <2>1
  <2> QED
    BY <1>3, <2>2 DEF WriterInv, WriterAt, WritesCanonically
<1>4. CASE pc = "read" /\ buffer = SubSeq(Canonical(number), 1, kept)
  <2>1. kept = Groups(number) => buffer = Canonical(number)
    BY <1>2, <1>4
  <2> QED
    BY <1>4, <2>1 DEF WriterInv, WriterAt, WritesCanonically
<1> QED
  BY <1>3, <1>4 DEF Init

LEMMA NextWriter == TypeInv /\ WriterInv /\ [Next]_vars => WriterInv'
<1> SUFFICES ASSUME TypeOK, WriterRoom, WriterAt, WritesCanonically, [Next]_vars PROVE WriterInv'
  BY DEF TypeInv, WriterInv
<1> DEFINE L == Len(buffer)
<1>0. number \in Number /\ number \subseteq Bits /\ buffer \in Seq(Byte) /\ L \in Nat
  BY NumberAssumption DEF TypeOK
<1>1. CASE WriteByte
  <2> DEFINE byte == [bits |-> uint \cap (0 .. 6), more |-> TRUE]
  <2>1. /\ buffer' = Append(buffer, byte) /\ number' = number /\ pc' = "write" /\ pc = "write"
        /\ uint' = {b \in Bits : b + 7 \in uint \cap (0 .. 31)}
    BY <1>1 DEF WriteByte, GroupBits, WordBits
  <2>2. byte \in Byte /\ byte.bits = uint \cap (0 .. 6) /\ byte.more
    BY DEF Byte, GroupBits
  <2> HIDE DEF byte
  <2>3. /\ Len(buffer') = L + 1 /\ buffer'[L + 1] = byte
        /\ \A k \in 1 .. L : buffer'[k] = buffer[k]
    BY <1>0, <2>1, <2>2
  <2>4. ASSUME number \subseteq 0 .. 31
        PROVE  /\ \A k \in 1 .. L + 1 :
                      buffer'[k].bits = Group(number, k) /\ buffer'[k].more
               /\ uint' = {b \in Bits : b + 7 * (L + 1) \in number}
               /\ \E b \in number : b >= 7 * (L + 1)
    <3>1. /\ \A k \in 1 .. L :
                  buffer[k].bits = Group(number, k) /\ buffer[k].more
          /\ uint = {b \in Bits : b + 7 * L \in number}
      BY <2>1, <2>4 DEF WriterAt
    <3> HIDE DEF L
    <3>2. byte.bits = Group(number, L + 1)
      <4>1. (L + 1) - 1 = L
        BY <1>0
      <4>2. byte.bits = {b \in 0 .. 6 : b + 7 * L \in number}
        BY <2>2, <3>1 DEF Bits
      <4> QED
        BY <4>1, <4>2 DEF Group
    <3>3. ASSUME NEW k \in 1 .. L + 1
          PROVE  buffer'[k].bits = Group(number, k) /\ buffer'[k].more
      <4>1. CASE k \in 1 .. L
        BY <2>3, <3>1, <4>1
      <4>2. CASE k = L + 1
        BY <2>2, <2>3, <3>2, <4>2
      <4> QED
        BY <1>0, <4>1, <4>2
    <3>4. ASSUME NEW b \in Bits
          PROVE  b \in uint' <=> b + 7 * (L + 1) \in number
      <4>1. b \in Nat /\ b + 7 * (L + 1) = (b + 7) + 7 * L
        BY <1>0 DEF Bits
      <4>2. b \in uint' <=> b + 7 \in Bits /\ (b + 7) + 7 * L \in number /\ b + 7 <= 31
        BY <2>1, <3>1, <4>1 DEF Bits
      <4>3. (b + 7) + 7 * L \in number => b + 7 <= 31 /\ b + 7 \in Bits
        BY <1>0, <2>4, <4>1 DEF Bits
      <4> QED
        BY <4>1, <4>2, <4>3
    <3>5. uint' = {b \in Bits : b + 7 * (L + 1) \in number}
      BY <2>1, <3>4
    <3>6. PICK h \in uint : h >= 7
      BY <1>1 DEF WriteByte, IsLong, GroupBits
    <3>7. h + 7 * L \in number /\ h + 7 * L >= 7 * (L + 1)
      BY <1>0, <3>1, <3>6 DEF Bits
    <3> QED
      BY <3>3, <3>5, <3>7
  <2>5. WriterAt'
    BY <2>1, <2>3, <2>4 DEF WriterAt
  <2> QED
    BY <2>1, <2>5 DEF WriterInv, WritesCanonically
<1>2. CASE WriteLast
  <2> DEFINE byte == [bits |-> uint, more |-> FALSE]
  <2>1. buffer' = Append(buffer, byte) /\ number' = number /\ pc' = "read" /\ pc = "write"
    BY <1>2 DEF WriteLast
  <2>2. ~IsLong(uint) /\ \A b \in uint : b \in 0 .. 6
    BY <1>2 DEF WriteLast, IsLong, GroupBits, TypeOK, Bits
  <2>3. byte \in Byte /\ byte.bits = uint /\ ~byte.more
    BY <2>2 DEF Byte, GroupBits
  <2> HIDE DEF byte
  <2>4. /\ Len(buffer') = L + 1 /\ buffer'[L + 1] = byte /\ buffer' \in Seq(Byte)
        /\ \A k \in 1 .. L : buffer'[k] = buffer[k]
    BY <1>0, <2>1, <2>3
  <2>5. L + 1 \in 1 .. 10
    BY <1>0, <2>1 DEF WriterRoom
  <2>6. ASSUME number \subseteq 0 .. 31
        PROVE  buffer' = Canonical(number)
    <3>1. /\ \A k \in 1 .. L :
                  buffer[k].bits = Group(number, k) /\ buffer[k].more
          /\ uint = {b \in Bits : b + 7 * L \in number}
          /\ L # 0 => \E b \in number : b >= 7 * L
      BY <2>1, <2>6 DEF WriterAt
    <3> HIDE DEF L
    <3>2. Groups(number) = L + 1
      <4>1. ASSUME NEW b \in number, b >= 7 * (L + 1) PROVE FALSE
        <5>1. b - 7 * L \in Bits /\ (b - 7 * L) + 7 * L = b /\ b - 7 * L >= 7
          BY <1>0, <4>1 DEF Bits
        <5> QED
          BY <2>2, <3>1, <5>1
      <4>2. \A b \in number : b < 7 * (L + 1)
        BY <1>0, <4>1 DEF Bits
      <4>3. L + 1 = 1 \/ \E b \in number : b >= 7 * ((L + 1) - 1)
        BY <1>0, <3>1
      <4> QED
        BY <1>0, <2>5, <4>2, <4>3, GroupsUnique
    <3>3. /\ Canonical(number) \in Seq(Byte) /\ Len(Canonical(number)) = L + 1
          /\ \A k \in 1 .. L + 1 :
                 /\ Canonical(number)[k].bits = Group(number, k)
                 /\ Canonical(number)[k].more <=> k < L + 1
      BY <1>0, <3>2, CanonicalType
    <3>4. uint = Group(number, L + 1)
      <4>1. (L + 1) - 1 = L
        BY <1>0
      <4>2. uint = {b \in 0 .. 6 : b + 7 * L \in number}
        BY <2>2, <3>1 DEF Bits
      <4> QED
        BY <4>1, <4>2 DEF Group
    <3>5. ASSUME NEW k \in 1 .. L + 1
          PROVE  buffer'[k] = Canonical(number)[k]
      <4>1. CASE k \in 1 .. L
        <5>1. buffer'[k].bits = Group(number, k) /\ buffer'[k].more
          BY <2>4, <3>1, <4>1
        <5>2. Canonical(number)[k].bits = Group(number, k) /\ Canonical(number)[k].more
          BY <1>0, <3>3, <4>1
        <5>3. buffer'[k] \in Byte /\ Canonical(number)[k] \in Byte
          BY <1>0, <2>4, <3>3, <4>1
        <5> QED
          BY <5>1, <5>2, <5>3, SameByte
      <4>2. CASE k = L + 1
        <5>1. buffer'[k].bits = Group(number, k) /\ ~buffer'[k].more
          BY <2>3, <2>4, <3>4, <4>2
        <5>2. Canonical(number)[k].bits = Group(number, k) /\ ~Canonical(number)[k].more
          BY <1>0, <3>3, <4>2
        <5>3. buffer'[k] \in Byte /\ Canonical(number)[k] \in Byte
          BY <1>0, <2>4, <3>3, <4>2
        <5> QED
          BY <5>1, <5>2, <5>3, SameByte
      <4> QED
        BY <1>0, <4>1, <4>2
    <3> QED
      BY <1>0, <2>4, <3>3, <3>5
  <2>7. WritesCanonically'
    BY <2>1, <2>6 DEF WritesCanonically, WordBits
  <2> QED
    BY <2>1, <2>7 DEF WriterInv, WriterAt
<1>3. CASE Throw \/ ReadLast \/ ReadByte
  BY <1>3 DEF Throw, ReadLast, ReadByte, WriterInv, WriterAt, WritesCanonically
<1>4. CASE UNCHANGED vars
  BY <1>4 DEF vars, WriterInv, WriterAt, WritesCanonically
<1> QED
  BY <1>1, <1>2, <1>3, <1>4 DEF Next

\* Every number of 32 bits is written the way the backend writes it, and so is
\* read back as it was.
THEOREM WrittenCanonically == Spec => []WritesCanonically
<1>1. WriterInv => WritesCanonically
  BY DEF WriterInv
<1> QED
  BY <1>1, InitTypeInv, NextTypeInv, InitWriter, NextWriter, PTL DEF Spec
=============================================================================
