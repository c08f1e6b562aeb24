----------------------------- MODULE BinaryRecord -----------------------------
(***************************************************************************)
(* Reading and writing transactions (lib/bindata).  Bytes are a sequence   *)
(* of numbers.  A read yields a value and the bytes after it, or throws.   *)
(* A slice beyond the end of a buffer is short and throws nothing, so only *)
(* numbers notice that bytes are missing.  An object is a record with its  *)
(* class and its fields.                                                   *)
(***************************************************************************)
EXTENDS DeSoTransaction, SequencesExt

Throws == [ok |-> FALSE]
Yields(value, rest) == [ok |-> TRUE, value |-> value, rest |-> rest]

\* bytes.slice(0, size) and bytes.slice(size)
Taken(bytes, size) == SubSeq(bytes, 1, Min({size, Len(bytes)}))
After(bytes, size) == SubSeq(bytes, size + 1, Len(bytes))

\* Faulty variant: a number that is cut off counts as what there is of it.
BufToUvarint64CutOff(bytes) ==
    LET last == SelectInSeq(Taken(bytes, 10), LAMBDA byte : byte < 128)
        size == IF last = 0 THEN Len(bytes) ELSE last
    IN  Yields(FoldRight(LAMBDA byte, high : (byte % 128) + 128 * high, Taken(bytes, size), 0),
               After(bytes, size))

\* A number: seven bits a byte, the last byte below 128; at most ten bytes, of
\* which the tenth has one bit.
\* Numbers below 2^28 only, which module Uvarint64 shows to be read exactly.
BufToUvarint64(bytes) ==
    LET last == SelectInSeq(Taken(bytes, 10), LAMBDA byte : byte < 128)
    IN  IF last = 0 \/ (last = 10 /\ bytes[10] > 1) THEN Throws
        ELSE Yields(FoldRight(LAMBDA byte, high : (byte % 128) + 128 * high,
                              Taken(bytes, last), 0),
                    After(bytes, last))

Uvarint64ToBuf[n \in Nat] ==
    IF n < 128 THEN <<n>> ELSE <<128 + (n % 128)>> \o Uvarint64ToBuf[n \div 128]

\* What comes after a number, read in a way that depends on it.
WithNumber(bytes, Read(_, _)) ==
    LET number == BufToUvarint64(bytes)
    IN  IF number.ok THEN Read(number.value, number.rest) ELSE Throws

ReadUInt8(bytes) == IF bytes = <<>> THEN Throws ELSE Yields(Head(bytes), Tail(bytes))

ReadBuffer(size, bytes) == Yields(Taken(bytes, size), After(bytes, size))

\* Chunks of 33 bytes, whatever the width given.
ReadChunk(bytes) == ReadBuffer(33, bytes)

\* As many reads as count says, one after the other, until one throws.
ReadTimes(count, bytes, Read(_)) ==
    FoldLeft(LAMBDA soFar, i :
                 IF ~soFar.ok THEN Throws
                 ELSE LET next == Read(soFar.rest)
                      IN  IF next.ok THEN Yields(Append(soFar.value, next.value), next.rest)
                          ELSE Throws,
             Yields(<<>>, bytes), [i \in 1 .. count |-> i])

RECURSIVE FromBytes(_, _)

\* The metadata is read from its own slice, and what it leaves there is skipped.
\* A type that is not in the map has no class to read with.
ReadEnum(type, bytes) ==
    WithNumber(bytes, LAMBDA size, rest :
        IF type \notin MetadataType THEN Throws
        ELSE LET metadata == FromBytes(TransactionTypeMetadataMap[type], Taken(rest, size))
             IN  IF metadata.ok THEN Yields(metadata.value, After(rest, size)) ELSE Throws)

Read(transcoder, bytes) ==
    CASE transcoder.kind = "FixedBuffer" -> ReadBuffer(transcoder.size, bytes)
      [] transcoder.kind = "VarBuffer"   -> WithNumber(bytes, ReadBuffer)
      [] transcoder.kind = "ChunkBuffer" ->
            WithNumber(bytes, LAMBDA count, rest : ReadTimes(count, rest, ReadChunk))
      [] transcoder.kind = "Uvarint64"   -> BufToUvarint64(bytes)
      [] transcoder.kind = "Uint8"       -> ReadUInt8(bytes)
      [] transcoder.kind = "Boolean"     ->
            LET byte == ReadUInt8(bytes)
            IN  IF byte.ok THEN Yields(byte.value # 0, byte.rest) ELSE Throws
      [] transcoder.kind = "ArrayOf"     ->
            WithNumber(bytes, LAMBDA count, rest :
                ReadTimes(count, rest, LAMBDA b : FromBytes(transcoder.of, b)))
      [] transcoder.kind = "Record"      -> FromBytes(transcoder.of, bytes)
      [] transcoder.kind = "Enum"        -> WithNumber(bytes, ReadEnum)

Fields ==
    PartFields @@ BasicFields @@ CoinFields @@ NFTFields @@ GroupFields @@ TransactionFields

\* Every field in turn reads from what the one before it left.
FromBytes(class, bytes) ==
    FoldLeft(LAMBDA soFar, field :
                 IF ~soFar.ok THEN Throws
                 ELSE LET next == Read(field[2], soFar.rest)
                      IN  IF next.ok THEN Yields((field[1] :> next.value) @@ soFar.value, next.rest)
                          ELSE Throws,
             Yields("class" :> class, bytes), Fields[class])

RECURSIVE ToBytes(_)

WithCount(count, bytes) == Uvarint64ToBuf[count] \o bytes

WriteEnum(metadata) ==
    LET type == CHOOSE n \in MetadataType : TransactionTypeMetadataMap[n] = metadata.class
    IN  WithCount(type, WithCount(Len(ToBytes(metadata)), ToBytes(metadata)))

Write(transcoder, value) ==
    CASE transcoder.kind = "FixedBuffer" -> value
      [] transcoder.kind = "VarBuffer"   -> WithCount(Len(value), value)
      [] transcoder.kind = "ChunkBuffer" -> WithCount(Len(value), FlattenSeq(value))
      [] transcoder.kind = "Uvarint64"   -> Uvarint64ToBuf[value]
      [] transcoder.kind = "Uint8"       -> <<value>>
      [] transcoder.kind = "Boolean"     -> <<IF value THEN 1 ELSE 0>>
      [] transcoder.kind = "ArrayOf"     ->
            WithCount(Len(value), FlattenSeq([i \in DOMAIN value |-> ToBytes(value[i])]))
      [] transcoder.kind = "Record"      -> ToBytes(value)
      [] transcoder.kind = "Enum"        -> WriteEnum(value)

ToBytes(object) ==
    FoldLeft(LAMBDA bytes, field : bytes \o Write(field[2], object[field[1]]),
             <<>>, Fields[object.class])
=============================================================================
