------------------------ MODULE MCTransactionApproval ------------------------
(* Transactions of every class, whole and damaged, for TLC. *)
EXTENDS TransactionApproval, BinaryRecord

PublicKey(v) == [i \in 1 .. 33 |-> v]
Hash         == [i \in 1 .. 32 |-> 9]
Own   == PublicKey(1)
Other == PublicKey(2)
Third == PublicKey(3)

Accounts   == {Own, Other}
Names      == Other :> "other" @@ Third :> "third"
Signatures == [k \in Accounts |-> [i \in 1 .. 3 |-> 100 + Head(k)]]

ReadTransaction(bytes) == FromBytes("Transaction", bytes)
LengthBytes(n)         == Uvarint64ToBuf[n]

\* Metadata whose fields are all derived from v, and operationType from op.
Leaf(transcoder, v, op) ==
    CASE transcoder.kind = "FixedBuffer" -> IF transcoder.size = 33 THEN PublicKey(v) ELSE Hash
      [] transcoder.kind = "VarBuffer"   -> PublicKey(v)
      [] transcoder.kind = "ChunkBuffer" -> <<Own, Third>>
      [] transcoder.kind = "Uvarint64"   -> IF v = 1 THEN 5 ELSE 300
      [] transcoder.kind = "Uint8"       -> op
      [] transcoder.kind = "Boolean"     -> v = 1

Object(class, Value(_)) ==
    FoldLeft(LAMBDA o, field : (field[1] :> Value(field[2])) @@ o, "class" :> class, Fields[class])

Metadata(class, v, op) ==
    Object(class, LAMBDA transcoder :
        IF transcoder.kind = "ArrayOf"
        THEN <<Object(transcoder.of, LAMBDA t : Leaf(t, v, op)),
               Object(transcoder.of, LAMBDA t : Leaf(t, 3 - v, op))>>
        ELSE Leaf(transcoder, v, op))

Output(key, amount) == [class |-> "TransactionOutput", publicKey |-> key, amountNanos |-> amount]
ExtraData(kvs)      == [class |-> "TransactionExtraData", kvs |-> kvs]
SomeData            == <<[class |-> "TransactionExtraDataKV", key |-> <<7>>, value |-> <<>>]>>

Made(outputs, metadata, kvs, signature) ==
    [class |-> "Transaction", outputs |-> outputs, metadata |-> metadata, publicKey |-> Own,
     inputs |-> <<[class |-> "TransactionInput", id |-> Hash, index |-> 300]>>,
     extraData |-> ExtraData(kvs), signature |-> signature]

Class        == {TransactionTypeMetadataMap[n] : n \in MetadataType}
PaidTo(keys) == [i \in DOMAIN keys |-> Output(keys[i], 100 * i)]
Outputs      == {PaidTo(keys) : keys \in BoundedSeq({Own, Other, Third}, 2)}

OfEveryClass == {Made(PaidTo(<<Own>>), Metadata(class, v, v - 1), SomeData, <<>>) :
                     class \in Class, v \in 1 .. 2}
OfEveryOperation == {Made(<<>>, Metadata(class, 2, op), <<>>, <<>>) :
                         class \in {"CreatorCoin", "DAOCoin"}, op \in 0 .. 4}
OfEveryOutput == {Made(outputs, Metadata(class, 2, 0), <<>>, signature) :
                      class \in {"BasicTransfer", "Like"}, outputs \in Outputs,
                      signature \in {<<>>, <<8, 8>>}}

Whole == OfEveryClass \cup OfEveryOperation \cup OfEveryOutput

\* Cut off anywhere before the length of the signature.
Cut == UNION {LET made == Made(PaidTo(<<Own, Other>>), Metadata(class, 1, 0), SomeData, <<>>)
                  bytes == ToBytes(made)
              IN  {[made |-> made, damage |-> "cut", bytes |-> SubSeq(bytes, 1, n)] :
                       n \in 0 .. Len(bytes) - 1} :
              class \in {"BasicTransfer", "Follow", "BitcoinExchange", "AcceptNFTBid"}}

Sendings ==
    {[made |-> made, damage |-> "none", bytes |-> ToBytes(made)] : made \in Whole}
    \cup {[made |-> made, damage |-> "trailing", bytes |-> ToBytes(made) \o <<0, 200>>] :
              made \in OfEveryOutput}
    \cup Cut
    \cup {LET made == Made(<<>>, Metadata("BurnNFT", 1, 0), <<>>, <<>>)
              bytes == ToBytes(made)
          IN  [made |-> made, damage |-> "type",
               bytes |-> [bytes EXCEPT ![Len(bytes) - 70] = type]] : type \in {0, 7, 22, 26}}
=============================================================================
