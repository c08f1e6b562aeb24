--------------------------- MODULE DeSoTransaction ---------------------------
(***************************************************************************)
(* The classes a transaction is made of: for every class its fields in the *)
(* order in which they are written, each with the transcoder that reads    *)
(* and writes it, and the number that stands for a metadata class on the   *)
(* wire.                                                                    *)
(***************************************************************************)
EXTENDS Naturals, Sequences

\* The transcoders.
FixedBuffer(size) == [kind |-> "FixedBuffer", size |-> size]
VarBuffer         == [kind |-> "VarBuffer"]
ChunkBuffer       == [kind |-> "ChunkBuffer"]  \* its width is ignored, see ReadChunk
Uvarint64         == [kind |-> "Uvarint64"]
Uint8             == [kind |-> "Uint8"]
Boolean           == [kind |-> "Boolean"]
ArrayOf(class)    == [kind |-> "ArrayOf", of |-> class]
Record(class)     == [kind |-> "Record", of |-> class]
Enum              == [kind |-> "Enum"]         \* over TransactionTypeMetadataMap

F(name, transcoder) == <<name, transcoder>>

PartFields ==
    [TransactionInput |-> <<F("id", FixedBuffer(32)), F("index", Uvarint64)>>,
     TransactionOutput |-> <<F("publicKey", FixedBuffer(33)), F("amountNanos", Uvarint64)>>,
     TransactionExtraDataKV |-> <<F("key", VarBuffer), F("value", VarBuffer)>>,
     TransactionExtraData |-> <<F("kvs", ArrayOf("TransactionExtraDataKV"))>>]

BasicFields ==
    [BlockReward |-> <<F("extraData", VarBuffer)>>,
     BasicTransfer |-> <<>>,
     BitcoinExchange |->
        <<F("transaction", VarBuffer), F("blockHash", FixedBuffer(32)),
          F("merkleRoot", FixedBuffer(32)), F("merkleProof", ChunkBuffer)>>,
     PrivateMessage |->
        <<F("recipientPublicKey", FixedBuffer(33)), F("encryptedText", VarBuffer),
          F("timestampNanos", Uvarint64)>>,
     SubmitPost |->
        <<F("postHashToModify", VarBuffer), F("parentStakeId", VarBuffer), F("body", VarBuffer),
          F("creatorBasisPoints", Uvarint64), F("stakeMultipleBasisPoints", Uvarint64),
          F("timestampNanos", Uvarint64), F("isHidden", Boolean)>>,
     UpdateProfile |->
        <<F("profilePublicKey", VarBuffer), F("newUsername", VarBuffer),
          F("newDescription", VarBuffer), F("newProfilePic", VarBuffer),
          F("newCreatorBasisPoints", Uvarint64), F("newStakeMultipleBasisPoints", Uvarint64),
          F("isHidden", Boolean)>>,
     UpdateBitcoinUSDExchangeRate |-> <<F("usdCentsPerBitcoin", Uvarint64)>>,
     Follow |-> <<F("followedPublicKey", FixedBuffer(33)), F("isUnfollow", Boolean)>>,
     Like |-> <<F("likedPostHash", FixedBuffer(32)), F("isUnlike", Boolean)>>]

CoinFields ==
    [CreatorCoin |->
        <<F("profilePublicKey", VarBuffer), F("operationType", Uint8),
          F("desoToSellNanos", Uvarint64), F("creatorCoinToSellNanos", Uvarint64),
          F("desoToAddNanos", Uvarint64), F("minDeSoExpectedNanos", Uvarint64),
          F("minCreatorCoinExpectedNanos", Uvarint64)>>,
     SwapIdentity |-> <<F("fromPublicKey", VarBuffer), F("toPublicKey", VarBuffer)>>,
     UpdateGlobalParams |-> <<>>,
     CreatorCoinTransfer |->
        <<F("profilePublicKey", VarBuffer), F("creatorCoinToTransferNanos", Uvarint64),
          F("receiverPublicKey", VarBuffer)>>]

NFTFields ==
    [CreateNFT |->
        <<F("nftPostHash", FixedBuffer(32)), F("numCopies", Uvarint64),
          F("hasUnlockable", Boolean), F("isForSale", Boolean),
          F("nftRoyaltyToCreatorBasisPoints", Uvarint64),
          F("nftRoyaltyToCoinBasisPoints", Uvarint64)>>,
     UpdateNFT |->
        <<F("nftPostHash", FixedBuffer(32)), F("serialNumber", Uvarint64),
          F("isForSale", Boolean), F("minBidAmountNanos", Uvarint64)>>,
     AcceptNFTBid |->
        <<F("nftPostHash", FixedBuffer(32)), F("serialNumber", Uvarint64),
          F("bidderPKID", VarBuffer), F("bidAmountNanos", Uvarint64),
          F("encryptedUnlockableText", VarBuffer),
          F("bidderInputs", ArrayOf("TransactionInput"))>>,
     NFTBid |->
        <<F("nftPostHash", FixedBuffer(32)), F("serialNumber", Uvarint64),
          F("bidAmountNanos", Uvarint64)>>,
     NFTTransfer |->
        <<F("nftPostHash", FixedBuffer(32)), F("serialNumber", Uvarint64),
          F("receiverPublicKey", VarBuffer), F("encryptedUnlockableText", VarBuffer)>>,
     AcceptNFTTransfer |-> <<F("nftPostHash", FixedBuffer(32)), F("serialNumber", Uvarint64)>>,
     BurnNFT |-> <<F("nftPostHash", FixedBuffer(32)), F("serialNumber", Uvarint64)>>]

GroupFields ==
    [MessagingGroupMember |->
        <<F("groupMemberPublicKey", VarBuffer), F("groupMemberKeyName", VarBuffer),
          F("encryptedKey", VarBuffer)>>,
     MessagingGroup |->
        <<F("messagingPublicKey", VarBuffer), F("messagingGroupKeyName", VarBuffer),
          F("groupOwnerSignature", VarBuffer),
          F("messagingGroupMembers", ArrayOf("MessagingGroupMember"))>>,
     DAOCoin |->
        <<F("profilePublicKey", VarBuffer), F("operationType", Uint8),
          F("coinsToMintNanos", VarBuffer), F("coinsToBurnNanos", VarBuffer),
          F("transferRestrictionStatus", Uint8)>>,
     TransferDAOCoin |->
        <<F("profilePublicKey", VarBuffer), F("daoCoinToTransferNanos", VarBuffer),
          F("receiverPublicKey", VarBuffer)>>]

TransactionFields ==
    [Transaction |->
        <<F("inputs", ArrayOf("TransactionInput")), F("outputs", ArrayOf("TransactionOutput")),
          F("metadata", Enum), F("publicKey", VarBuffer),
          F("extraData", Record("TransactionExtraData")), F("signature", VarBuffer)>>]

\* 7 was never used, and 22 is no longer.
MetadataType == (1 .. 25) \ {7, 22}
TransactionTypeMetadataMap ==
    [type \in MetadataType |->
        <<"BlockReward", "BasicTransfer", "BitcoinExchange", "PrivateMessage", "SubmitPost",
          "UpdateProfile", "", "UpdateBitcoinUSDExchangeRate", "Follow", "Like", "CreatorCoin",
          "SwapIdentity", "UpdateGlobalParams", "CreatorCoinTransfer", "CreateNFT", "UpdateNFT",
          "AcceptNFTBid", "NFTBid", "NFTTransfer", "AcceptNFTTransfer", "BurnNFT", "",
          "MessagingGroup", "DAOCoin", "TransferDAOCoin">>[type]]
=============================================================================
