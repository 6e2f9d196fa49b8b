---------------------------- MODULE DealNumbers ----------------------------
(***************************************************************************)
(* The numbers of a deal on their way through the bindings.  Terms, output *)
(* index, value and lock time are numbers of JavaScript, which may have a  *)
(* fraction and may need more than 32 bits; the protocol has integers.     *)
(* Each side judges by its own numbers and by the peer's as they came back *)
(* through the network, and passes the peer's terms on when it starts to   *)
(* download or to upload.                                                  *)
(***************************************************************************)
EXTENDS Terms

CONSTANT Word     \* how many values 32 bits have

(* The numbers tried are counted in halves: 3 stands for 1.5.              *)
ASSUME WordAssumption == Word \in Nat \ {0} /\ Word % 2 = 0

-----------------------------------------------------------------------------
(* Numbers: 64 bits are more than any amount of satoshis needs.            *)

Js(n) == 2 * n

Trunc(x) == IF x >= 0 THEN x \div 2 ELSE -((-x) \div 2)

ToInt64(x) == Trunc(x)

ToUint32(x) == Trunc(x) % Word

Signed(n) == IF n < Word \div 2 THEN n ELSE n - Word

ToInt32(x) == Signed(ToUint32(x))

-----------------------------------------------------------------------------
(* Terms.                                                                  *)

DecodeBuyerTerms(o) ==
    [maxPrice            |-> ToInt64(o.maxPrice),
     maxLock             |-> ToUint32(o.maxLock),
     minNumberOfSellers  |-> ToUint32(o.minNumberOfSellers),
     maxContractFeePerKb |-> ToInt64(o.maxContractFeePerKb)]

EncodeBuyerTerms_lockAsSellers(t) ==
    [maxPrice            |-> Js(t.maxPrice),
     maxLock             |-> Js(t.minNumberOfSellers),
     minNumberOfSellers  |-> Js(t.maxLock),
     maxContractFeePerKb |-> Js(t.maxContractFeePerKb)]

EncodeBuyerTerms(t) ==
    [maxPrice            |-> Js(t.maxPrice),
     maxLock             |-> Js(t.maxLock),
     minNumberOfSellers  |-> Js(t.minNumberOfSellers),
     maxContractFeePerKb |-> Js(t.maxContractFeePerKb)]

DecodeSellerTerms_feeForPrice(o) ==
    [minPrice            |-> ToInt64(o.minContractFeePerKb),
     minLock             |-> ToUint32(o.minLock),
     maxNumberOfSellers  |-> ToUint32(o.maxNumberOfSellers),
     minContractFeePerKb |-> ToInt64(o.minContractFeePerKb),
     settlementFee       |-> ToInt64(o.settlementFee)]

DecodeSellerTerms(o) ==
    [minPrice            |-> ToInt64(o.minPrice),
     minLock             |-> ToUint32(o.minLock),
     maxNumberOfSellers  |-> ToUint32(o.maxNumberOfSellers),
     minContractFeePerKb |-> ToInt64(o.minContractFeePerKb),
     settlementFee       |-> ToInt64(o.settlementFee)]

EncodeSellerTerms(t) ==
    [minPrice            |-> Js(t.minPrice),
     minLock             |-> Js(t.minLock),
     maxNumberOfSellers  |-> Js(t.maxNumberOfSellers),
     minContractFeePerKb |-> Js(t.minContractFeePerKb),
     settlementFee       |-> Js(t.settlementFee)]

(* The terms as the protocol has them, and as the peer's program sees them.*)
BuyersWire  == DecodeBuyerTerms(buyerTerms)
SellersWire == DecodeSellerTerms(sellerTerms)
BuyerSeen   == EncodeBuyerTerms(BuyersWire)
SellerSeen  == EncodeSellerTerms(SellersWire)

BuyersVerdict  == AreTermsMatching(buyerTerms, SellerSeen)
SellersVerdict == AreTermsMatching(BuyerSeen, sellerTerms)
WiresVerdict   == AreTermsMatching(BuyersWire, SellersWire)

-----------------------------------------------------------------------------
(* The output of a contract, and the anchor by which it is found.          *)

(* commitmentToOutput takes no value and no lock that is negative once     *)
(* converted.                                                              *)
TakesCommitment_anyLock(value, locktime) == ToInt64(value) >= 0

TakesCommitment(value, locktime) ==
    ToInt64(value) >= 0 /\ ToInt32(locktime) >= 0

CommitmentToOutput(value, locktime) ==
    [value |-> ToInt64(value), lock |-> ToInt32(locktime)]

(* What startDownloading is given for a seller.                            *)
DecodeInfo(o) ==
    [sellerTerms |-> DecodeSellerTerms(o.sellerTerms),
     index       |-> ToUint32(o.index),
     value       |-> ToInt64(o.value)]

EncodeOutPoint(index) == [index |-> Js(Signed(index))]

(* The number becomes a signed and then an unsigned integer.  For programs *)
(* to build transactions with: nothing in the repository calls it.         *)
DecodeOutPoint_unlessNegative(o) ==
    LET index == ToInt32(o.index) IN IF index < 0 THEN 0 ELSE index

DecodeOutPoint(o) == ToInt32(o.index) % Word

(* What the seller's program is told of what the buyer named.              *)
EncodeAnchorAnnounced(info) ==
    [value |-> Js(info.value), outpoint |-> EncodeOutPoint(info.index)]

-----------------------------------------------------------------------------

Fits(x) == Trunc(x) < Word

(* The counts need no more than 32 bits.                                   *)
TermsFit ==
    /\ Fits(buyerTerms.maxLock) /\ Fits(buyerTerms.minNumberOfSellers)
    /\ Fits(sellerTerms.minLock) /\ Fits(sellerTerms.maxNumberOfSellers)

Whole(terms) == \A key \in DOMAIN terms : terms[key] % 2 = 0

(***************************************************************************)
(* Fractions are cut off on the way, so the two sides may judge            *)
(* differently; but when either finds that the terms match then those that *)
(* were announced do: the contract that follows keeps the terms of both    *)
(* as the protocol knows them.                                             *)
(***************************************************************************)
MatchHoldsOnWire ==
    TermsFit /\ (BuyersVerdict \/ SellersVerdict) => WiresVerdict

(***************************************************************************)
(* With whole numbers both sides come to the same verdict: no buyer waits  *)
(* for a seller that thinks otherwise.                                     *)
(***************************************************************************)
WholeTermsJudgedAlike ==
    TermsFit /\ Whole(buyerTerms) /\ Whole(sellerTerms)
        => (BuyersVerdict <=> SellersVerdict)

(***************************************************************************)
(* A program that asks for an output with the lock of the seller's terms,  *)
(* as they were written or as they were announced, gets one with the lock  *)
(* that the protocol has in its terms, or an exception: locks have no sign *)
(* in terms and one in commitments, but none turns negative on the way.  A *)
(* lock that fits the word stays what was asked, and is refused only if it *)
(* needs the bit of the sign; what is beyond the word is cut off by both.  *)
(***************************************************************************)
OutputKeepsLock ==
    \A value \in Amount, locktime \in {sellerTerms.minLock, SellerSeen.minLock} :
        /\ TakesCommitment(value, locktime) =>
               CommitmentToOutput(value, locktime)
                   = [value |-> Trunc(value), lock |-> SellersWire.minLock]
        /\ Fits(locktime) =>
               /\ SellersWire.minLock = Trunc(locktime)
               /\ TakesCommitment(value, locktime) <=> Trunc(locktime) < Word \div 2

(***************************************************************************)
(* What a side announced is what the protocol is given when the other side *)
(* passes it on to startDownloading or startUploading; and the outpoint    *)
(* that the seller's program is told of, turned back into one of the       *)
(* protocol, is the one that the buyer named, also when its index is       *)
(* negative in between.                                                    *)
(***************************************************************************)
AnnouncedComesBack ==
    /\ DecodeBuyerTerms(BuyerSeen) = BuyersWire
    /\ \A index \in Count, value \in Amount :
           LET info == DecodeInfo([sellerTerms |-> SellerSeen,
                                   index |-> index, value |-> value])
               told == EncodeAnchorAnnounced(info)
           IN  /\ info.sellerTerms = SellersWire
               /\ Fits(index) => info.index = Trunc(index)
               /\ DecodeOutPoint(told.outpoint) = info.index
               /\ ToInt64(told.value) = Trunc(value)

=============================================================================
