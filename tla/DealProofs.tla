----------------------------- MODULE DealProofs -----------------------------
(***************************************************************************)
(* Theorems of Terms and DealNumbers, for all amounts and counts and words *)
(* of any size: what areTermsMatching decides, and that the conversions    *)
(* between the numbers of JavaScript and of the protocol keep the deal.    *)
(***************************************************************************)
EXTENDS DealNumbers, TLAPS

(* A contract on the seller's own terms for as many sellers as the buyer   *)
(* needs is the one both accept if they accept any.                        *)
LEMMA MatchingTerms ==
    ASSUME NEW b \in BuyerTerms, NEW s \in SellerTerms
    PROVE  AreTermsMatching(b, s)
              <=> \E c \in Contract : BuyerAccepts(b, c) /\ SellerAccepts(s, c)
<1> USE AmountAssumption
<1>1. /\ b.maxPrice \in Nat /\ b.maxLock \in Nat
      /\ b.minNumberOfSellers \in Count /\ b.minNumberOfSellers \in Nat
      /\ b.maxContractFeePerKb \in Nat
    BY DEF BuyerTerms
<1>2. /\ s.minPrice \in Amount /\ s.minPrice \in Nat
      /\ s.minLock \in Count /\ s.minLock \in Nat
      /\ s.maxNumberOfSellers \in Nat
      /\ s.minContractFeePerKb \in Amount /\ s.minContractFeePerKb \in Nat
    BY DEF SellerTerms
<1>3. ASSUME AreTermsMatching(b, s)
      PROVE  \E c \in Contract : BuyerAccepts(b, c) /\ SellerAccepts(s, c)
  <2> DEFINE c == [price |-> s.minPrice, lock |-> s.minLock,
                   sellers |-> b.minNumberOfSellers,
                   feePerKb |-> s.minContractFeePerKb]
  <2>1. c \in Contract
      BY <1>1, <1>2 DEF Contract
  <2>2. BuyerAccepts(b, c) /\ SellerAccepts(s, c)
      BY <1>1, <1>2, <1>3 DEF BuyerAccepts, SellerAccepts, AreTermsMatching
  <2> QED
      BY <2>1, <2>2
<1>4. ASSUME NEW c \in Contract, BuyerAccepts(b, c), SellerAccepts(s, c)
      PROVE  AreTermsMatching(b, s)
  <2>1. c.price \in Nat /\ c.lock \in Nat /\ c.sellers \in Nat /\ c.feePerKb \in Nat
      BY DEF Contract
  <2> QED
      BY <1>1, <1>2, <1>4, <2>1 DEF BuyerAccepts, SellerAccepts, AreTermsMatching
<1> QED
    BY <1>3, <1>4

-----------------------------------------------------------------------------
(* Conversions.                                                            *)

(* Half a number is cut off, or nothing.                                   *)
LEMMA TruncNat ==
    ASSUME NEW x \in Nat
    PROVE  /\ Trunc(x) \in Nat
           /\ 2 * Trunc(x) <= x /\ x <= 2 * Trunc(x) + 1
           /\ x % 2 = 0 => 2 * Trunc(x) = x
BY SMT DEF Trunc

(* A number of the protocol comes back as it went.                         *)
LEMMA TruncJs ==
    ASSUME NEW n \in Int
    PROVE  Trunc(Js(n)) = n
BY SMT DEF Trunc, Js

(* What is left by division by a number of any size.                       *)
LEMMA Remainder ==
    ASSUME NEW a \in Int, NEW w \in Nat \ {0}
    PROVE  /\ a % w \in 0 .. w - 1
           /\ 0 <= a /\ a < w => a % w = a
           /\ -w <= a /\ a < 0 => a % w = a + w
OBVIOUS

LEMMA Uint32Range ==
    ASSUME NEW x \in Nat
    PROVE  /\ ToUint32(x) \in 0 .. Word - 1
           /\ Fits(x) => ToUint32(x) = Trunc(x)
<1>1. Trunc(x) \in Nat
    BY TruncNat
<1>2. ASSUME NEW a \in Nat
      PROVE  a % Word \in 0 .. Word - 1 /\ (a < Word => a % Word = a)
    BY WordAssumption
<1>3. /\ Trunc(x) % Word \in 0 .. Word - 1
      /\ Trunc(x) < Word => Trunc(x) % Word = Trunc(x)
    BY <1>1, <1>2
<1> QED
    BY <1>3 DEF ToUint32, Fits

LEMMA Uint32OfJs ==
    ASSUME NEW n \in 0 .. Word - 1
    PROVE  ToUint32(Js(n)) = n
<1>1. Trunc(Js(n)) = n
    BY TruncJs, WordAssumption
<1>2. n % Word = n
    BY Remainder, WordAssumption
<1> QED
    BY <1>1, <1>2 DEF ToUint32

(* A sign comes and goes: the bits stay.                                   *)
LEMMA SignedRoundTrip ==
    ASSUME NEW n \in 0 .. Word - 1
    PROVE  /\ Signed(n) \in Int
           /\ Signed(n) >= 0 => Signed(n) = n
           /\ Signed(n) % Word = n
<1>1. n \in Int /\ n - Word \in Int /\ Word \in Nat \ {0} /\ Word \div 2 \in Nat
    BY WordAssumption
<1>2. CASE n < Word \div 2
    BY <1>1, <1>2, Remainder DEF Signed
<1>3. CASE ~(n < Word \div 2)
  <2>1. Signed(n) = n - Word
      BY <1>3 DEF Signed
  <2>2. (n - Word) % Word = n
      BY <1>1, Remainder
  <2> QED
      BY <1>1, <2>1, <2>2
<1> QED
    BY <1>2, <1>3

-----------------------------------------------------------------------------
(* Terms.                                                                  *)

LEMMA TermsAreNumbers ==
    ASSUME NEW b \in BuyerTerms, NEW s \in SellerTerms
    PROVE  /\ b.maxPrice \in Nat /\ b.maxLock \in Nat
           /\ b.minNumberOfSellers \in Nat /\ b.maxContractFeePerKb \in Nat
           /\ s.minPrice \in Nat /\ s.minLock \in Nat
           /\ s.maxNumberOfSellers \in Nat /\ s.minContractFeePerKb \in Nat
           /\ s.settlementFee \in Nat
BY AmountAssumption DEF BuyerTerms, SellerTerms

(* Terms are terms: the updates replace them by others.                    *)
LEMMA TermsType == Spec => []TypeOK
<1>1. Init => TypeOK
    BY DEF Init
<1>2. TypeOK /\ [Next]_vars => TypeOK'
    BY DEF TypeOK, Next, UpdateBuyerTerms, UpdateSellerTerms, vars
<1> QED
    BY <1>1, <1>2, PTL DEF Spec

(***************************************************************************)
(* Whatever the two sides update their terms to, areTermsMatching is true  *)
(* exactly when a contract exists that both accept.                        *)
(***************************************************************************)
THEOREM MatchingIsAgreement == Spec => []MatchIffAgreement
<1>1. TypeOK => MatchIffAgreement
    BY MatchingTerms DEF TypeOK, MatchIffAgreement
<1> QED
    BY <1>1, TermsType, PTL

(* Giving way never loses a partner, however often terms are updated.      *)
THEOREM YieldingIsSafe == Spec => YieldingKeepsMatch
<1> USE AmountAssumption
<1>1. ASSUME TypeOK, TypeOK', AreTermsMatching(buyerTerms, sellerTerms),
             BuyerYields, SellerYields
      PROVE  AreTermsMatching(buyerTerms', sellerTerms')
  <2>1. \A b \in BuyerTerms : /\ b.maxPrice \in Nat /\ b.maxLock \in Nat
                              /\ b.minNumberOfSellers \in Nat
                              /\ b.maxContractFeePerKb \in Nat
      BY DEF BuyerTerms
  <2>2. \A s \in SellerTerms : /\ s.minPrice \in Nat /\ s.minLock \in Nat
                               /\ s.maxNumberOfSellers \in Nat
                               /\ s.minContractFeePerKb \in Nat
      BY DEF SellerTerms
  <2>3. /\ buyerTerms \in BuyerTerms /\ buyerTerms' \in BuyerTerms
        /\ sellerTerms \in SellerTerms /\ sellerTerms' \in SellerTerms
      BY <1>1 DEF TypeOK
  <2> QED
      BY <1>1, <2>1, <2>2, <2>3 DEF AreTermsMatching, BuyerYields, SellerYields
<1> QED
    BY <1>1, TermsType, PTL DEF YieldingKeepsMatch

(* What the conversions leave of the terms, in numbers.                    *)
LEMMA WireNumbers ==
    ASSUME TypeOK, TermsFit
    PROVE  /\ BuyersWire.maxPrice = Trunc(buyerTerms.maxPrice)
           /\ BuyersWire.maxLock = Trunc(buyerTerms.maxLock)
           /\ BuyersWire.minNumberOfSellers = Trunc(buyerTerms.minNumberOfSellers)
           /\ BuyersWire.maxContractFeePerKb = Trunc(buyerTerms.maxContractFeePerKb)
           /\ SellersWire.minPrice = Trunc(sellerTerms.minPrice)
           /\ SellersWire.minLock = Trunc(sellerTerms.minLock)
           /\ SellersWire.maxNumberOfSellers = Trunc(sellerTerms.maxNumberOfSellers)
           /\ SellersWire.minContractFeePerKb = Trunc(sellerTerms.minContractFeePerKb)
<1>1. buyerTerms \in BuyerTerms /\ sellerTerms \in SellerTerms
    BY DEF TypeOK
<1>2. /\ buyerTerms.maxLock \in Nat /\ buyerTerms.minNumberOfSellers \in Nat
      /\ sellerTerms.minLock \in Nat /\ sellerTerms.maxNumberOfSellers \in Nat
    BY <1>1, TermsAreNumbers
<1>3. /\ ToUint32(buyerTerms.maxLock) = Trunc(buyerTerms.maxLock)
      /\ ToUint32(buyerTerms.minNumberOfSellers) = Trunc(buyerTerms.minNumberOfSellers)
      /\ ToUint32(sellerTerms.minLock) = Trunc(sellerTerms.minLock)
      /\ ToUint32(sellerTerms.maxNumberOfSellers) = Trunc(sellerTerms.maxNumberOfSellers)
    BY <1>2, Uint32Range DEF TermsFit
<1> QED
    BY <1>3 DEF BuyersWire, SellersWire, DecodeBuyerTerms, DecodeSellerTerms, ToInt64

(* Each limit of a side against that of the other, cut or not.             *)
LEMMA LimitsOnWire ==
    ASSUME NEW x \in Nat, NEW y \in Nat
    PROVE  /\ Js(Trunc(x)) >= y => Trunc(x) >= Trunc(y)
           /\ x >= Js(Trunc(y)) => Trunc(x) >= Trunc(y)
           /\ x % 2 = 0 /\ y % 2 = 0
                => (x >= Js(Trunc(y)) <=> Js(Trunc(x)) >= y)
<1>1. /\ Trunc(x) \in Nat /\ 2 * Trunc(x) <= x /\ x <= 2 * Trunc(x) + 1
      /\ x % 2 = 0 => 2 * Trunc(x) = x
    BY TruncNat
<1>2. /\ Trunc(y) \in Nat /\ 2 * Trunc(y) <= y /\ y <= 2 * Trunc(y) + 1
      /\ y % 2 = 0 => 2 * Trunc(y) = y
    BY TruncNat
<1>3. Js(Trunc(x)) = 2 * Trunc(x) /\ Js(Trunc(y)) = 2 * Trunc(y)
    BY DEF Js
<1> QED
    BY <1>1, <1>2, <1>3

(***************************************************************************)
(* Numbers with fractions may be judged differently, but never in favour   *)
(* of terms that do not match as the protocol has them.                    *)
(***************************************************************************)
THEOREM VerdictHoldsOnWire == Spec => []MatchHoldsOnWire
<1>1. TypeOK => MatchHoldsOnWire
  <2> SUFFICES ASSUME TypeOK, TermsFit, BuyersVerdict \/ SellersVerdict
               PROVE  WiresVerdict
      BY DEF MatchHoldsOnWire
  <2>1. buyerTerms \in BuyerTerms /\ sellerTerms \in SellerTerms
      BY DEF TypeOK
  <2>2. CASE BuyersVerdict
    <3>1. /\ buyerTerms.maxPrice >= Js(Trunc(sellerTerms.minPrice))
          /\ buyerTerms.maxLock >= Js(Trunc(sellerTerms.minLock))
          /\ buyerTerms.minNumberOfSellers <= Js(Trunc(sellerTerms.maxNumberOfSellers))
          /\ buyerTerms.maxContractFeePerKb >= Js(Trunc(sellerTerms.minContractFeePerKb))
        BY <2>2, WireNumbers DEF BuyersVerdict, SellerSeen, EncodeSellerTerms, AreTermsMatching
    <3> QED
        BY <2>1, <3>1, TermsAreNumbers, LimitsOnWire, WireNumbers
           DEF WiresVerdict, AreTermsMatching
  <2>3. CASE SellersVerdict
    <3>1. /\ Js(Trunc(buyerTerms.maxPrice)) >= sellerTerms.minPrice
          /\ Js(Trunc(buyerTerms.maxLock)) >= sellerTerms.minLock
          /\ Js(Trunc(buyerTerms.minNumberOfSellers)) <= sellerTerms.maxNumberOfSellers
          /\ Js(Trunc(buyerTerms.maxContractFeePerKb)) >= sellerTerms.minContractFeePerKb
        BY <2>3, WireNumbers DEF SellersVerdict, BuyerSeen, EncodeBuyerTerms, AreTermsMatching
    <3> QED
        BY <2>1, <3>1, TermsAreNumbers, LimitsOnWire, WireNumbers
           DEF WiresVerdict, AreTermsMatching
  <2> QED
      BY <2>2, <2>3
<1> QED
    BY <1>1, TermsType, PTL

(***************************************************************************)
(* With whole numbers the two sides always judge alike.                    *)
(***************************************************************************)
THEOREM WholeNumbersJudgedAlike == Spec => []WholeTermsJudgedAlike
<1>1. TypeOK => WholeTermsJudgedAlike
  <2> SUFFICES ASSUME TypeOK, TermsFit, Whole(buyerTerms), Whole(sellerTerms)
               PROVE  BuyersVerdict <=> SellersVerdict
      BY DEF WholeTermsJudgedAlike
  <2>1. buyerTerms \in BuyerTerms /\ sellerTerms \in SellerTerms
      BY DEF TypeOK
  <2>2. /\ buyerTerms.maxPrice % 2 = 0 /\ buyerTerms.maxLock % 2 = 0
        /\ buyerTerms.minNumberOfSellers % 2 = 0
        /\ buyerTerms.maxContractFeePerKb % 2 = 0
      BY <2>1 DEF Whole, BuyerTerms
  <2>3. /\ sellerTerms.minPrice % 2 = 0 /\ sellerTerms.minLock % 2 = 0
        /\ sellerTerms.maxNumberOfSellers % 2 = 0
        /\ sellerTerms.minContractFeePerKb % 2 = 0
      BY <2>1 DEF Whole, SellerTerms
  <2>4. /\ Js(Trunc(buyerTerms.maxPrice)) = buyerTerms.maxPrice
        /\ Js(Trunc(buyerTerms.maxLock)) = buyerTerms.maxLock
        /\ Js(Trunc(buyerTerms.minNumberOfSellers)) = buyerTerms.minNumberOfSellers
        /\ Js(Trunc(buyerTerms.maxContractFeePerKb)) = buyerTerms.maxContractFeePerKb
      BY <2>1, <2>2, TermsAreNumbers, TruncNat DEF Js
  <2>5. /\ Js(Trunc(sellerTerms.minPrice)) = sellerTerms.minPrice
        /\ Js(Trunc(sellerTerms.minLock)) = sellerTerms.minLock
        /\ Js(Trunc(sellerTerms.maxNumberOfSellers)) = sellerTerms.maxNumberOfSellers
        /\ Js(Trunc(sellerTerms.minContractFeePerKb)) = sellerTerms.minContractFeePerKb
      BY <2>1, <2>3, TermsAreNumbers, TruncNat DEF Js
  <2> QED
      BY <2>4, <2>5, WireNumbers
         DEF BuyersVerdict, SellersVerdict, BuyerSeen, SellerSeen,
             EncodeBuyerTerms, EncodeSellerTerms, AreTermsMatching
<1> QED
    BY <1>1, TermsType, PTL

-----------------------------------------------------------------------------
(* Outputs and anchors.                                                    *)

(***************************************************************************)
(* An output asked for with the lock of the seller's terms has the lock    *)
(* that the protocol has in the terms, whatever number it was written as;  *)
(* one that fits the word is refused exactly if it needs the bit of the    *)
(* sign.                                                                   *)
(***************************************************************************)
THEOREM OutputHasLock == Spec => []OutputKeepsLock
<1> USE AmountAssumption
<1>1. ASSUME TypeOK PROVE OutputKeepsLock
  <2> DEFINE n == SellersWire.minLock
  <2>1. sellerTerms.minLock \in Nat
      BY <1>1, TermsAreNumbers DEF TypeOK
  <2>2. /\ n = ToUint32(sellerTerms.minLock) /\ SellerSeen.minLock = Js(n)
        /\ n \in 0 .. Word - 1
      BY <2>1, Uint32Range DEF SellersWire, SellerSeen, DecodeSellerTerms, EncodeSellerTerms
  <2> HIDE DEF n
  <2>3. Js(n) \in Nat /\ ToUint32(Js(n)) = n
      BY <2>2, Uint32OfJs, WordAssumption DEF Js
  <2> SUFFICES ASSUME NEW value \in Amount,
                      NEW locktime \in {sellerTerms.minLock, SellerSeen.minLock}
               PROVE  /\ TakesCommitment(value, locktime) =>
                             CommitmentToOutput(value, locktime)
                                 = [value |-> Trunc(value), lock |-> n]
                      /\ Fits(locktime) =>
                             /\ n = Trunc(locktime)
                             /\ TakesCommitment(value, locktime)
                                   <=> Trunc(locktime) < Word \div 2
      BY DEF OutputKeepsLock, n
  <2>4. locktime \in Nat /\ ToUint32(locktime) = n
      BY <2>1, <2>2, <2>3
  <2>5. /\ Word \in Nat /\ Word \div 2 \in Nat
        /\ n < Word \div 2 => Signed(n) = n
        /\ ~(n < Word \div 2) => Signed(n) = n - Word
      BY WordAssumption DEF Signed
  <2>6. TakesCommitment(value, locktime) <=> n < Word \div 2
    <3>1. Trunc(value) \in Nat
        BY TruncNat
    <3> QED
        BY <2>2, <2>4, <2>5, <3>1 DEF TakesCommitment, ToInt64, ToInt32
  <2>7. Fits(locktime) => n = Trunc(locktime)
      BY <2>4, Uint32Range
  <2>8. n < Word \div 2 =>
            CommitmentToOutput(value, locktime) = [value |-> Trunc(value), lock |-> n]
      BY <2>4, <2>5 DEF CommitmentToOutput, ToInt64, ToInt32
  <2> QED
      BY <2>6, <2>7, <2>8
<1> QED
    BY <1>1, TermsType, PTL

(* A number that was announced comes back as it went.                      *)
LEMMA RoundTrips ==
    ASSUME NEW x \in Nat
    PROVE  /\ ToInt64(Js(ToInt64(x))) = ToInt64(x)
           /\ ToUint32(Js(ToUint32(x))) = ToUint32(x)
<1>1. Trunc(x) \in Int
    BY TruncNat
<1> QED
    BY <1>1, TruncJs, Uint32Range, Uint32OfJs DEF ToInt64

(***************************************************************************)
(* Terms reach the protocol of the one who passes them on as the other     *)
(* side announced them, and the outpoint that is told is the one that was  *)
(* named, also when its index needs all the bits of the word.              *)
(***************************************************************************)
THEOREM AnnouncedSurvives == Spec => []AnnouncedComesBack
<1> USE AmountAssumption
<1>1. ASSUME TypeOK
      PROVE  /\ DecodeBuyerTerms(BuyerSeen) = BuyersWire
             /\ DecodeSellerTerms(SellerSeen) = SellersWire
  <2>1. buyerTerms \in BuyerTerms /\ sellerTerms \in SellerTerms
      BY <1>1 DEF TypeOK
  <2>2. /\ buyerTerms.maxPrice \in Nat /\ buyerTerms.maxLock \in Nat
        /\ buyerTerms.minNumberOfSellers \in Nat /\ buyerTerms.maxContractFeePerKb \in Nat
        /\ sellerTerms.minPrice \in Nat /\ sellerTerms.minLock \in Nat
        /\ sellerTerms.maxNumberOfSellers \in Nat
        /\ sellerTerms.minContractFeePerKb \in Nat /\ sellerTerms.settlementFee \in Nat
      BY <2>1, TermsAreNumbers
  <2>3. DecodeBuyerTerms(BuyerSeen) = BuyersWire
      BY <2>2, RoundTrips DEF BuyerSeen, BuyersWire, EncodeBuyerTerms, DecodeBuyerTerms
  <2>4. DecodeSellerTerms(SellerSeen) = SellersWire
      BY <2>2, RoundTrips DEF SellerSeen, SellersWire, EncodeSellerTerms, DecodeSellerTerms
  <2> QED
      BY <2>3, <2>4
<1>2. ASSUME NEW n \in 0 .. Word - 1
      PROVE  ToInt32(Js(Signed(n))) % Word = n
  <2>1. Trunc(Js(Signed(n))) = Signed(n)
      BY SignedRoundTrip, TruncJs
  <2> QED
      BY <2>1, SignedRoundTrip DEF ToInt32, ToUint32
<1>3. ASSUME TypeOK PROVE AnnouncedComesBack
  <2> SUFFICES ASSUME NEW index \in Count, NEW value \in Amount, NEW info,
                      info = DecodeInfo([sellerTerms |-> SellerSeen,
                                         index |-> index, value |-> value])
               PROVE  /\ info.sellerTerms = SellersWire
                      /\ Fits(index) => info.index = Trunc(index)
                      /\ DecodeOutPoint(EncodeAnchorAnnounced(info).outpoint) = info.index
                      /\ ToInt64(EncodeAnchorAnnounced(info).value) = Trunc(value)
      BY <1>1, <1>3 DEF AnnouncedComesBack
  <2>1. /\ info.sellerTerms = DecodeSellerTerms(SellerSeen)
        /\ info.index = ToUint32(index) /\ info.value = ToInt64(value)
      BY DEF DecodeInfo
  <2>2. ToUint32(index) \in 0 .. Word - 1 /\ (Fits(index) => ToUint32(index) = Trunc(index))
      BY Uint32Range
  <2>3. DecodeOutPoint(EncodeAnchorAnnounced(info).outpoint) = info.index
      BY <1>2, <2>1, <2>2 DEF EncodeAnchorAnnounced, EncodeOutPoint, DecodeOutPoint
  <2>4. ToInt64(EncodeAnchorAnnounced(info).value) = Trunc(value)
      BY <2>1, RoundTrips DEF EncodeAnchorAnnounced, ToInt64
  <2> QED
      BY <1>1, <1>3, <2>1, <2>2, <2>3, <2>4
<1> QED
    BY <1>3, TermsType, PTL

=============================================================================
