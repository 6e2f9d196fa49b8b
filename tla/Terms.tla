-------------------------------- MODULE Terms --------------------------------
(***************************************************************************)
(* The terms of a buyer and of a seller, and areTermsMatching of           *)
(* lib/utils.js, by which each decides whether to do business.  Both may   *)
(* change their terms at any time (updateBuyerTerms, updateSellerTerms).   *)
(***************************************************************************)
EXTENDS Integers

CONSTANTS
    Amount,     \* numbers of satoshis
    Count       \* locks, and numbers of sellers

ASSUME AmountAssumption == Amount \subseteq Nat /\ Count \subseteq Nat

VARIABLES
    buyerTerms,
    sellerTerms

vars == <<buyerTerms, sellerTerms>>

BuyerTerms == [maxPrice : Amount, maxLock : Count,
               minNumberOfSellers : Count, maxContractFeePerKb : Amount]

(* settlementFee is between the seller and the miners: nothing compares it. *)
SellerTerms == [minPrice : Amount, minLock : Count, maxNumberOfSellers : Count,
                minContractFeePerKb : Amount, settlementFee : Amount]

TypeOK == buyerTerms \in BuyerTerms /\ sellerTerms \in SellerTerms

AreTermsMatching_sellersSwapped(b, s) ==
    /\ b.maxPrice >= s.minPrice
    /\ b.maxLock >= s.minLock
    /\ b.minNumberOfSellers >= s.maxNumberOfSellers
    /\ b.maxContractFeePerKb >= s.minContractFeePerKb

AreTermsMatching(b, s) ==
    /\ b.maxPrice >= s.minPrice
    /\ b.maxLock >= s.minLock
    /\ b.minNumberOfSellers <= s.maxNumberOfSellers
    /\ b.maxContractFeePerKb >= s.minContractFeePerKb

-----------------------------------------------------------------------------

UpdateBuyerTerms ==
    /\ buyerTerms' \in BuyerTerms
    /\ UNCHANGED sellerTerms

UpdateSellerTerms ==
    /\ sellerTerms' \in SellerTerms
    /\ UNCHANGED buyerTerms

Init == TypeOK

Next == UpdateBuyerTerms \/ UpdateSellerTerms

Spec == Init /\ [][Next]_vars

-----------------------------------------------------------------------------
(* What the names of the terms say: the contracts each side would sign.    *)

Contract == [price : Amount, lock : Count, sellers : Count, feePerKb : Amount]

BuyerAccepts(b, c) ==
    /\ c.price <= b.maxPrice
    /\ c.lock <= b.maxLock
    /\ c.sellers >= b.minNumberOfSellers
    /\ c.feePerKb <= b.maxContractFeePerKb

SellerAccepts(s, c) ==
    /\ c.price >= s.minPrice
    /\ c.lock >= s.minLock
    /\ c.sellers <= s.maxNumberOfSellers
    /\ c.feePerKb >= s.minContractFeePerKb

(***************************************************************************)
(* The terms match exactly when there is a contract that both accept: no   *)
(* deal is missed, and none is begun that cannot be concluded.             *)
(***************************************************************************)
MatchIffAgreement ==
    AreTermsMatching(buyerTerms, sellerTerms)
        <=> \E c \in Contract :
                BuyerAccepts(buyerTerms, c) /\ SellerAccepts(sellerTerms, c)

-----------------------------------------------------------------------------

(* A side that asks for less, in every respect.                            *)
BuyerYields ==
    /\ buyerTerms'.maxPrice >= buyerTerms.maxPrice
    /\ buyerTerms'.maxLock >= buyerTerms.maxLock
    /\ buyerTerms'.minNumberOfSellers <= buyerTerms.minNumberOfSellers
    /\ buyerTerms'.maxContractFeePerKb >= buyerTerms.maxContractFeePerKb

SellerYields ==
    /\ sellerTerms'.minPrice <= sellerTerms.minPrice
    /\ sellerTerms'.minLock <= sellerTerms.minLock
    /\ sellerTerms'.maxNumberOfSellers >= sellerTerms.maxNumberOfSellers
    /\ sellerTerms'.minContractFeePerKb <= sellerTerms.minContractFeePerKb

(***************************************************************************)
(* An update of terms that gives way, in any number of respects, never     *)
(* loses a partner who matched before.                                     *)
(***************************************************************************)
YieldingKeepsMatch ==
    [][ AreTermsMatching(buyerTerms, sellerTerms) /\ BuyerYields /\ SellerYields
          => AreTermsMatching(buyerTerms', sellerTerms') ]_vars

=============================================================================
