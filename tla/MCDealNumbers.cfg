SPECIFICATION Spec
CONSTANTS
    Amount <- ThreeAmounts
    Count <- ThreeCounts
    Word = 8
INVARIANTS
    MatchIffAgreement
    MatchHoldsOnWire
    WholeTermsJudgedAlike
    OutputKeepsLock
    AnnouncedComesBack
