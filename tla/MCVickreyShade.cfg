\* As MCVickrey: three bidders, one of which can pay and gains by shading.
CONSTANTS
    Bidders = {1, 2, 3}
    Names = {1, 2, 3}
    Nonces = {0}
    MaxAmount = 2
    Amounts <- MCAmounts
    Limits <- MCAmounts
    Hash <- MCHash
SPECIFICATION Spec
INVARIANTS SolventBidderNeverShades
CHECK_DEADLOCK FALSE
