\* Two auctions over two tokens, so that one escrow could be paid out of another.
CONSTANTS
    Users = {u1, u2}
    Admins = {u1}
    Desk = Desk
    Nobody = Nobody
    Tokens = {X, L}
    Machines = {m1}
    Lots = {1}
    Payments = {1}
    Approvals = {1}
    Commitments = {c1}
    Ciphertexts = {s1}
    OpenBalance = 1
    PaidIn = {X}
    InitialBalance <- MCInitialBalance
    MaxRfqs = 2
    MaxBlock = 2
    MaxInstructions = 6
SPECIFICATION PairSpec
INVARIANTS EscrowBacked OneSalePerResult
PROPERTIES EveryAuctionCloses
CHECK_DEADLOCK FALSE
