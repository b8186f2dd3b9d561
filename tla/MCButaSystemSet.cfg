\* Only well-formed bids, and deliveries in any order.
CONSTANTS
    Users = {"ann", "bob", "mia"}
    Admins = {"mia"}
    Sellers = {"mia"}
    Buyers = {"ann", "bob"}
    Invitations = {Nobody}
    Desk = Desk
    Nobody = Nobody
    Tokens = {X}
    SettleTokens = {X}
    LotTokens = {X}
    Machines = {m1}
    First = m1
    Lots = {1}
    Payments = {}
    Approvals = {}
    Commitments = {}
    Ciphertexts = {}
    MaxAmount = 2
    Amounts <- MCAmounts
    Nonces = {0}
    Hash <- MCHash
    Reserves = {0, 2}
    Bids = {0, 1, 2}
    BadCommitments = {}
    Screened = FALSE
    Words = 4
    Tags = {"threshold", "end"}
    OpenBalance = 4
    InitialBalance <- MCInitialBalance
    MaxRfqs = 1
    MaxBlock = 2
    MaxInstructions = 5
SPECIFICATION AuctionSpec
INVARIANTS ClearingSetIsContracts
CHECK_DEADLOCK FALSE
