\* One auction, two bidders, one machine; a clearing asked for twice, under both tags.
CONSTANTS
    Users = {"ann", "bob", "mia"}
    Admins = {"mia"}
    Sellers = {"mia"}
    Buyers = {"ann", "bob"}
    Invitations = {Nobody, "ann"}
    Desk = Desk
    Nobody = Nobody
    Tokens = {X}
    SettleTokens = {X}
    LotTokens = {X}
    Machines = {m1}
    First = m1
    Lots = {1}
    Payments = {}
    Approvals = {}
    Commitments = {}
    Ciphertexts = {}
    MaxAmount = 2
    Amounts <- MCAmounts
    Nonces = {0}
    Hash <- MCHash
    Reserves = {1}
    Bids = {0, 2}
    BadCommitments = {99}
    Screened = FALSE
    Words = 4
    Tags = {"threshold", "end"}
    OpenBalance = 4
    InitialBalance <- MCInitialBalance
    MaxRfqs = 1
    MaxBlock = 2
    MaxInstructions = 5
SPECIFICATION FairAuctionSpec
INVARIANTS OneOutcomePerAuction
PROPERTIES KeepsPromise FullSetSettles
CHECK_DEADLOCK FALSE
