\* A deployment with a machine and its replacement, from the first block.
CONSTANTS
    Users = {"ann", "bob", "mia"}
    Admins = {"mia"}
    Sellers = {"mia"}
    Buyers = {"ann", "bob"}
    Invitations = {Nobody}
    Desk = Desk
    Nobody = Nobody
    Tokens = {X}
    SettleTokens = {X}
    LotTokens = {X}
    Machines = {m1, m2}
    First = m1
    Lots = {1}
    Payments = {}
    Approvals = {}
    Commitments = {}
    Ciphertexts = {}
    MaxAmount = 1
    Amounts <- MCAmounts
    Nonces = {0}
    Hash <- MCHash
    Reserves = {0}
    Bids = {1}
    BadCommitments = {}
    Screened = FALSE
    Words = 4
    Tags = {"threshold"}
    OpenBalance = 4
    InitialBalance <- MCInitialBalance
    MaxRfqs = 1
    MaxBlock = 2
    MaxInstructions = 4
SPECIFICATION LifeSpec
INVARIANTS OneOutcomePerAuction
PROPERTIES ClearedAfterDeadline KeepsPromise
CHECK_DEADLOCK FALSE
