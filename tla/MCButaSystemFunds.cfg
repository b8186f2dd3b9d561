\* The solvency screen on, and funds that move between clearing and settlement.
CONSTANTS
    Users = {"ann", "bob", "mia"}
    Admins = {"mia"}
    Sellers = {"mia"}
    Buyers = {"ann", "bob"}
    Invitations = {Nobody}
    Desk = Desk
    Nobody = Nobody
    Tokens = {X}
    SettleTokens = {X}
    LotTokens = {X}
    Machines = {m1}
    First = m1
    Lots = {1}
    Payments = {2}
    Approvals = {2}
    Commitments = {}
    Ciphertexts = {}
    MaxAmount = 2
    Amounts <- MCAmounts
    Nonces = {0}
    Hash <- MCHash
    Reserves = {1}
    Bids = {1, 2}
    BadCommitments = {}
    Screened = TRUE
    Words = 4
    Tags = {"threshold"}
    OpenBalance = 2
    InitialBalance <- MCInitialBalance
    MaxRfqs = 1
    MaxBlock = 2
    MaxInstructions = 4
SPECIFICATION FundsSpec
PROPERTIES KeepsPromise
CHECK_DEADLOCK FALSE
