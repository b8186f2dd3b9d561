\* The whole life of one auction, setup included, with one token for both legs.
CONSTANTS
    Users = {u1, u2}
    Admins = {u1}
    Desk = Desk
    Nobody = Nobody
    Tokens = {X}
    Machines = {m1}
    Lots = {2}
    Payments = {2}
    Approvals = {2}
    Commitments = {c1, c2}
    Ciphertexts = {s1}
    OpenBalance = 2
    PaidIn = {X}
    InitialBalance <- MCInitialBalance
    MaxRfqs = 1
    MaxBlock = 3
    MaxInstructions = 3
SPECIFICATION ContractSpec
INVARIANTS ContractTypeOK OneSealPerBidder
PROPERTIES ClosedIsFinal SetFixedAtDeadline
CHECK_DEADLOCK FALSE
