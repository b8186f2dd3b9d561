\* The second delivery of a clearing, and what the desk expects of it.
CONSTANTS
    Bidders = {1, 2}
    Names = {1, 2, 3}
    Twice = 2
    HexToAddress <- MCHexToAddress
    Nonces = {0}
    MaxAmount = 2
    Machines = {m1}
    Makers = {"maker"}
    Open = Open
    Words = 3
    PostIds = {0, 1}
    BidIds = {1, 2}
    ActionIds = {1}
    MaxResults = 2
    Limits = {0, 2}
    Amounts <- MCAmounts
    Hash <- MCHash
    Addresses = {"x", "y"}
    Reads = {"info", "LIST_RFQS", "GET_MY_BIDS"}
    PerWindow = 1
    Window = 1
    MaxBuckets = 1
    InfoTtl = 2
    BookTtl = 1
    MaxAnswers = 1
    Timeout = 1
    Fetches = {1, 2}
    MaxTime = 4
SPECIFICATION MCSpec
PROPERTIES SecondClearingRefused
CHECK_DEADLOCK FALSE
