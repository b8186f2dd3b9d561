\* Three bidders in every order of arrival; screened and not, with a failed reading.
CONSTANTS
    Bidders = {1, 2, 3}
    Names = {1, 2, 3}
    Nonces = {0}
    MaxAmount = 2
    Amounts <- MCAmounts
    Limits <- MCAmounts
    Hash <- MCHash
SPECIFICATION Spec
INVARIANTS ClearsAtSecondPrice OrderIndependent TrimmedSetRefused SolventBookNeverShades
CHECK_DEADLOCK FALSE
