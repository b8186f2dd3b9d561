----------------------------- MODULE MCEnclave -----------------------------
(***************************************************************************)
(* The enclave by itself, given few requests, well formed or not.          *)
(*                                                                         *)
(* The proxy through which desks read the enclave is checked beside it.    *)
(* Answers are told apart by their moment only, so the two share no state, *)
(* and the run takes the union of their behaviours, not the product: each  *)
(* moves only while the other has done nothing yet.                        *)
(***************************************************************************)
EXTENDS Enclave, Forward

CONSTANTS
    MaxAmount,  \* bound on amounts and reserves
    PostIds,    \* the ids a POST_RFQ carries; 0 lets the store choose
    BidIds,     \* the auctions bid on and cleared
    ActionIds,  \* the action ids of CLEAR_AUCTION deliveries
    MaxResults, \* bound on the answers to them
    Limits,     \* what the screen may read of a bidder's funds
    Twice       \* an address written in two ways

MCAmounts == 0..MaxAmount
MCHexToAddress == [n \in Names |-> IF n \in Bidders THEN n ELSE Twice]
MCHash == [o \in [amount : 0..MaxAmount, nonce : Nonces, bidder : Bidders] |->
              o.bidder * 10 + o.amount]

Sealed(key, amount, bidder, id, c) ==
    [key |-> key, amount |-> amount, nonce |-> 0,
     sig |-> [signer |-> HexToAddress[bidder], rfqId |-> id, commitment |-> c]]

(* A bidder commits to one amount, seals another or the same, and signs    *)
(* for one auction, bidding in another or the same.                        *)
CommitRequests(m) ==
    {[rfqId |-> id, bidder |-> b, commitment |-> Commit(x, 0, HexToAddress[b]),
      sealed |-> Sealed(key, y, b, signedFor, Commit(x, 0, HexToAddress[b]))] :
        id \in BidIds, signedFor \in EnclaveId, b \in Names, x, y \in Amounts \ {0}, key \in {m, "other"}}

(* What the store numbers is for the address that is written in two ways.  *)
PostRequests(m) ==
    {[rfqId |-> id, maker |-> k, lot |-> 1, invited |-> IF id = 0 THEN Twice ELSE Open,
      sealed |-> [key |-> m, reserve |-> 1]] : id \in PostIds, k \in Makers}

Screens == {NoScreen} \cup {solvencyScreen(limit, {}) : limit \in [Bidders -> Limits]}

MCEnclaveNext ==
    \E m \in Machines :
        \/ Start(m) \/ Stop(m)
        \/ processDirect(m, PostRequests(m), CommitRequests(m), BidIds,
               IF Cardinality(answers) < MaxResults THEN ActionIds ELSE {}, Screens)

MCInit == EnclaveInit /\ ForwardInit

MCNext ==
    \/ ForwardInit /\ MCEnclaveNext /\ UNCHANGED forwardVars
    \/ EnclaveInit /\ ForwardNext /\ UNCHANGED enclaveVars

MCSpec == MCInit /\ [][MCNext]_<<enclaveVars, forwardVars>>
=============================================================================
