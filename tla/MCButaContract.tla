--------------------------- MODULE MCButaContract ---------------------------
(* ButaContract on small instances: a whole life of one auction, and two   *)
(* auctions that share tokens, bidders and an escrow account.              *)
EXTENDS ButaContract

CONSTANTS
    OpenBalance,    \* what every user starts with, of every token
    PaidIn          \* the tokens auctions are paid in, where two share an escrow

MCInitialBalance == [t \in Tokens |-> [u \in Users |-> OpenBalance]]

(* Two auctions, from a desk that is set up and that everybody has         *)
(* approved for all they hold.                                             *)
ReadyInit ==
    /\ EmptyDesk
    /\ extensionId = 1
    /\ teeAddress \in Machines
    /\ allowance = Holdings
    /\ registry = [m \in Machines |-> "production"]

PairStep ==
    \/ \E u \in Users, t \in Tokens, n \in Payments : Transfer(u, Desk, t, n)
    \/ \E u \in Users, id \in Ids, c \in Commitments, s \in Ciphertexts : CommitBid(u, id, c, s)
    \/ \E u \in Users, s \in PaidIn, l \in Tokens, lot \in Lots, d \in Deadlines, r \in Ciphertexts :
          PostRfq(u, s, l, lot, d, Nobody, r)
    \/ \E id \in Ids : ReclaimLot(id)
    \/ RelayStep
    \/ AdvanceBlock

(* Blocks are produced, and a maker does come back for its lot.            *)
PairSpec ==
    /\ ReadyInit /\ [][PairStep]_contractVars
    /\ WF_contractVars(AdvanceBlock)
    /\ \A id \in Ids : WF_contractVars(ReclaimLot(id))
=============================================================================
