----------------------------- MODULE ButaSystem -----------------------------
(***************************************************************************)
(* The desk end to end: the contract, the enclaves, and what lies between. *)
(* Instructions reach the machine the registry drew for them in any order, *)
(* any number of times or never, and answers are relayed by anyone at any  *)
(* time.  A machine that stops takes its book and its key with it.         *)
(***************************************************************************)
EXTENDS ButaContract

CONSTANTS
    Sellers, Buyers,            \* who posts and who bids
    Invitations,                \* whom an auction may be scoped to; Nobody is anyone
    SettleTokens, LotTokens,    \* what is paid and what is sold
    Amounts, Nonces, Hash,      \* see Vickrey
    Reserves, Bids,             \* hidden floors, and the amounts bid
    BadCommitments,             \* commitments no opening produces
    Tags,                       \* submission tags an instruction is delivered under
    Screened,                   \* whether the enclaves read balances
    Words                       \* see Enclave

ASSUME RolesAssumption ==
    Sellers \cup Buyers \subseteq Users /\ Invitations \subseteq Users \cup {Nobody}
ASSUME AmountsAssumption ==
    /\ Amounts \subseteq Nat /\ 0 \in Amounts /\ 0 \in Nonces
    /\ Reserves \cup Bids \subseteq Amounts

VARIABLES life, book, next, answers

(* The contract hands on addresses, each written in one way.               *)
AsWritten == [u \in Users |-> u]

TEE == INSTANCE Enclave WITH
    Bidders <- Users, Names <- Users, HexToAddress <- AsWritten, Makers <- Users, Open <- Nobody

ASSUME HashAssumption ==
    /\ Hash \in [TEE!Opening -> Nat]
    /\ \A o, p \in TEE!Opening : Hash[o] = Hash[p] => o = p

enclaveVars == <<life, book, next, answers>>
vars == <<contractVars, enclaveVars>>

Init == ContractInit /\ TEE!EnclaveInit

-----------------------------------------------------------------------------
(***************************************************************************)
(* What the desk's users submit.  A bid is sealed to a running machine's   *)
(* key; its commitment is the hash of its opening, or not.                 *)
(***************************************************************************)
SealedBid(m, u, id, amount, nonce, c) ==
    [key |-> m, amount |-> amount, nonce |-> nonce,
     sig |-> [signer |-> u, rfqId |-> id, commitment |-> c]]

Running == {m \in Machines : life[m] = "up"}

BidOn(u, id) ==
    \E m \in Running, amount \in Bids, nonce \in Nonces :
        \E c \in {TEE!Commit(amount, nonce, u)} \cup BadCommitments :
            CommitBid(u, id, c, SealedBid(m, u, id, amount, nonce, c))

PostBy(u) ==
    \E m \in Running, s \in SettleTokens, l \in LotTokens, lot \in Lots,
       d \in Deadlines, i \in Invitations, r \in Reserves :
        PostRfq(u, s, l, lot, d, i, [key |-> m, reserve |-> r])

AuctionStep ==
    /\ \/ \E u \in Sellers : PostBy(u)
       \/ \E u \in Buyers, id \in Ids : BidOn(u, id)
       \/ \E id \in Ids : RequestClearing(id)
       \/ \E id \in Ids : ReclaimLot(id)
       \/ AdvanceBlock
    /\ UNCHANGED enclaveVars

TokenStep ==
    /\ \/ \E u \in Users, t \in SettleTokens, n \in Approvals : Approve(u, t, n)
       \/ \E u \in Users, v \in Accounts, t \in SettleTokens, n \in Payments :
              Transfer(u, v, t, n)
    /\ UNCHANGED enclaveVars

(* Only a machine that answers passes the availability check.              *)
AdminStep ==
    /\ \/ SetExtensionId
       \/ \E u \in Users, m \in Machines : SetTeeAddress(u, m)
       \/ \E m \in Running : Register(m)
       \/ \E m \in Machines : Pause(m)
    /\ UNCHANGED enclaveVars

-----------------------------------------------------------------------------
(***************************************************************************)
(* Delivery of an instruction to the machine it was sent to.               *)
(***************************************************************************)
PostRequest(ins) ==
    [rfqId |-> ins.rfqId, maker |-> ins.sender, lot |-> ins.body.lot,
     invited |-> ins.body.invited, sealed |-> ins.body.sealed]

CommitRequest(ins) ==
    [rfqId |-> ins.rfqId, bidder |-> ins.sender,
     commitment |-> ins.body.commitment, sealed |-> ins.body.sealed]

(* What a bidder can pay through the desk, read from the chain as the      *)
(* enclave clears.  Without the settle token there is no screen; a reading *)
(* that fails disqualifies nobody.                                         *)
Limit(id) ==
    LET t == rfqs[id].settleToken
    IN  [u \in Users |-> Min({balance[t][u], allowance[t][u]})]

ScreensFor(id) ==
    {TEE!NoScreen} \cup
    IF Screened THEN {TEE!solvencyScreen(Limit(id), unread) : unread \in SUBSET Buyers} ELSE {}

DeliverPost(i) ==
    /\ instructions[i].op = "POST_RFQ"
    /\ TEE!HandlePostRfq(instructions[i].to, PostRequest(instructions[i]))
    /\ UNCHANGED contractVars

DeliverCommit(i) ==
    /\ instructions[i].op = "COMMIT_BID"
    /\ TEE!HandleCommitBid(instructions[i].to, CommitRequest(instructions[i]))
    /\ UNCHANGED contractVars

DeliverClear(i, tag) ==
    LET id == instructions[i].rfqId
    IN  /\ instructions[i].op = "CLEAR_AUCTION"
        /\ \E screen \in ScreensFor(id) :
               TEE!HandleClearAuction(instructions[i].to, id, i, tag, screen)
        /\ UNCHANGED contractVars

Deliver(i) == DeliverPost(i) \/ DeliverCommit(i) \/ \E tag \in Tags : DeliverClear(i, tag)

(* The four words the contract rebuilds are the data of a "threshold"      *)
(* result.  Any other delivery was signed over other bytes: its signature, *)
(* well formed, recovers to an address nobody holds.                       *)
Presented(a) ==
    [a EXCEPT !.signer = IF a.tag = "threshold" THEN @ ELSE "unrelated"]

Relay ==
    /\ \E a \in answers : RelayClearing(Presented(a))
    /\ UNCHANGED enclaveVars

(* A result a caller makes up, under a malformed signature: it recovers to *)
(* address(0), and so it settles while the contract has no enclave to      *)
(* trust.  Its action id may be one an enclave will answer, or no one's.   *)
Unsigned(id, winners, actionIds) ==
    [signer : {Nobody}, rfqId : {id}, winner : winners, price : Amounts,
     digest : {CommitmentDigest(id)}, actionId : actionIds, status : {1}]

RelayUnsigned(winners, actionIds) ==
    /\ \E id \in 1..rfqCount : \E res \in Unsigned(id, winners, actionIds) : RelayClearing(res)
    /\ UNCHANGED enclaveVars

MachineStep ==
    /\ \E m \in Machines : TEE!Start(m) \/ TEE!Stop(m)
    /\ UNCHANGED contractVars

Delivery == \E i \in DOMAIN instructions : Deliver(i)

Next ==
    \/ AuctionStep \/ TokenStep \/ AdminStep \/ MachineStep
    \/ Delivery \/ Relay \/ RelayUnsigned(Accounts, Nat)

Spec == Init /\ [][Next]_vars

-----------------------------------------------------------------------------
Cleared(a) == a.status = 1

HasEnclave == teeAddress # Nobody

(* No enclave clears an auction that still takes bids, and neither does    *)
(* the contract once it has an enclave to trust.  relayClearing and        *)
(* CLEAR_AUCTION check no deadline: it holds because a clearing only       *)
(* starts from an instruction requestClearing sent after the deadline.     *)
ClearedAfterDeadline ==
    [][/\ \A id \in 1..rfqCount :
             (HasEnclave /\ ~rfqs[id].cleared /\ rfqs'[id].cleared)
                 => block > rfqs[id].deadlineBlock
       /\ \A a \in answers' \ answers :
             Cleared(a) => a.rfqId \in 1..rfqCount /\ block > rfqs[a.rfqId].deadlineBlock]_vars

(* Across deliveries, machines and restarts, an auction has one outcome:   *)
(* no two signed clearings of it disagree on the winner or on the price.   *)
OneOutcomePerAuction ==
    \A a, b \in answers :
        (Cleared(a) /\ Cleared(b) /\ a.rfqId = b.rfqId) => TEE!SameOutcome(a, b)

(* "The clearing set is whatever the CONTRACT recorded" (rfq.go:27): a     *)
(* clearing is over the set the contract holds.                            *)
ClearingSetIsContracts ==
    \A a \in answers : Cleared(a) => a.digest = CommitmentDigest(a.rfqId)

(***************************************************************************)
(* Liveness of settlement.  Every CLEAR_AUCTION is delivered under its     *)
(* "threshold" tag once, at least, to a machine that runs; other tags may  *)
(* come before it, after it or never.  Somebody relays what can settle.    *)
(***************************************************************************)
Unanswered(i) == ~ \E a \in answers : a.actionId = i /\ a.tag = "threshold"

DeliverThreshold(i) ==
    i \in DOMAIN instructions /\ Unanswered(i) /\ DeliverClear(i, "threshold")

Fairness ==
    /\ \A i \in 1..MaxInstructions : WF_vars(DeliverThreshold(i))
    /\ WF_vars(Relay)

(* An instruction asks the trusted machine to clear the set the contract   *)
(* recorded, and that set has a bid to award to.                           *)
Settleable(id) ==
    \E i \in DOMAIN instructions :
        /\ instructions[i].op = "CLEAR_AUCTION" /\ instructions[i].rfqId = id
        /\ Unanswered(i)
        /\ LET m == instructions[i].to
           IN  /\ m = teeAddress /\ life[m] = "up" /\ id \in DOMAIN book[m]
               /\ ToBag(book[m][id].recorded) = CommitmentDigest(id)
               /\ \/ book[m][id].cleared
                  \/ \E k \in DOMAIN book[m][id].openings :
                         book[m][id].openings[k].amount >= book[m][id].reserve

(* Such an auction closes without anybody reclaiming the lot, whichever    *)
(* delivery of the clearing reaches the enclave first.                     *)
FullSetSettles == \A id \in Ids : Settleable(id) ~> (id <= rfqCount /\ rfqs[id].cleared)

(***************************************************************************)
(* The system implements SealedAuction: once the contract has an enclave   *)
(* to trust, what settles is the second price over everything it recorded, *)
(* whatever was lost, reordered or refused on the way.                     *)
(***************************************************************************)
PhaseOf(id) ==
    IF id > rfqCount THEN "unposted"
    ELSE IF IsSold(id) THEN "sold"
    ELSE IF rfqs[id].cleared THEN "returned"
    ELSE IF block > rfqs[id].deadlineBlock THEN "sealed"
    ELSE "open"

FloorOf(id) ==
    IF id > rfqCount THEN 0
    ELSE LET i == CHOOSE i \in DOMAIN instructions :
                     instructions[i].op = "POST_RFQ" /\ instructions[i].rfqId = id
         IN  instructions[i].body.sealed.reserve

SaleOf(id) == IF IsSold(id) THEN <<rfqs[id].winner, rfqs[id].clearingPrice>> ELSE <<>>

Promise == INSTANCE SealedAuction WITH
    Bidders <- Users, Names <- Users, Takers <- Users \cup {Desk}, AuctionIds <- Ids,
    Sealable <- Range(Hash) \cup BadCommitments,
    trusted <- HasEnclave,
    phase <- [id \in Ids |-> PhaseOf(id)],
    sealed <- [id \in Ids |-> ToSet(commitments[id])],
    floor <- [id \in Ids |-> FloorOf(id)],
    sale <- [id \in Ids |-> SaleOf(id)]

(* The system as a whole keeps the desk's promise.                         *)
KeepsPromise == Promise!Spec
=============================================================================
