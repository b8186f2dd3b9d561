---------------------------- MODULE ButaContract ----------------------------
(***************************************************************************)
(* contracts/ButaInstructionSender.sol with the ERC20 tokens it moves and  *)
(* the machine registry it asks: auctions with an escrowed lot, the        *)
(* commitment set of each, the instructions sent to the enclaves, and      *)
(* settlement of a signed clearing.  One action per transaction; a         *)
(* transaction that reverts changes nothing and is no step.                *)
(***************************************************************************)
EXTENDS Integers, SequencesExt

CONSTANTS
    Users,          \* externally owned accounts
    Admins,         \* those that may point the contract at an enclave
    Desk,           \* the contract's own account
    Nobody,         \* address(0)
    Tokens,         \* ERC20 tokens
    Machines,       \* TEE identities
    Lots,           \* lot sizes offered
    Payments,       \* what users send each other
    Approvals,      \* allowances users give the desk
    Commitments,    \* 32-byte commitments users record
    Ciphertexts,    \* sealed payloads carried to an enclave
    InitialBalance, \* what each user holds of each token
    MaxRfqs,        \* bound on the number of auctions
    MaxBlock,       \* bound on the block number
    MaxInstructions \* bound on the instructions sent

ASSUME AccountsAssumption == Desk \notin Users /\ Nobody \notin Users /\ Nobody # Desk
ASSUME AdminsAssumption   == Admins \subseteq Users
ASSUME NobodyAssumption   == Nobody \notin Machines
ASSUME LotsAssumption     == Lots \cup Payments \cup Approvals \subseteq Nat
ASSUME BalanceAssumption  == InitialBalance \in [Tokens -> [Users -> Nat]]
ASSUME BoundsAssumption   == {MaxRfqs, MaxBlock, MaxInstructions} \subseteq Nat

VARIABLES
    block,          \* block.number
    extensionId,    \* _extensionId, 0 until found in the registry
    teeAddress,     \* the only signer whose clearings settle
    rfqs,           \* rfqs[1..rfqCount]
    commitments,    \* _commitments: the clearing set, in acceptance order
    committed,      \* commitments already recorded, per auction
    hasBid,         \* accounts that have sealed a bid, per auction
    usedActionIds,  \* action ids already settled
    instructions,   \* what _sendInstruction handed to the registry, in order
    balance,        \* balanceOf, per token
    allowance,      \* allowance granted to the desk, per token and account
    registry        \* status of each machine in the diamond

auctionVars == <<rfqs, commitments, committed, hasBid, usedActionIds>>
tokenVars   == <<balance, allowance>>
setupVars   == <<extensionId, teeAddress, registry>>
contractVars == <<block, auctionVars, instructions, tokenVars, setupVars>>

Ids      == 1..MaxRfqs
Accounts == Users \cup {Desk, Nobody}
rfqCount == Len(rfqs)

(* The last block is past every deadline, so that every auction can end.   *)
Deadlines == 1..(MaxBlock - 1)

Rfq == [maker : Users, settleToken : Tokens, lotToken : Tokens, lot : Nat,
        deadlineBlock : Nat, invited : Users \cup {Nobody},
        cleared : BOOLEAN, winner : Accounts, clearingPrice : Nat]

(* What each account has of each token before anything is paid.            *)
Holdings == [t \in Tokens |->
                [a \in Accounts |-> IF a \in Users THEN InitialBalance[t][a] ELSE 0]]

(* No auction yet, every token with its holder.                            *)
EmptyDesk ==
    /\ block = 0
    /\ rfqs = <<>>
    /\ commitments = [id \in Ids |-> <<>>]
    /\ committed = [id \in Ids |-> {}]
    /\ hasBid = [id \in Ids |-> {}]
    /\ usedActionIds = {}
    /\ instructions = <<>>
    /\ balance = Holdings

ContractInit ==
    /\ EmptyDesk
    /\ extensionId = 0
    /\ teeAddress = Nobody
    /\ allowance = [t \in Tokens |-> [a \in Accounts |-> 0]]
    /\ registry = [m \in Machines |-> "none"]

-----------------------------------------------------------------------------
(***************************************************************************)
(* ERC20.  CanPull and Moved are the two halves of a transferFrom whose    *)
(* spender is the desk; a transfer only needs the balance, and may go to   *)
(* any account: the desk's own, or address(0).                             *)
(***************************************************************************)
CanPullUnapproved(t, from, n) == balance[t][from] >= n      \* faulty

CanPull(t, from, n) == allowance[t][from] >= n /\ balance[t][from] >= n

Moved(bal, t, from, to, n) ==
    LET taken == [bal EXCEPT ![t][from] = @ - n]
    IN  [taken EXCEPT ![t][to] = @ + n]

Approve(u, t, n) ==
    /\ allowance' = [allowance EXCEPT ![t][u] = n]
    /\ UNCHANGED <<block, auctionVars, instructions, balance, setupVars>>

Transfer(u, v, t, n) ==
    /\ u # v
    /\ balance[t][u] >= n
    /\ balance' = Moved(balance, t, u, v, n)
    /\ UNCHANGED <<block, auctionVars, instructions, allowance, setupVars>>

(***************************************************************************)
(* The registry diamond (external): a machine enters production, and can   *)
(* be paused.                                                              *)
(***************************************************************************)
Register(m) ==
    /\ registry[m] # "production"
    /\ registry' = [registry EXCEPT ![m] = "production"]
    /\ UNCHANGED <<block, auctionVars, instructions, tokenVars, extensionId, teeAddress>>

Pause(m) ==
    /\ registry[m] = "production"
    /\ registry' = [registry EXCEPT ![m] = "paused"]
    /\ UNCHANGED <<block, auctionVars, instructions, tokenVars, extensionId, teeAddress>>

(* _sendInstruction: one machine of the extension, drawn by the registry.  *)
SendInstruction(op, caller, id, body) ==
    /\ extensionId # 0
    /\ Len(instructions) < MaxInstructions
    /\ \E m \in Machines :
        /\ registry[m] = "production"
        /\ instructions' = Append(instructions,
               [op |-> op, sender |-> caller, rfqId |-> id, to |-> m, body |-> body])

-----------------------------------------------------------------------------
(***************************************************************************)
(* Setup.                                                                  *)
(***************************************************************************)
SetExtensionId ==
    /\ extensionId = 0
    /\ extensionId' = 1
    /\ UNCHANGED <<block, auctionVars, instructions, tokenVars, teeAddress, registry>>

SetTeeAddress(caller, m) ==
    /\ caller \in Admins
    /\ registry[m] = "production"
    /\ teeAddress' = m
    /\ UNCHANGED <<block, auctionVars, instructions, tokenVars, extensionId, registry>>

AdvanceBlock ==
    /\ block < MaxBlock
    /\ block' = block + 1
    /\ UNCHANGED <<auctionVars, instructions, tokenVars, setupVars>>

(***************************************************************************)
(* Maker.                                                                  *)
(***************************************************************************)
PostRfq(maker, settleToken, lotToken, lot, deadlineBlock, invited, reserve) ==
    /\ lot # 0
    /\ deadlineBlock > block
    /\ CanPull(lotToken, maker, lot)
    /\ rfqCount < MaxRfqs
    /\ balance' = Moved(balance, lotToken, maker, Desk, lot)
    /\ allowance' = [allowance EXCEPT ![lotToken][maker] = @ - lot]
    /\ rfqs' = Append(rfqs,
           [maker |-> maker, settleToken |-> settleToken, lotToken |-> lotToken,
            lot |-> lot, deadlineBlock |-> deadlineBlock, invited |-> invited,
            cleared |-> FALSE, winner |-> Nobody, clearingPrice |-> 0])
    /\ SendInstruction("POST_RFQ", maker, rfqCount + 1,
           [lot |-> lot, invited |-> invited, sealed |-> reserve])
    /\ UNCHANGED <<block, commitments, committed, hasBid, usedActionIds, setupVars>>

(***************************************************************************)
(* Bidder.                                                                 *)
(***************************************************************************)
MayBidAgain(bidder, id, c) ==                               \* faulty
    /\ id \in 1..rfqCount /\ ~rfqs[id].cleared /\ block <= rfqs[id].deadlineBlock
    /\ rfqs[id].invited \in {Nobody, bidder} /\ c \notin committed[id]
MayBidLate(bidder, id, c) ==                                \* faulty
    /\ id \in 1..rfqCount /\ ~rfqs[id].cleared /\ block <= rfqs[id].deadlineBlock + 1
    /\ rfqs[id].invited \in {Nobody, bidder} /\ c \notin committed[id] /\ bidder \notin hasBid[id]
MayBidOnClosed(bidder, id, c) ==                            \* faulty
    /\ id \in 1..rfqCount /\ block <= rfqs[id].deadlineBlock
    /\ rfqs[id].invited \in {Nobody, bidder} /\ c \notin committed[id] /\ bidder \notin hasBid[id]

MayBid(bidder, id, c) ==
    /\ id \in 1..rfqCount
    /\ ~rfqs[id].cleared
    /\ block <= rfqs[id].deadlineBlock
    /\ rfqs[id].invited \in {Nobody, bidder}
    /\ c \notin committed[id]
    /\ bidder \notin hasBid[id]

CommitBid(bidder, id, c, ciphertext) ==
    /\ MayBid(bidder, id, c)
    /\ committed' = [committed EXCEPT ![id] = @ \cup {c}]
    /\ hasBid' = [hasBid EXCEPT ![id] = @ \cup {bidder}]
    /\ commitments' = [commitments EXCEPT ![id] = Append(@, c)]
    /\ SendInstruction("COMMIT_BID", bidder, id,
           [commitment |-> c, sealed |-> ciphertext])
    /\ UNCHANGED <<block, rfqs, usedActionIds, tokenVars, setupVars>>

(***************************************************************************)
(* Clearing.                                                               *)
(***************************************************************************)
CanCloseAgain(id) == id \in 1..rfqCount                     \* faulty

CanClose(id) == id \in 1..rfqCount /\ ~rfqs[id].cleared

PastDeadlineEarly(id) == block >= rfqs[id].deadlineBlock    \* faulty

PastDeadline(id) == block > rfqs[id].deadlineBlock

RequestClearing(id) ==
    /\ CanClose(id)
    /\ PastDeadline(id)
    /\ SendInstruction("CLEAR_AUCTION", Nobody, id, [rfqId |-> id])
    /\ UNCHANGED <<block, auctionVars, tokenVars, setupVars>>

MayReclaimUnbid(id) ==                                      \* faulty
    CanClose(id) /\ PastDeadline(id) /\ commitments[id] = <<>>

MayReclaim(id) == CanClose(id) /\ PastDeadline(id)

ReclaimLot(id) ==
    /\ MayReclaim(id)
    /\ balance[rfqs[id].lotToken][Desk] >= rfqs[id].lot
    /\ rfqs' = [rfqs EXCEPT ![id].cleared = TRUE]
    /\ balance' = Moved(balance, rfqs[id].lotToken, Desk, rfqs[id].maker, rfqs[id].lot)
    /\ UNCHANGED <<block, commitments, committed, hasBid, usedActionIds,
                   instructions, allowance, setupVars>>

(* keccak256 over the recorded set, sorted: the same for the same multiset. *)
CommitmentDigest(id) == ToBag(commitments[id])

AuthorisedAgain(res) ==                                     \* faulty
    res.status = 1 /\ res.digest = CommitmentDigest(res.rfqId) /\ res.signer = teeAddress
AuthorisedAnySet(res) ==                                    \* faulty
    res.status = 1 /\ res.actionId \notin usedActionIds /\ res.signer = teeAddress

(* A result: what _recover yields once the contract has rebuilt the        *)
(* payload, and the fields the payload is rebuilt from.  A malformed       *)
(* signature recovers to address(0), which is what teeAddress is until it  *)
(* is set; nothing here looks at teeAddressSet.                            *)
Authorised(res) ==
    /\ res.actionId \notin usedActionIds
    /\ res.status = 1
    /\ res.digest = CommitmentDigest(res.rfqId)
    /\ res.signer = teeAddress

RelayClearing(res) ==
    LET id == res.rfqId
        r  == rfqs[id]
        paid == Moved(balance, r.settleToken, res.winner, r.maker, res.price)
    IN  /\ CanClose(id)
        /\ Authorised(res)
        /\ usedActionIds' = usedActionIds \cup {res.actionId}
        /\ rfqs' = [rfqs EXCEPT ![id].cleared = TRUE, ![id].winner = res.winner,
                                ![id].clearingPrice = res.price]
        /\ CanPull(r.settleToken, res.winner, res.price)
        /\ allowance' = [allowance EXCEPT ![r.settleToken][res.winner] = @ - res.price]
        /\ paid[r.lotToken][Desk] >= r.lot
        /\ balance' = Moved(paid, r.lotToken, Desk, res.winner, r.lot)
        /\ UNCHANGED <<block, commitments, committed, hasBid, instructions, setupVars>>

-----------------------------------------------------------------------------
(***************************************************************************)
(* What users, admins, the registry and the chain do, a clearing excepted. *)
(***************************************************************************)
UserStep ==
    \/ \E u \in Users, t \in Tokens, n \in Approvals : Approve(u, t, n)
    \/ \E u \in Users, v \in Accounts, t \in Tokens, n \in Payments : Transfer(u, v, t, n)
    \/ \E u \in Users, id \in Ids, c \in Commitments, s \in Ciphertexts : CommitBid(u, id, c, s)
    \/ \E u \in Users, s, l \in Tokens, lot \in Lots, d \in Deadlines,
          i \in Users \cup {Nobody}, r \in Ciphertexts : PostRfq(u, s, l, lot, d, i, r)
    \/ \E id \in Ids : RequestClearing(id) \/ ReclaimLot(id)

SetupStep ==
    \/ SetExtensionId
    \/ \E u \in Users, m \in Machines : SetTeeAddress(u, m)
    \/ \E m \in Machines : Register(m) \/ Pause(m)

(***************************************************************************)
(* The contract on its own, relayed whatever the enclaves might sign and   *)
(* whatever a caller makes up.                                             *)
(***************************************************************************)
SignedResults(id) ==
    [signer : Machines \cup {Nobody}, rfqId : {id}, winner : Accounts,
     price : Approvals \cup {0},
     digest : {CommitmentDigest(id), ToBag(<<>>)},
     actionId : 1..MaxRfqs, status : {0, 1}]

RelayStep == \E id \in 1..rfqCount : \E res \in SignedResults(id) : RelayClearing(res)

ContractNext == UserStep \/ SetupStep \/ RelayStep \/ AdvanceBlock

ContractSpec == ContractInit /\ [][ContractNext]_contractVars

-----------------------------------------------------------------------------
(* Types.  No account goes below zero: every debit is covered by a balance *)
(* and, when the desk makes it, by an allowance; and the desk sends no     *)
(* instruction about an auction it does not have.                          *)
ContractTypeOK ==
    /\ block \in Nat
    /\ extensionId \in {0, 1}
    /\ teeAddress \in Machines \cup {Nobody}
    /\ rfqs \in Seq(Rfq)
    /\ commitments \in [Ids -> Seq(Commitments)]
    /\ committed \in [Ids -> SUBSET Commitments]
    /\ hasBid \in [Ids -> SUBSET Users]
    /\ usedActionIds \subseteq Nat
    /\ \A i \in DOMAIN instructions :
          instructions[i].rfqId \in 1..rfqCount /\ instructions[i].to \in Machines
    /\ balance \in [Tokens -> [Accounts -> Nat]]
    /\ allowance \in [Tokens -> [Accounts -> Nat]]
    /\ registry \in [Machines -> {"none", "production", "paused"}]

IsOpen(id) == id \in 1..rfqCount /\ ~rfqs[id].cleared

(* A lot awarded to address(0) looks like one that was reclaimed.          *)
IsSold(id) == id \in 1..rfqCount /\ rfqs[id].cleared /\ rfqs[id].winner # Nobody

LotSizes == [id \in 1..rfqCount |-> rfqs[id].lot]
OpenLots(t) == {id \in 1..rfqCount : ~rfqs[id].cleared /\ rfqs[id].lotToken = t}

(* The desk holds, of every token, at least the lots of the auctions that  *)
(* are still open (more, when somebody sends it tokens): no lot is paid    *)
(* out of another auction's escrow, or twice by a reclaim racing a         *)
(* settlement.                                                             *)
EscrowBacked ==
    \A t \in Tokens : balance[t][Desk] >= SumFunctionOnSet(LotSizes, OpenLots(t))

(* The three records of who bid say the same thing: the clearing set has   *)
(* no repetition and one commitment for each account that bid, so its      *)
(* digest determines the set.                                              *)
OneSealPerBidder ==
    \A id \in Ids :
        /\ committed[id] = ToSet(commitments[id])
        /\ Cardinality(committed[id]) = Len(commitments[id])
        /\ Cardinality(hasBid[id]) = Len(commitments[id])

(* A result settles at most one auction: at least as many action ids are   *)
(* used up as lots were sold.                                              *)
OneSalePerResult == Cardinality(usedActionIds) >= Cardinality({id \in Ids : IsSold(id)})

(* A closed auction stays exactly as it closed, whichever of settlement    *)
(* and reclaim came first and whatever is relayed afterwards; and no term  *)
(* of an open one ever changes.                                            *)
ClosedIsFinal ==
    [][\A id \in 1..rfqCount :
          IF rfqs[id].cleared
          THEN rfqs'[id] = rfqs[id] /\ commitments'[id] = commitments[id]
          ELSE \A f \in {"maker", "settleToken", "lotToken", "lot", "deadlineBlock", "invited"} :
                   rfqs'[id][f] = rfqs[id][f]]_contractVars

(* The clearing set only grows while bidding is open, and is frozen from   *)
(* the block after the deadline: it is fixed before anyone can read it.    *)
SetFixedAtDeadline ==
    [][\A id \in 1..rfqCount :
          /\ IsPrefix(commitments[id], commitments'[id])
          /\ block > rfqs[id].deadlineBlock => commitments'[id] = commitments[id]]_contractVars

(* A maker's collateral is never stranded: every auction closes, by a sale *)
(* or by a reclaim, whatever the enclaves do.                              *)
EveryAuctionCloses == \A id \in Ids : (id <= rfqCount) ~> (id <= rfqCount /\ rfqs[id].cleared)
=============================================================================
