------------------------- MODULE ButaContractProofs -------------------------
(***************************************************************************)
(* Safety of the contract for every number of users, tokens, auctions and  *)
(* blocks, relayed whatever the enclaves might sign: types, one commitment *)
(* for each bidder, and what a closed auction and a passed deadline fix.   *)
(***************************************************************************)
EXTENDS ButaContract, LibraryFacts, FiniteSetTheorems

-----------------------------------------------------------------------------
(***************************************************************************)
(* Types.  A debit is covered by the balance, and by an allowance when the *)
(* desk makes it.                                                          *)
(***************************************************************************)
Balances   == [Tokens -> [Accounts -> Nat]]
Allowances == [Tokens -> [Accounts -> Nat]]

(* A covered payment leaves every account with a balance.                  *)
LEMMA Payment ==
    ASSUME NEW bal \in Balances, NEW t \in Tokens, NEW from \in Accounts, NEW to \in Accounts,
           NEW n \in Nat, bal[t][from] >= n
    PROVE  Moved(bal, t, from, to, n) \in Balances
<1> DEFINE taken == [bal EXCEPT ![t][from] = @ - n]
<1>1. taken \in Balances  BY DEF Balances
<1> HIDE DEF taken
<1>2. [taken EXCEPT ![t][to] = @ + n] \in Balances  BY <1>1 DEF Balances
<1>. QED  BY <1>2 DEF Moved, taken

(* What a step may assume of the state, and must leave.                    *)
TypeInv ==
    /\ ContractTypeOK
    /\ IsSequence(instructions)
    /\ 1..Len(rfqs) \subseteq Ids

(* An instruction about an auction there is goes to a machine.             *)
LEMMA InstructionTyped ==
    ASSUME TypeInv, NEW op, NEW caller, NEW id \in 1..Len(rfqs'), NEW body, rfqs' \in Seq(Rfq),
           Len(rfqs') >= Len(rfqs), SendInstruction(op, caller, id, body)
    PROVE  /\ IsSequence(instructions')
           /\ \A i \in DOMAIN instructions' :
                 instructions'[i].rfqId \in 1..Len(rfqs') /\ instructions'[i].to \in Machines
<1>1. PICK m \in Machines : instructions' = Append(instructions,
               [op |-> op, sender |-> caller, rfqId |-> id, to |-> m, body |-> body])
  BY DEF SendInstruction
<1> DEFINE ins == [op |-> op, sender |-> caller, rfqId |-> id, to |-> m, body |-> body]
<1>2. ins.rfqId = id /\ ins.to = m  OBVIOUS
<1> HIDE DEF ins
<1>3. /\ IsSequence(instructions')
      /\ Len(instructions') = Len(instructions) + 1
      /\ \A i \in 1..Len(instructions) : instructions'[i] = instructions[i]
      /\ instructions'[Len(instructions) + 1] = ins
  BY <1>1, SequenceAppend DEF TypeInv, ins
<1>4. /\ Len(instructions) \in Nat /\ DOMAIN instructions = 1..Len(instructions)
      /\ DOMAIN instructions' = 1..Len(instructions')
  BY <1>3, SequenceDomain DEF TypeInv
<1>5. Len(rfqs) \in Nat /\ Len(rfqs') \in Nat
  BY LenProperties DEF TypeInv, ContractTypeOK
<1>6. \A i \in 1..Len(instructions) :
          instructions[i].rfqId \in 1..Len(rfqs) /\ instructions[i].to \in Machines
  BY <1>4 DEF TypeInv, ContractTypeOK, rfqCount
<1>7. \A i \in 1..Len(instructions) :
          instructions'[i].rfqId \in 1..Len(rfqs') /\ instructions'[i].to \in Machines
  BY <1>3, <1>5, <1>6
<1>8. 1..Len(instructions') = 1..Len(instructions) \cup {Len(instructions) + 1}
  BY <1>3, <1>4
<1>. QED  BY <1>2, <1>3, <1>4, <1>7, <1>8

(* The lot is escrowed out of a covered balance and a covered allowance.   *)
LEMMA PostRfqTyped ==
    ASSUME TypeInv, NEW u \in Users, NEW s \in Tokens, NEW l \in Tokens, NEW lot \in Lots,
           NEW d \in Deadlines, NEW i \in Users \cup {Nobody}, NEW r, PostRfq(u, s, l, lot, d, i, r)
    PROVE  TypeInv'
<1> DEFINE new == [maker |-> u, settleToken |-> s, lotToken |-> l, lot |-> lot,
                   deadlineBlock |-> d, invited |-> i, cleared |-> FALSE,
                   winner |-> Nobody, clearingPrice |-> 0]
<1>1. lot \in Nat /\ d \in Nat  BY LotsAssumption, BoundsAssumption DEF Deadlines
<1>2. new \in Rfq  BY <1>1 DEF Rfq, Accounts
<1>3. rfqs' = Append(rfqs, new)  BY DEF PostRfq
<1> HIDE DEF new
<1>4. rfqs' \in Seq(Rfq) /\ Len(rfqs') = Len(rfqs) + 1 /\ Len(rfqs) \in Nat
  BY <1>2, <1>3, AppendProperties, LenProperties DEF TypeInv, ContractTypeOK
<1>5. balance' \in Balances
  <2>1. balance[l][u] >= lot /\ balance' = Moved(balance, l, u, Desk, lot)
    BY DEF PostRfq, CanPull
  <2>. QED  BY <1>1, <2>1, Payment DEF Accounts, TypeInv, ContractTypeOK, Balances
<1>6. allowance' \in Allowances
  <2>1. allowance[l][u] >= lot /\ allowance' = [allowance EXCEPT ![l][u] = @ - lot]
    BY DEF PostRfq, CanPull
  <2>2. allowance \in Allowances  BY DEF TypeInv, ContractTypeOK, Allowances
  <2>3. u \in Accounts  BY DEF Accounts
  <2>. QED  BY <1>1, <2>1, <2>2, <2>3 DEF Allowances
<1> DEFINE body == [lot |-> lot, invited |-> i, sealed |-> r]
           id == Len(rfqs) + 1
<1>7. SendInstruction("POST_RFQ", u, id, body)  BY DEF PostRfq, rfqCount
<1> HIDE DEF body, id
<1>8. /\ IsSequence(instructions')
      /\ \A k \in DOMAIN instructions' :
            instructions'[k].rfqId \in 1..Len(rfqs') /\ instructions'[k].to \in Machines
  <2>1. id \in 1..Len(rfqs') /\ Len(rfqs') >= Len(rfqs)  BY <1>4 DEF id
  <2>2. rfqs' \in Seq(Rfq)  BY <1>4
  <2>. QED  BY ONLY TypeInv, <1>7, <2>1, <2>2, InstructionTyped
<1>9. 1..Len(rfqs') \subseteq Ids
  BY <1>4, BoundsAssumption DEF PostRfq, Ids, rfqCount
<1>. QED
  BY <1>4, <1>5, <1>6, <1>8, <1>9
  DEF PostRfq, TypeInv, ContractTypeOK, Balances, Allowances, rfqCount, setupVars

(* A bid moves no token.                                                   *)
LEMMA CommitBidTyped ==
    ASSUME TypeInv, NEW u \in Users, NEW id \in Ids, NEW c \in Commitments, NEW s,
           CommitBid(u, id, c, s)
    PROVE  TypeInv'
<1>1. id \in 1..Len(rfqs) /\ rfqs' = rfqs /\ rfqs \in Seq(Rfq)
  BY DEF CommitBid, MayBid, rfqCount, TypeInv, ContractTypeOK
<1>2. commitments' \in [Ids -> Seq(Commitments)]
  <2>1. Append(commitments[id], c) \in Seq(Commitments)
    BY AppendProperties DEF TypeInv, ContractTypeOK
  <2>2. commitments' = [commitments EXCEPT ![id] = Append(commitments[id], c)]
    BY DEF CommitBid
  <2>. QED  BY <2>1, <2>2 DEF TypeInv, ContractTypeOK
<1>3. committed' \in [Ids -> SUBSET Commitments] /\ hasBid' \in [Ids -> SUBSET Users]
  BY DEF CommitBid, TypeInv, ContractTypeOK
<1>4. PICK body : SendInstruction("COMMIT_BID", u, id, body)
  BY DEF CommitBid
<1>5. /\ IsSequence(instructions')
      /\ \A k \in DOMAIN instructions' :
            instructions'[k].rfqId \in 1..Len(rfqs') /\ instructions'[k].to \in Machines
  <2>1. id \in 1..Len(rfqs') /\ rfqs' \in Seq(Rfq) /\ Len(rfqs') >= Len(rfqs)
    BY <1>1, LenProperties
  <2>. QED  BY <1>4, <2>1, InstructionTyped
<1>. QED
  BY <1>1, <1>2, <1>3, <1>5
  DEF CommitBid, TypeInv, ContractTypeOK, rfqCount, tokenVars, setupVars

(* A request to clear only sends.                                          *)
LEMMA RequestClearingTyped ==
    ASSUME TypeInv, NEW id \in Ids, RequestClearing(id)
    PROVE  TypeInv'
<1>1. id \in 1..Len(rfqs) /\ rfqs' = rfqs /\ rfqs \in Seq(Rfq)
  BY DEF RequestClearing, CanClose, auctionVars, rfqCount, TypeInv, ContractTypeOK
<1>2. PICK body : SendInstruction("CLEAR_AUCTION", Nobody, id, body)
  BY DEF RequestClearing
<1>3. /\ IsSequence(instructions')
      /\ \A k \in DOMAIN instructions' :
            instructions'[k].rfqId \in 1..Len(rfqs') /\ instructions'[k].to \in Machines
  <2>1. id \in 1..Len(rfqs') /\ rfqs' \in Seq(Rfq) /\ Len(rfqs') >= Len(rfqs)
    BY <1>1, LenProperties
  <2>. QED  BY <1>2, <2>1, InstructionTyped
<1>. QED
  BY <1>1, <1>3
  DEF RequestClearing, TypeInv, ContractTypeOK, rfqCount, auctionVars, tokenVars, setupVars

(* An auction that closes is still an auction, and none is added.          *)
LEMMA ClosedTyped ==
    ASSUME TypeInv, NEW id \in 1..Len(rfqs), NEW r \in Rfq, rfqs' = Updated(rfqs, id, r)
    PROVE  /\ rfqs' \in Seq(Rfq)
           /\ Len(rfqs') = Len(rfqs)
           /\ \A k \in 1..Len(rfqs) : rfqs'[k] = IF k = id THEN r ELSE rfqs[k]
BY ExceptSeq DEF TypeInv, ContractTypeOK, Updated

(* A reclaim pays out of a covered balance.                                *)
LEMMA ReclaimLotTyped ==
    ASSUME TypeInv, NEW id \in Ids, ReclaimLot(id)
    PROVE  TypeInv'
<1> DEFINE r == [rfqs[id] EXCEPT !.cleared = TRUE]
<1>1. id \in 1..Len(rfqs) /\ rfqs[id] \in Rfq
  BY ElementOfSeq DEF ReclaimLot, MayReclaim, CanClose, rfqCount, TypeInv, ContractTypeOK
<1>2. r \in Rfq  BY <1>1 DEF Rfq
<1>3. rfqs' = Updated(rfqs, id, r)  BY DEF ReclaimLot, Updated
<1> HIDE DEF r
<1>4. rfqs' \in Seq(Rfq) /\ Len(rfqs') = Len(rfqs)
  BY <1>1, <1>2, <1>3, ClosedTyped
<1>5. balance' \in Balances
  <2>1. /\ balance[rfqs[id].lotToken][Desk] >= rfqs[id].lot
        /\ balance' = Moved(balance, rfqs[id].lotToken, Desk, rfqs[id].maker, rfqs[id].lot)
    BY DEF ReclaimLot
  <2>2. rfqs[id].lotToken \in Tokens /\ rfqs[id].maker \in Users /\ rfqs[id].lot \in Nat
    BY <1>1 DEF Rfq
  <2>. QED  BY <2>1, <2>2, Payment DEF Accounts, TypeInv, ContractTypeOK, Balances
<1>. QED
  BY <1>4, <1>5 DEF ReclaimLot, TypeInv, ContractTypeOK, Balances, rfqCount, setupVars, IsSequence

(* A settlement makes two covered payments, the price and then the lot.    *)
LEMMA RelayClearingTyped ==
    ASSUME TypeInv, NEW id \in 1..rfqCount, NEW res \in SignedResults(id), RelayClearing(res)
    PROVE  TypeInv'
<1> DEFINE a == rfqs[id]
           r == [a EXCEPT !.cleared = TRUE, !.winner = res.winner, !.clearingPrice = res.price]
           paid == Moved(balance, a.settleToken, res.winner, a.maker, res.price)
<1>1. /\ id \in 1..Len(rfqs) /\ res.rfqId = id
      /\ res.winner \in Accounts /\ res.price \in Nat /\ res.actionId \in Nat
  BY LotsAssumption, BoundsAssumption DEF SignedResults, rfqCount
<1>2. a \in Rfq
  BY <1>1, ElementOfSeq DEF TypeInv, ContractTypeOK
<1>3. /\ a.settleToken \in Tokens /\ a.lotToken \in Tokens /\ a.maker \in Users /\ a.lot \in Nat
      /\ r \in Rfq
  BY <1>1, <1>2 DEF Rfq
<1>4. /\ rfqs' = Updated(rfqs, id, r)
      /\ usedActionIds' = usedActionIds \cup {res.actionId}
      /\ CanPull(a.settleToken, res.winner, res.price)
      /\ allowance' = [allowance EXCEPT ![a.settleToken][res.winner] = @ - res.price]
      /\ paid[a.lotToken][Desk] >= a.lot
      /\ balance' = Moved(paid, a.lotToken, Desk, res.winner, a.lot)
  BY <1>1 DEF RelayClearing, Updated
<1> HIDE DEF r, paid, a
<1>5. rfqs' \in Seq(Rfq) /\ Len(rfqs') = Len(rfqs)
  BY <1>1, <1>3, <1>4, ClosedTyped
<1>6. paid \in Balances
  BY <1>1, <1>3, <1>4, Payment DEF paid, CanPull, Accounts, TypeInv, ContractTypeOK, Balances
<1>7. balance' \in Balances
  BY <1>1, <1>3, <1>4, <1>6, Payment DEF Accounts
<1>8. allowance' \in Allowances
  <2>1. allowance[a.settleToken][res.winner] >= res.price  BY <1>4 DEF CanPull
  <2>2. allowance \in Allowances  BY DEF TypeInv, ContractTypeOK, Allowances
  <2>. QED  BY <1>1, <1>3, <1>4, <2>1, <2>2 DEF Allowances
<1>9. usedActionIds' \subseteq Nat
  BY <1>1, <1>4 DEF TypeInv, ContractTypeOK
<1>. QED
  BY <1>5, <1>7, <1>8, <1>9
  DEF RelayClearing, TypeInv, ContractTypeOK, Balances, Allowances, rfqCount, setupVars, IsSequence

(* Every transaction keeps the types, a relayed clearing included.         *)
LEMMA TypeStep ==
    ASSUME TypeInv, [ContractNext]_contractVars
    PROVE  TypeInv'
<1>0. CASE UNCHANGED contractVars
  BY <1>0 DEF contractVars, auctionVars, tokenVars, setupVars, TypeInv, ContractTypeOK, rfqCount,
              IsSequence
<1>1. CASE UserStep
  <2>1. ASSUME NEW u \in Users, NEW t \in Tokens, NEW n \in Approvals, Approve(u, t, n)
        PROVE  TypeInv'
    <3>1. allowance' \in Allowances
      BY <2>1, LotsAssumption DEF Approve, TypeInv, ContractTypeOK, Allowances, Accounts
    <3>. QED  BY <2>1, <3>1 DEF Approve, TypeInv, ContractTypeOK, Allowances, auctionVars,
                             setupVars, rfqCount, IsSequence
  <2>2. ASSUME NEW u \in Users, NEW v \in Accounts, NEW t \in Tokens, NEW n \in Payments,
               Transfer(u, v, t, n)
        PROVE  TypeInv'
    <3>1. n \in Nat /\ balance[t][u] >= n /\ balance' = Moved(balance, t, u, v, n)
      BY <2>2, LotsAssumption DEF Transfer
    <3>2. balance' \in Balances
      BY <3>1, Payment DEF Accounts, TypeInv, ContractTypeOK, Balances
    <3>. QED  BY <2>2, <3>2 DEF Transfer, TypeInv, ContractTypeOK, Balances, auctionVars,
                             setupVars, rfqCount, IsSequence
  <2>3. ASSUME NEW u \in Users, NEW id \in Ids, NEW c \in Commitments, NEW s \in Ciphertexts,
               CommitBid(u, id, c, s)
        PROVE  TypeInv'
    BY <2>3, CommitBidTyped
  <2>4. ASSUME NEW u \in Users, NEW s \in Tokens, NEW l \in Tokens, NEW lot \in Lots,
               NEW d \in Deadlines, NEW i \in Users \cup {Nobody}, NEW r \in Ciphertexts,
               PostRfq(u, s, l, lot, d, i, r)
        PROVE  TypeInv'
    BY <2>4, PostRfqTyped
  <2>5. ASSUME NEW id \in Ids, RequestClearing(id) \/ ReclaimLot(id)
        PROVE  TypeInv'
    BY <2>5, RequestClearingTyped, ReclaimLotTyped
  <2>. QED  BY <1>1, <2>1, <2>2, <2>3, <2>4, <2>5 DEF UserStep
<1>2. CASE SetupStep
  BY <1>2 DEF SetupStep, SetExtensionId, SetTeeAddress, Register, Pause, TypeInv, ContractTypeOK,
              auctionVars, tokenVars, rfqCount, IsSequence
<1>3. CASE RelayStep
  BY <1>3, RelayClearingTyped DEF RelayStep
<1>4. CASE AdvanceBlock
  BY <1>4 DEF AdvanceBlock, TypeInv, ContractTypeOK, auctionVars, tokenVars, setupVars, rfqCount,
              IsSequence
<1>. QED  BY <1>0, <1>1, <1>2, <1>3, <1>4 DEF ContractNext

(* The contract as it is deployed.                                         *)
LEMMA TypeInit ==
    ContractInit => TypeInv
<1>. SUFFICES ASSUME ContractInit PROVE TypeInv  OBVIOUS
<1>1. balance \in Balances
  BY BalanceAssumption DEF ContractInit, EmptyDesk, Balances, Holdings
<1>2. allowance \in Allowances
  BY DEF ContractInit, Allowances
<1>3. rfqs \in Seq(Rfq) /\ 1..Len(rfqs) = {} /\ IsSequence(instructions) /\ DOMAIN instructions = {}
  BY DEF ContractInit, EmptyDesk, IsSequence
<1>4. commitments \in [Ids -> Seq(Commitments)]
  BY DEF ContractInit, EmptyDesk
<1>. QED
  BY <1>1, <1>2, <1>3, <1>4 DEF ContractInit, EmptyDesk, TypeInv, ContractTypeOK, Balances, Allowances

(* No account ever goes below zero, whatever is reclaimed, relayed or      *)
(* transferred in whatever order: every debit the contract makes is        *)
(* covered by a balance and an allowance.                                  *)
THEOREM ContractTyped == ContractSpec => []ContractTypeOK
<1>1. TypeInv => ContractTypeOK
  BY DEF TypeInv
<1>. QED  BY <1>1, TypeInit, TypeStep, PTL DEF ContractSpec

-----------------------------------------------------------------------------
(***************************************************************************)
(* What a step does to an auction and to its clearing set.                 *)
(***************************************************************************)
Terms == {"maker", "settleToken", "lotToken", "lot", "deadlineBlock", "invited"}

(* An auction that is there stays; one that is closed stays as it is.      *)
AuctionsStay ==
    \A id \in 1..Len(rfqs) :
        /\ rfqs[id].cleared => rfqs'[id] = rfqs[id]
        /\ \A f \in Terms : rfqs'[id][f] = rfqs[id][f]

(* A bid on an auction that is open and not past its deadline.             *)
BidsOn(u, id, c) ==
    /\ MayBid(u, id, c) /\ id \in Ids /\ c \in Commitments
    /\ commitments' = [commitments EXCEPT ![id] = Append(@, c)]
    /\ committed' = [committed EXCEPT ![id] = @ \cup {c}]
    /\ hasBid' = [hasBid EXCEPT ![id] = @ \cup {u}]

SetsGrow ==
    \/ UNCHANGED <<commitments, committed, hasBid>>
    \/ \E u, id, c : BidsOn(u, id, c)

(* Closing an auction that is open changes none of its terms.              *)
LEMMA ClosingStays ==
    ASSUME TypeInv, NEW id \in 1..Len(rfqs), NEW r \in Rfq, rfqs' = Updated(rfqs, id, r),
           ~rfqs[id].cleared, \A f \in Terms : r[f] = rfqs[id][f]
    PROVE  AuctionsStay
BY ClosedTyped DEF AuctionsStay

(* Posting appends, bidding grows one set, closing changes one auction     *)
(* that is open, and no other transaction touches either.                  *)
LEMMA AuctionStays ==
    ASSUME TypeInv, [ContractNext]_contractVars
    PROVE  AuctionsStay /\ SetsGrow
<1>0. CASE UNCHANGED <<rfqs, commitments, committed, hasBid>>
  BY <1>0 DEF AuctionsStay, SetsGrow
<1>1. CASE UserStep
  <2>1. ASSUME NEW u \in Users, NEW id \in Ids, NEW c \in Commitments, NEW s \in Ciphertexts,
               CommitBid(u, id, c, s)
        PROVE  AuctionsStay /\ SetsGrow
    BY <2>1 DEF CommitBid, AuctionsStay, SetsGrow, BidsOn
  <2>2. ASSUME NEW u \in Users, NEW s \in Tokens, NEW l \in Tokens, NEW lot \in Lots,
               NEW d \in Deadlines, NEW i \in Users \cup {Nobody}, NEW r \in Ciphertexts,
               PostRfq(u, s, l, lot, d, i, r)
        PROVE  AuctionsStay /\ SetsGrow
    <3>1. PICK new : rfqs' = Append(rfqs, new)  BY <2>2 DEF PostRfq
    <3>2. IsSequence(rfqs)  BY DEF TypeInv, ContractTypeOK, IsSequence
    <3>3. \A id \in 1..Len(rfqs) : rfqs'[id] = rfqs[id]
      BY <3>1, <3>2, SequenceAppend
    <3>. QED  BY <2>2, <3>3 DEF AuctionsStay, SetsGrow, PostRfq
  <2>3. ASSUME NEW id \in Ids, ReclaimLot(id)
        PROVE  AuctionsStay /\ SetsGrow
    <3> DEFINE r == [rfqs[id] EXCEPT !.cleared = TRUE]
    <3>1. id \in 1..Len(rfqs) /\ rfqs[id] \in Rfq /\ ~rfqs[id].cleared
      BY <2>3, ElementOfSeq DEF ReclaimLot, MayReclaim, CanClose, rfqCount, TypeInv, ContractTypeOK
    <3>2. r \in Rfq /\ \A f \in Terms : r[f] = rfqs[id][f]
      BY <3>1 DEF Rfq, Terms
    <3>3. rfqs' = Updated(rfqs, id, r)  BY <2>3 DEF ReclaimLot, Updated
    <3> HIDE DEF r
    <3>4. AuctionsStay  BY <3>1, <3>2, <3>3, ClosingStays
    <3>. QED  BY <2>3, <3>4 DEF ReclaimLot, SetsGrow
  <2>. QED
    BY <1>0, <1>1, <2>1, <2>2, <2>3 DEF UserStep, Approve, Transfer, RequestClearing, auctionVars
<1>2. CASE RelayStep
  <2>1. PICK id \in 1..rfqCount : \E res \in SignedResults(id) : RelayClearing(res)
    BY <1>2 DEF RelayStep
  <2>2. PICK res \in SignedResults(id) : RelayClearing(res)
    BY <2>1
  <2> DEFINE r == [rfqs[id] EXCEPT !.cleared = TRUE, !.winner = res.winner,
                                   !.clearingPrice = res.price]
  <2>3. /\ id \in 1..Len(rfqs) /\ rfqs[id] \in Rfq /\ ~rfqs[id].cleared
        /\ res.rfqId = id /\ res.winner \in Accounts /\ res.price \in Nat
    <3>1. res.rfqId = id /\ res.winner \in Accounts /\ res.price \in Nat
      BY LotsAssumption DEF SignedResults
    <3>2. id \in 1..Len(rfqs) /\ ~rfqs[id].cleared
      BY <2>2, <3>1 DEF RelayClearing, CanClose, rfqCount
    <3>. QED  BY <3>1, <3>2, ElementOfSeq DEF TypeInv, ContractTypeOK
  <2>4. r \in Rfq /\ \A f \in Terms : r[f] = rfqs[id][f]
    BY <2>3 DEF Rfq, Terms
  <2>5. rfqs' = Updated(rfqs, id, r)  BY <2>2, <2>3 DEF RelayClearing, Updated
  <2> HIDE DEF r
  <2>6. AuctionsStay  BY <2>3, <2>4, <2>5, ClosingStays
  <2>. QED  BY <2>2, <2>6 DEF RelayClearing, SetsGrow
<1>. QED
  BY <1>0, <1>1, <1>2
  DEF ContractNext, SetupStep, SetExtensionId, SetTeeAddress, Register, Pause, AdvanceBlock,
      auctionVars, contractVars

(* A closed auction stays exactly as it closed, whichever of settlement    *)
(* and reclaim came first; and no term of an open one ever changes.        *)
THEOREM ClosedStays == ContractSpec => ClosedIsFinal
<1>1. ASSUME TypeInv, [ContractNext]_contractVars
      PROVE  \A id \in 1..rfqCount :
                 IF rfqs[id].cleared
                 THEN rfqs'[id] = rfqs[id] /\ commitments'[id] = commitments[id]
                 ELSE \A f \in Terms : rfqs'[id][f] = rfqs[id][f]
  <2>1. AuctionsStay /\ SetsGrow  BY <1>1, AuctionStays
  <2>2. \A id \in 1..rfqCount : rfqs[id].cleared => commitments'[id] = commitments[id]
    BY <1>1, <2>1 DEF SetsGrow, BidsOn, MayBid, TypeInv, ContractTypeOK, rfqCount
  <2>. QED  BY <2>1, <2>2 DEF AuctionsStay, rfqCount
<1>. QED  BY <1>1, TypeInit, TypeStep, PTL DEF ContractSpec, ClosedIsFinal, Terms

(* The clearing set only grows while bidding is open, and is frozen from   *)
(* the block after the deadline: it is fixed before anyone can read it.    *)
THEOREM SetFixed == ContractSpec => SetFixedAtDeadline
<1>1. ASSUME TypeInv, [ContractNext]_contractVars
      PROVE  \A id \in 1..rfqCount :
                 /\ IsPrefix(commitments[id], commitments'[id])
                 /\ block > rfqs[id].deadlineBlock => commitments'[id] = commitments[id]
  <2>1. SetsGrow  BY <1>1, AuctionStays
  <2>2. ASSUME NEW id \in 1..rfqCount
        PROVE  /\ IsPrefix(commitments[id], commitments'[id])
               /\ block > rfqs[id].deadlineBlock => commitments'[id] = commitments[id]
    <3>1. commitments[id] \in Seq(Commitments) /\ commitments \in [Ids -> Seq(Commitments)] /\ id \in Ids
      BY <1>1, <2>2 DEF TypeInv, ContractTypeOK, rfqCount
    <3>2. block \in Nat /\ rfqs[id].deadlineBlock \in Nat
      <4>1. rfqs[id] \in Rfq /\ block \in Nat
        BY <1>1, <2>2, ElementOfSeq DEF TypeInv, ContractTypeOK, rfqCount
      <4>. QED  BY <4>1 DEF Rfq
    <3>3. CASE commitments'[id] = commitments[id]
      <4>1. IsPrefix(commitments[id], commitments[id])
        BY <3>1, LenProperties DEF IsPrefix
      <4>. QED  BY <3>3, <4>1
    <3>4. ASSUME NEW u, NEW c, BidsOn(u, id, c)
          PROVE  /\ IsPrefix(commitments[id], commitments'[id])
                 /\ ~(block > rfqs[id].deadlineBlock)
      <4>1. commitments'[id] = Append(commitments[id], c) /\ c \in Commitments
        BY <3>1, <3>4 DEF BidsOn
      <4>2. block <= rfqs[id].deadlineBlock
        BY <3>4 DEF BidsOn, MayBid
      <4>. QED  BY <3>1, <3>2, <4>1, <4>2, AppendExtends
    <3>5. ASSUME NEW u, NEW k, NEW c, BidsOn(u, k, c), k # id
          PROVE  commitments'[id] = commitments[id]
      BY <3>1, <3>5 DEF BidsOn
    <3>. QED  BY <2>1, <3>3, <3>4, <3>5 DEF SetsGrow
  <2>. QED  BY <2>2
<1>. QED  BY <1>1, TypeInit, TypeStep, PTL DEF ContractSpec, SetFixedAtDeadline

-----------------------------------------------------------------------------
(***************************************************************************)
(* One commitment for each bidder: the clearing set repeats nothing, so    *)
(* its digest determines it.                                               *)
(***************************************************************************)
SealInv ==
    /\ OneSealPerBidder
    /\ \A id \in Ids : IsFiniteSet(committed[id]) /\ IsFiniteSet(hasBid[id])

(* A bid adds one commitment and one bidder, both new.                     *)
LEMMA SealStep ==
    ASSUME TypeInv, SealInv, [ContractNext]_contractVars
    PROVE  SealInv'
<1>1. SetsGrow  BY AuctionStays
<1>2. CASE UNCHANGED <<commitments, committed, hasBid>>
  BY <1>2 DEF SealInv, OneSealPerBidder
<1>3. ASSUME NEW u, NEW id, NEW c, BidsOn(u, id, c)
      PROVE  SealInv'
  <2>1. id \in Ids /\ c \in Commitments /\ commitments[id] \in Seq(Commitments)
        /\ c \notin committed[id] /\ u \notin hasBid[id]
    BY <1>3 DEF BidsOn, MayBid, TypeInv, ContractTypeOK
  <2>2. /\ commitments'[id] = Append(commitments[id], c)
        /\ committed'[id] = committed[id] \cup {c}
        /\ hasBid'[id] = hasBid[id] \cup {u}
        /\ \A k \in Ids : k # id => /\ commitments'[k] = commitments[k]
                                    /\ committed'[k] = committed[k]
                                    /\ hasBid'[k] = hasBid[k]
    BY <1>3, <2>1 DEF BidsOn, TypeInv, ContractTypeOK
  <2>3. committed'[id] = ToSet(commitments'[id])
    BY <2>1, <2>2, AppendExtends DEF SealInv, OneSealPerBidder
  <2>4. /\ Len(commitments'[id]) = Len(commitments[id]) + 1
        /\ IsFiniteSet(committed'[id]) /\ IsFiniteSet(hasBid'[id])
        /\ Cardinality(committed'[id]) = Cardinality(committed[id]) + 1
        /\ Cardinality(hasBid'[id]) = Cardinality(hasBid[id]) + 1
    <3>1. Len(commitments'[id]) = Len(commitments[id]) + 1
      BY <2>1, <2>2, AppendProperties
    <3>2. IsFiniteSet(committed[id]) /\ IsFiniteSet(hasBid[id])
      BY <2>1 DEF SealInv
    <3>3. /\ IsFiniteSet(committed[id] \cup {c})
          /\ Cardinality(committed[id] \cup {c}) = Cardinality(committed[id]) + 1
      BY <2>1, <3>2, FS_AddElement
    <3>4. /\ IsFiniteSet(hasBid[id] \cup {u})
          /\ Cardinality(hasBid[id] \cup {u}) = Cardinality(hasBid[id]) + 1
      BY <2>1, <3>2, FS_AddElement
    <3>. QED  BY <2>2, <3>1, <3>3, <3>4
  <2>5. ASSUME NEW k \in Ids
        PROVE  /\ committed'[k] = ToSet(commitments'[k])
               /\ Cardinality(committed'[k]) = Len(commitments'[k])
               /\ Cardinality(hasBid'[k]) = Len(commitments'[k])
               /\ IsFiniteSet(committed'[k]) /\ IsFiniteSet(hasBid'[k])
    BY <2>1, <2>2, <2>3, <2>4 DEF SealInv, OneSealPerBidder
  <2>. QED  BY <2>5 DEF SealInv, OneSealPerBidder
<1>. QED  BY <1>1, <1>2, <1>3 DEF SetsGrow

(* No account seals two bids in an auction and no commitment is recorded   *)
(* twice: the three records of who bid always agree.                       *)
THEOREM OneSeal == ContractSpec => []OneSealPerBidder
<1>1. ContractInit => SealInv
  <2>1. ToSet(<<>>) = {}  BY DEF ToSet
  <2>2. Len(<<>>) = 0  OBVIOUS
  <2>. QED  BY <2>1, <2>2, FS_EmptySet DEF ContractInit, EmptyDesk, SealInv, OneSealPerBidder
<1>2. SealInv => OneSealPerBidder
  BY DEF SealInv
<1>. QED  BY <1>1, <1>2, TypeInit, TypeStep, SealStep, PTL DEF ContractSpec

-----------------------------------------------------------------------------
(***************************************************************************)
(* A result settles at most one auction.  An open auction has no winner,   *)
(* so a reclaim sells nothing; a settlement uses up an action id that was  *)
(* not used and sells at most one lot, which was not sold.                 *)
(***************************************************************************)
Sold == {id \in Ids : IsSold(id)}

SaleInv ==
    /\ OneSalePerResult
    /\ IsFiniteSet(usedActionIds)
    /\ \A id \in 1..Len(rfqs) : ~rfqs[id].cleared => rfqs[id].winner = Nobody

(* What a step may do to what is sold.                                     *)
SellsAtMostOne ==
    \/ usedActionIds' = usedActionIds /\ Sold' = Sold
    \/ \E actionId, id : /\ actionId \notin usedActionIds /\ id \notin Sold /\ id \in Ids
                         /\ usedActionIds' = usedActionIds \cup {actionId}
                         /\ Sold' \in {Sold, Sold \cup {id}}

(* Closing an auction changes what is sold by that auction at most.        *)
LEMMA ClosingSells ==
    ASSUME TypeInv, SaleInv, NEW id \in 1..Len(rfqs), NEW r \in Rfq,
           rfqs' = Updated(rfqs, id, r), r.cleared, ~rfqs[id].cleared
    PROVE  /\ id \notin Sold /\ id \in Ids
           /\ Sold' = IF r.winner = Nobody THEN Sold ELSE Sold \cup {id}
           /\ \A k \in 1..Len(rfqs') : ~rfqs'[k].cleared => rfqs'[k].winner = Nobody
<1>1. /\ IsSequence(rfqs) /\ Len(rfqs') = Len(rfqs) /\ rfqs'[id] = r
      /\ \A k \in 1..Len(rfqs) : k # id => rfqs'[k] = rfqs[k]
  <2>1. IsSequence(rfqs)  BY DEF TypeInv, ContractTypeOK, IsSequence
  <2>. QED  BY <2>1, SequenceExcept
<1>2. id \in Ids  BY DEF TypeInv
<1>3. \A k \in Ids : k # id => (IsSold(k)' <=> IsSold(k))
  BY <1>1 DEF IsSold, rfqCount
<1>4. ~IsSold(id) /\ (IsSold(id)' <=> r.winner # Nobody)
  BY <1>1 DEF IsSold, rfqCount
<1>5. Sold' = IF r.winner = Nobody THEN Sold ELSE Sold \cup {id}
  BY <1>2, <1>3, <1>4 DEF Sold
<1>. QED  BY <1>1, <1>2, <1>4, <1>5 DEF Sold, SaleInv

LEMMA SaleStep ==
    ASSUME TypeInv, SaleInv, [ContractNext]_contractVars
    PROVE  SaleInv'
<1> DEFINE OpenUnsold == \A id \in 1..Len(rfqs') : ~rfqs'[id].cleared => rfqs'[id].winner = Nobody
<1>1. ASSUME SellsAtMostOne, OpenUnsold  PROVE SaleInv'
  <2>1. IsFiniteSet(Sold)
    <3>1. IsFiniteSet(Ids)  BY FS_Interval, BoundsAssumption DEF Ids
    <3>. QED  BY <3>1, FS_Subset DEF Sold
  <2>2. Cardinality(usedActionIds) >= Cardinality(Sold) /\ IsFiniteSet(usedActionIds)
    BY DEF SaleInv, OneSalePerResult, Sold
  <2>3. Cardinality(usedActionIds') >= Cardinality(Sold') /\ IsFiniteSet(usedActionIds')
    <3>1. CASE usedActionIds' = usedActionIds /\ Sold' = Sold
      BY <2>2, <3>1
    <3>2. ASSUME NEW actionId, NEW id, actionId \notin usedActionIds, id \notin Sold,
                 usedActionIds' = usedActionIds \cup {actionId}, Sold' \in {Sold, Sold \cup {id}}
          PROVE  Cardinality(usedActionIds') >= Cardinality(Sold') /\ IsFiniteSet(usedActionIds')
      <4>1. /\ IsFiniteSet(usedActionIds \cup {actionId})
            /\ Cardinality(usedActionIds \cup {actionId}) = Cardinality(usedActionIds) + 1
        BY <2>2, <3>2, FS_AddElement
      <4>2. Cardinality(Sold \cup {id}) = Cardinality(Sold) + 1
        BY <2>1, <3>2, FS_AddElement
      <4>3. Cardinality(usedActionIds) \in Nat /\ Cardinality(Sold) \in Nat
        BY <2>1, <2>2, FS_CardinalityType
      <4>. QED  BY <2>2, <3>2, <4>1, <4>2, <4>3
    <3>. QED  BY <1>1, <3>1, <3>2 DEF SellsAtMostOne
  <2>. QED  BY <1>1, <2>3 DEF SaleInv, OneSalePerResult, Sold
<1>2. CASE UNCHANGED <<rfqs, usedActionIds>>
  <2>1. Sold' = Sold  BY <1>2 DEF Sold, IsSold, rfqCount
  <2>. QED  BY <1>1, <1>2, <2>1 DEF SellsAtMostOne, SaleInv
<1>3. ASSUME NEW u \in Users, NEW s \in Tokens, NEW l \in Tokens, NEW lot \in Lots,
             NEW d \in Deadlines, NEW i \in Users \cup {Nobody}, NEW r \in Ciphertexts,
             PostRfq(u, s, l, lot, d, i, r)
      PROVE  SaleInv'
  <2>1. PICK new : rfqs' = Append(rfqs, new) /\ new.cleared = FALSE /\ new.winner = Nobody
    BY <1>3 DEF PostRfq
  <2>2. IsSequence(rfqs)  BY DEF TypeInv, ContractTypeOK, IsSequence
  <2>3. /\ Len(rfqs') = Len(rfqs) + 1 /\ Len(rfqs) \in Nat /\ rfqs'[Len(rfqs) + 1] = new
        /\ \A id \in 1..Len(rfqs) : rfqs'[id] = rfqs[id]
    BY <2>1, <2>2, SequenceAppend, SequenceDomain
  <2>4. 1..Len(rfqs') = 1..Len(rfqs) \cup {Len(rfqs) + 1}  BY <2>3
  <2>5. \A id \in Ids : IsSold(id)' <=> IsSold(id)
    BY <2>1, <2>3, <2>4 DEF IsSold, rfqCount
  <2>6. Sold' = Sold  BY <2>5 DEF Sold
  <2>7. OpenUnsold  BY <2>1, <2>3, <2>4 DEF SaleInv
  <2>. QED  BY <1>1, <1>3, <2>6, <2>7 DEF SellsAtMostOne, PostRfq
<1>4. ASSUME NEW id \in Ids, ReclaimLot(id)  PROVE SaleInv'
  <2> DEFINE r == [rfqs[id] EXCEPT !.cleared = TRUE]
  <2>1. id \in 1..Len(rfqs) /\ rfqs[id] \in Rfq /\ ~rfqs[id].cleared
    BY <1>4, ElementOfSeq DEF ReclaimLot, MayReclaim, CanClose, rfqCount, TypeInv, ContractTypeOK
  <2>2. r \in Rfq /\ r.cleared /\ r.winner = Nobody
    BY <2>1 DEF Rfq, SaleInv
  <2>3. rfqs' = Updated(rfqs, id, r) /\ usedActionIds' = usedActionIds
    BY <1>4 DEF ReclaimLot, Updated
  <2> HIDE DEF r
  <2>. QED  BY <1>1, <2>1, <2>2, <2>3, ClosingSells DEF SellsAtMostOne
<1>5. CASE RelayStep
  <2>1. PICK id \in 1..rfqCount : \E res \in SignedResults(id) : RelayClearing(res)
    BY <1>5 DEF RelayStep
  <2>2. PICK res \in SignedResults(id) : RelayClearing(res)
    BY <2>1
  <2> DEFINE r == [rfqs[id] EXCEPT !.cleared = TRUE, !.winner = res.winner,
                                   !.clearingPrice = res.price]
  <2>3. /\ id \in 1..Len(rfqs) /\ rfqs[id] \in Rfq /\ ~rfqs[id].cleared
        /\ res.rfqId = id /\ res.winner \in Accounts /\ res.price \in Nat
    <3>1. res.rfqId = id /\ res.winner \in Accounts /\ res.price \in Nat
      BY LotsAssumption DEF SignedResults
    <3>2. id \in 1..Len(rfqs) /\ ~rfqs[id].cleared
      BY <2>2, <3>1 DEF RelayClearing, CanClose, rfqCount
    <3>. QED  BY <3>1, <3>2, ElementOfSeq DEF TypeInv, ContractTypeOK
  <2>4. r \in Rfq /\ r.cleared
    BY <2>3 DEF Rfq
  <2>5. rfqs' = Updated(rfqs, id, r)  BY <2>2, <2>3 DEF RelayClearing, Updated
  <2>6. usedActionIds' = usedActionIds \cup {res.actionId} /\ res.actionId \notin usedActionIds
    BY <2>2 DEF RelayClearing, Authorised
  <2> HIDE DEF r
  <2>. QED  BY <1>1, <2>3, <2>4, <2>5, <2>6, ClosingSells DEF SellsAtMostOne
<1>6. CASE UserStep
  <2>1. ASSUME NEW u \in Users, NEW id \in Ids, NEW c \in Commitments, NEW s \in Ciphertexts,
               CommitBid(u, id, c, s)
        PROVE  UNCHANGED <<rfqs, usedActionIds>>
    BY <2>1 DEF CommitBid
  <2>. QED  BY <1>2, <1>3, <1>4, <1>6, <2>1 DEF UserStep, Approve, Transfer, RequestClearing, auctionVars
<1>. QED
  BY <1>2, <1>5, <1>6
  DEF ContractNext, SetupStep, SetExtensionId, SetTeeAddress, Register, Pause, AdvanceBlock,
      auctionVars, contractVars

(* A result settles at most one auction: at least as many action ids are   *)
(* used up as lots were sold, whatever is relayed and however reclaims and *)
(* settlements race.                                                       *)
THEOREM OneSale == ContractSpec => []OneSalePerResult
<1>1. ContractInit => SaleInv
  <2> SUFFICES ASSUME ContractInit PROVE SaleInv  OBVIOUS
  <2>1. Len(rfqs) = 0 /\ usedActionIds = {}  BY DEF ContractInit, EmptyDesk
  <2>2. {id \in Ids : IsSold(id)} = {}  BY <2>1 DEF IsSold, rfqCount
  <2>. QED  BY <2>1, <2>2, FS_EmptySet DEF SaleInv, OneSalePerResult
<1>2. SaleInv => OneSalePerResult
  BY DEF SaleInv
<1>. QED  BY <1>1, <1>2, TypeInit, TypeStep, SaleStep, PTL DEF ContractSpec

-----------------------------------------------------------------------------
(***************************************************************************)
(* The escrow.  A post adds one lot to what is open and to what the desk   *)
(* holds; a reclaim or a settlement takes one out of what is open and at   *)
(* most one out of what the desk holds; every other payment can only add   *)
(* to it, because the desk approves nobody.                                *)
(***************************************************************************)
EscrowInv ==
    /\ TypeInv
    /\ EscrowBacked
    /\ \A t \in Tokens : allowance[t][Desk] = 0

(* A payment that is not the desk's takes nothing from the desk.           *)
LEMMA PaidByOther ==
    ASSUME NEW bal \in Balances, NEW s \in Tokens, NEW from \in Accounts, NEW to \in Accounts,
           NEW n \in Nat, from # Desk \/ n = 0
    PROVE  \A t \in Tokens : Moved(bal, s, from, to, n)[t][Desk] >= bal[t][Desk]
<1>1. Desk \in Accounts  BY DEF Accounts
<1> SUFFICES ASSUME NEW t \in Tokens
             PROVE  Moved(bal, s, from, to, n)[t][Desk] >= bal[t][Desk]
  OBVIOUS
<1> DEFINE taken == [bal EXCEPT ![s][from] = @ - n]
           given == [taken EXCEPT ![s][to] = @ + n]
<1>2. /\ DOMAIN taken = Tokens /\ DOMAIN taken[t] = Accounts
      /\ taken[t][Desk] = bal[t][Desk] /\ bal[t][Desk] \in Nat
  BY <1>1 DEF Balances
<1>3. Moved(bal, s, from, to, n) = given  BY DEF Moved
<1> HIDE DEF taken
<1>4. given[t][Desk] = taken[t][Desk] \/ given[t][Desk] = taken[t][Desk] + n
  BY <1>1, <1>2
<1> HIDE DEF given
<1>. QED  BY <1>2, <1>3, <1>4

(* A payment to the desk moves that token's balance by its amount.         *)
LEMMA PaidToDesk ==
    ASSUME NEW bal \in Balances, NEW s \in Tokens, NEW u \in Users, NEW n \in Nat
    PROVE  \A t \in Tokens :
              Moved(bal, s, u, Desk, n)[t][Desk] = IF t = s THEN bal[t][Desk] + n ELSE bal[t][Desk]
<1>1. u # Desk /\ Desk \in Accounts /\ u \in Accounts
  BY AccountsAssumption DEF Accounts
<1> SUFFICES ASSUME NEW t \in Tokens
             PROVE  Moved(bal, s, u, Desk, n)[t][Desk] =
                        IF t = s THEN bal[t][Desk] + n ELSE bal[t][Desk]
  OBVIOUS
<1> DEFINE taken == [bal EXCEPT ![s][u] = @ - n]
<1>2. \A v \in Tokens : DOMAIN taken = Tokens /\ DOMAIN taken[v] = Accounts /\ taken[v][Desk] = bal[v][Desk]
  BY <1>1 DEF Balances
<1> HIDE DEF taken
<1>3. [taken EXCEPT ![s][Desk] = @ + n][t][Desk] = IF t = s THEN taken[t][Desk] + n ELSE taken[t][Desk]
  BY <1>1, <1>2
<1>. QED  BY <1>2, <1>3 DEF Moved, taken

(* A payment by the desk, to whatever account, takes at most its amount.   *)
LEMMA PaidByDesk ==
    ASSUME NEW bal \in Balances, NEW s \in Tokens, NEW a \in Accounts, NEW n \in Nat
    PROVE  \A t \in Tokens :
              Moved(bal, s, Desk, a, n)[t][Desk] >= IF t = s THEN bal[t][Desk] - n ELSE bal[t][Desk]
<1>1. Desk \in Accounts  BY DEF Accounts
<1> SUFFICES ASSUME NEW t \in Tokens
             PROVE  Moved(bal, s, Desk, a, n)[t][Desk] >=
                        IF t = s THEN bal[t][Desk] - n ELSE bal[t][Desk]
  OBVIOUS
<1> DEFINE taken == [bal EXCEPT ![s][Desk] = @ - n]
           given == [taken EXCEPT ![s][a] = @ + n]
<1>2. /\ DOMAIN taken = Tokens /\ DOMAIN taken[t] = Accounts /\ bal[t][Desk] \in Nat
      /\ taken[t][Desk] = IF t = s THEN bal[t][Desk] - n ELSE bal[t][Desk]
  BY <1>1 DEF Balances
<1>3. Moved(bal, s, Desk, a, n) = given  BY DEF Moved
<1> HIDE DEF taken
<1>4. given[t][Desk] = taken[t][Desk] \/ given[t][Desk] = taken[t][Desk] + n
  BY <1>1, <1>2
<1> HIDE DEF given
<1>. QED  BY <1>2, <1>3, <1>4

(* The lots that are open are finitely many, and each is a number.         *)
FiniteLots ==
    \A t : /\ IsFiniteSet(OpenLots(t))
           /\ \A id \in OpenLots(t) : LotSizes[id] \in Nat

LEMMA LotsAreFinite == TypeInv => FiniteLots
<1>. SUFFICES ASSUME TypeInv PROVE FiniteLots  OBVIOUS
<1>1. rfqs \in Seq(Rfq) /\ Len(rfqs) \in Nat  BY LenProperties DEF TypeInv, ContractTypeOK
<1>2. IsFiniteSet(1..Len(rfqs))  BY <1>1, FS_Interval
<1>3. \A id \in 1..Len(rfqs) : rfqs[id] \in Rfq  BY <1>1, ElementOfSeq
<1>4. \A id \in 1..Len(rfqs) : rfqs[id].lot \in Nat  BY <1>3 DEF Rfq
<1>5. \A t : OpenLots(t) \subseteq 1..Len(rfqs)  BY DEF OpenLots, rfqCount
<1>. QED  BY <1>2, <1>4, <1>5, FS_Subset DEF LotSizes, rfqCount, FiniteLots

(* Nothing happens to an auction, and no balance of the desk goes down.    *)
LEMMA EscrowIdle ==
    ASSUME TypeInv, TypeInv', EscrowBacked, rfqs' = rfqs,
           \A t \in Tokens : balance'[t][Desk] >= balance[t][Desk]
    PROVE  EscrowBacked'
<1> SUFFICES ASSUME NEW t \in Tokens
             PROVE  balance'[t][Desk] >= SumFunctionOnSet(LotSizes', OpenLots(t)')
  BY DEF EscrowBacked
<1>1. LotSizes' = LotSizes /\ OpenLots(t)' = OpenLots(t)
  BY DEF LotSizes, OpenLots, rfqCount
<1>2. SumFunctionOnSet(LotSizes, OpenLots(t)) \in Nat
  BY LotsAreFinite, SumIsNat DEF FiniteLots
<1>3. balance[t][Desk] \in Nat /\ balance'[t][Desk] \in Nat
  BY DEF TypeInv, ContractTypeOK, Accounts
<1>4. balance[t][Desk] >= SumFunctionOnSet(LotSizes, OpenLots(t))
  BY DEF EscrowBacked
<1>. QED  BY <1>1, <1>2, <1>3, <1>4

(* A new lot arrives with its auction.                                     *)
LEMMA EscrowPosted ==
    ASSUME EscrowInv, TypeInv', NEW u \in Users, NEW s \in Tokens, NEW l \in Tokens,
           NEW lot \in Lots, NEW d \in Deadlines, NEW i \in Users \cup {Nobody}, NEW r,
           PostRfq(u, s, l, lot, d, i, r)
    PROVE  EscrowBacked'
<1> DEFINE new == [maker |-> u, settleToken |-> s, lotToken |-> l, lot |-> lot,
                   deadlineBlock |-> d, invited |-> i, cleared |-> FALSE,
                   winner |-> Nobody, clearingPrice |-> 0]
           n == Len(rfqs) + 1
<1>1. rfqs' = Append(rfqs, new) /\ new.cleared = FALSE /\ new.lotToken = l /\ new.lot = lot
  BY DEF PostRfq
<1> HIDE DEF new
<1>2. /\ Len(rfqs') = n /\ rfqs'[n] = new /\ Len(rfqs) \in Nat
      /\ \A id \in 1..Len(rfqs) : rfqs'[id] = rfqs[id]
  <2>1. IsSequence(rfqs)  BY DEF EscrowInv, TypeInv, ContractTypeOK, IsSequence
  <2>. QED  BY <1>1, <2>1, SequenceAppend, SequenceDomain
<1>3. lot \in Nat /\ balance \in Balances /\ balance' = Moved(balance, l, u, Desk, lot)
  BY LotsAssumption DEF PostRfq, EscrowInv, TypeInv, ContractTypeOK, Balances
<1>4. ASSUME NEW t \in Tokens  PROVE balance'[t][Desk] >= SumFunctionOnSet(LotSizes', OpenLots(t)')
  <2>1. \A id \in OpenLots(t) : LotSizes'[id] = LotSizes[id]
    BY <1>2 DEF LotSizes, OpenLots, rfqCount
  <2>2. balance[t][Desk] >= SumFunctionOnSet(LotSizes', OpenLots(t))
    BY <2>1, LotsAreFinite, SumCongruent DEF EscrowInv, EscrowBacked, FiniteLots
  <2>3. CASE t # l
    <3>1. OpenLots(t)' = OpenLots(t)  BY <1>1, <1>2, <2>3 DEF OpenLots, rfqCount
    <3>2. balance'[t][Desk] = balance[t][Desk]  BY <1>3, <2>3, PaidToDesk
    <3>. QED  BY <2>2, <3>1, <3>2
  <2>4. CASE t = l
    <3>1. OpenLots(t)' = OpenLots(t) \cup {n} /\ n \notin OpenLots(t)
      BY <1>1, <1>2, <2>4 DEF OpenLots, rfqCount
    <3>2. OpenLots(t) = OpenLots(t)' \ {n}  BY <3>1
    <3>3. IsFiniteSet(OpenLots(t)') /\ \A id \in OpenLots(t)' : LotSizes'[id] \in Nat
      <4>1. FiniteLots'  BY LotsAreFinite, PTL
      <4>. QED  BY <4>1 DEF FiniteLots
    <3>4. SumFunctionOnSet(LotSizes', OpenLots(t)') =
              LotSizes'[n] + SumFunctionOnSet(LotSizes', OpenLots(t))
      BY <3>1, <3>2, <3>3, SumTakeOut
    <3>5. LotSizes'[n] = lot  BY <1>1, <1>2 DEF LotSizes, rfqCount
    <3>6. balance'[t][Desk] = balance[t][Desk] + lot  BY <1>3, <2>4, PaidToDesk
    <3>7. balance[t][Desk] \in Nat  BY <1>3 DEF Balances, Accounts
    <3>8. SumFunctionOnSet(LotSizes', OpenLots(t)) \in Nat
      <4>1. IsFiniteSet(OpenLots(t)) /\ \A id \in OpenLots(t) : LotSizes'[id] \in Nat
        BY <2>1, LotsAreFinite DEF EscrowInv, FiniteLots
      <4>. QED  BY <4>1, SumIsNat
    <3>. QED  BY <1>3, <2>2, <3>4, <3>5, <3>6, <3>7, <3>8
  <2>. QED  BY <2>3, <2>4
<1>. QED  BY <1>4 DEF EscrowBacked

(* A lot leaves when its auction closes.                                   *)
LEMMA EscrowClosed ==
    ASSUME EscrowInv, NEW id \in 1..Len(rfqs), NEW r \in Rfq, rfqs' = Updated(rfqs, id, r),
           ~rfqs[id].cleared, r.cleared, \A f \in Terms : r[f] = rfqs[id][f],
           NEW bal \in Balances, \A t \in Tokens : bal[t][Desk] >= balance[t][Desk],
           NEW a \in Accounts, balance' = Moved(bal, rfqs[id].lotToken, Desk, a, rfqs[id].lot),
           TypeInv'
    PROVE  EscrowBacked'
<1> DEFINE l == rfqs[id].lotToken
           lot == rfqs[id].lot
<1>1. /\ Len(rfqs') = Len(rfqs) /\ rfqs'[id] = r
      /\ \A k \in 1..Len(rfqs) : k # id => rfqs'[k] = rfqs[k]
  <2>1. IsSequence(rfqs)  BY DEF EscrowInv, TypeInv, ContractTypeOK, IsSequence
  <2>. QED  BY <2>1, SequenceExcept
<1>2. r.lot = lot /\ r.lotToken = l  BY DEF Terms
<1>3. l \in Tokens /\ lot \in Nat
  <2>1. rfqs[id] \in Rfq  BY ElementOfSeq DEF EscrowInv, TypeInv, ContractTypeOK
  <2>. QED  BY <2>1 DEF Rfq
<1>4. ASSUME NEW t \in Tokens  PROVE balance'[t][Desk] >= SumFunctionOnSet(LotSizes', OpenLots(t)')
  <2>1. LotSizes' = LotSizes
    BY <1>1, <1>2 DEF LotSizes, rfqCount
  <2>2. balance[t][Desk] >= SumFunctionOnSet(LotSizes, OpenLots(t))
    BY DEF EscrowInv, EscrowBacked
  <2>5. /\ balance'[t][Desk] >= IF t = l THEN bal[t][Desk] - lot ELSE bal[t][Desk]
        /\ bal[t][Desk] >= balance[t][Desk]
    BY <1>3, PaidByDesk
  <2>6. balance[t][Desk] \in Nat /\ bal[t][Desk] \in Nat /\ balance'[t][Desk] \in Nat
    BY DEF EscrowInv, TypeInv, ContractTypeOK, Balances, Accounts
  <2>7. SumFunctionOnSet(LotSizes, OpenLots(t)) \in Nat
    BY LotsAreFinite, SumIsNat DEF EscrowInv, FiniteLots
  <2>3. CASE t # l
    <3>1. OpenLots(t)' = OpenLots(t)  BY <1>1, <1>2, <2>3 DEF OpenLots, rfqCount
    <3>2. balance'[t][Desk] >= bal[t][Desk]  BY <2>3, <2>5
    <3>3. balance'[t][Desk] >= SumFunctionOnSet(LotSizes, OpenLots(t))
      BY <2>2, <2>5, <2>6, <2>7, <3>2
    <3>. QED  BY <2>1, <3>1, <3>3
  <2>4. CASE t = l
    <3>1. OpenLots(t)' = OpenLots(t) \ {id} /\ id \in OpenLots(t)
      BY <1>1, <2>4 DEF OpenLots, rfqCount
    <3>2. IsFiniteSet(OpenLots(t)) /\ \A k \in OpenLots(t) : LotSizes[k] \in Nat
      BY LotsAreFinite DEF EscrowInv, FiniteLots
    <3>3. SumFunctionOnSet(LotSizes, OpenLots(t)) =
              LotSizes[id] + SumFunctionOnSet(LotSizes, OpenLots(t) \ {id})
      <4> DEFINE S == OpenLots(t)
      <4>1. IsFiniteSet(S) /\ id \in S /\ \A k \in S : LotSizes[k] \in Nat  BY <3>1, <3>2
      <4> HIDE DEF S
      <4>2. SumFunctionOnSet(LotSizes, S) = LotSizes[id] + SumFunctionOnSet(LotSizes, S \ {id})
        BY <4>1, SumTakeOut
      <4>. QED  BY <4>2 DEF S
    <3>4. SumFunctionOnSet(LotSizes, OpenLots(t) \ {id}) \in Nat
      <4>1. IsFiniteSet(OpenLots(t) \ {id})  BY <3>2, FS_RemoveElement, FS_Subset
      <4>. QED  BY <3>2, <4>1, SumIsNat
    <3>5. LotSizes[id] = lot  BY DEF LotSizes, rfqCount
    <3>6. balance'[t][Desk] >= bal[t][Desk] - lot  BY <2>4, <2>5
    <3>. QED  BY <1>3, <2>1, <2>2, <2>5, <2>6, <3>1, <3>3, <3>4, <3>5, <3>6
  <2>. QED  BY <2>3, <2>4
<1>. QED  BY <1>4 DEF EscrowBacked

LEMMA EscrowStep ==
    ASSUME EscrowInv, [ContractNext]_contractVars
    PROVE  EscrowInv'
<1>1. /\ TypeInv /\ TypeInv' /\ EscrowBacked
      /\ balance \in Balances /\ allowance \in Allowances /\ Desk \in Accounts
      /\ \A t \in Tokens : balance[t][Desk] \in Nat /\ allowance[t][Desk] = 0
  BY TypeStep DEF EscrowInv, TypeInv, ContractTypeOK, Balances, Allowances, Accounts
<1>2. CASE UNCHANGED <<rfqs, balance, allowance>>
  BY <1>1, <1>2, EscrowIdle DEF EscrowInv
<1>8. ASSUME NEW u \in Users, NEW t \in Tokens, NEW n \in Approvals, Approve(u, t, n)
      PROVE  EscrowInv'
  <2>1. \A s \in Tokens : allowance'[s][Desk] = 0
    BY <1>1, <1>8, AccountsAssumption DEF Approve, Allowances
  <2>2. rfqs' = rfqs /\ balance' = balance
    BY <1>8 DEF Approve, auctionVars
  <2>. QED  BY <1>1, <2>1, <2>2, EscrowIdle DEF EscrowInv
<1>3. ASSUME NEW u \in Users, NEW v \in Accounts, NEW t \in Tokens, NEW n \in Payments,
             Transfer(u, v, t, n)
      PROVE  EscrowInv'
  <2>1. n \in Nat /\ rfqs' = rfqs /\ allowance' = allowance
    BY <1>3, LotsAssumption DEF Transfer, auctionVars
  <2>2. \A s \in Tokens : balance'[s][Desk] >= balance[s][Desk]
    BY <1>1, <1>3, <2>1, PaidByOther, AccountsAssumption DEF Transfer, Accounts
  <2>. QED  BY <1>1, <2>1, <2>2, EscrowIdle DEF EscrowInv
<1>4. ASSUME NEW u \in Users, NEW s \in Tokens, NEW l \in Tokens, NEW lot \in Lots,
             NEW d \in Deadlines, NEW i \in Users \cup {Nobody}, NEW r \in Ciphertexts,
             PostRfq(u, s, l, lot, d, i, r)
      PROVE  EscrowInv'
  <2>1. allowance' = [allowance EXCEPT ![l][u] = @ - lot]  BY <1>4 DEF PostRfq
  <2>2. \A t \in Tokens : allowance'[t][Desk] = 0
    BY <1>1, <2>1, AccountsAssumption DEF Allowances
  <2>. QED  BY <1>1, <1>4, <2>2, EscrowPosted DEF EscrowInv
<1>5. ASSUME NEW id \in Ids, ReclaimLot(id)  PROVE EscrowInv'
  <2> DEFINE r == [rfqs[id] EXCEPT !.cleared = TRUE]
  <2>1. id \in 1..Len(rfqs) /\ rfqs[id] \in Rfq /\ ~rfqs[id].cleared
    BY <1>1, <1>5, ElementOfSeq DEF ReclaimLot, MayReclaim, CanClose, rfqCount, TypeInv, ContractTypeOK
  <2>2. r \in Rfq /\ r.cleared /\ \A f \in Terms : r[f] = rfqs[id][f]
    BY <2>1 DEF Rfq, Terms
  <2>3. /\ rfqs' = Updated(rfqs, id, r) /\ rfqs[id].maker \in Users
        /\ balance' = Moved(balance, rfqs[id].lotToken, Desk, rfqs[id].maker, rfqs[id].lot)
        /\ balance \in Balances
    BY <1>1, <1>5, <2>1 DEF ReclaimLot, Updated, Rfq, TypeInv, ContractTypeOK, Balances
  <2> HIDE DEF r
  <2>4. EscrowBacked'
    <3>1. rfqs[id].maker \in Accounts /\ \A t \in Tokens : balance[t][Desk] >= balance[t][Desk]
      BY <1>1, <2>3 DEF Accounts
    <3>. QED  BY <1>1, <2>1, <2>2, <2>3, <3>1, EscrowClosed
  <2>. QED  BY <1>1, <1>5, <2>4 DEF EscrowInv, ReclaimLot
<1>6. CASE RelayStep
  <2>1. PICK id \in 1..rfqCount : \E res \in SignedResults(id) : RelayClearing(res)
    BY <1>6 DEF RelayStep
  <2>2. PICK res \in SignedResults(id) : RelayClearing(res)
    BY <2>1
  <2> DEFINE r == [rfqs[id] EXCEPT !.cleared = TRUE, !.winner = res.winner,
                                   !.clearingPrice = res.price]
             paid == Moved(balance, rfqs[id].settleToken, res.winner, rfqs[id].maker, res.price)
  <2>3. /\ id \in 1..Len(rfqs) /\ rfqs[id] \in Rfq /\ ~rfqs[id].cleared
        /\ res.rfqId = id /\ res.winner \in Accounts /\ res.price \in Nat
    <3>1. res.rfqId = id /\ res.winner \in Accounts /\ res.price \in Nat
      BY LotsAssumption DEF SignedResults
    <3>2. id \in 1..Len(rfqs) /\ ~rfqs[id].cleared
      BY <2>2, <3>1 DEF RelayClearing, CanClose, rfqCount
    <3>. QED  BY <1>1, <3>1, <3>2, ElementOfSeq DEF TypeInv, ContractTypeOK
  <2>4. r \in Rfq /\ r.cleared /\ \A f \in Terms : r[f] = rfqs[id][f]
    BY <2>3 DEF Rfq, Terms
  <2>5. /\ rfqs' = Updated(rfqs, id, r)
        /\ CanPull(rfqs[id].settleToken, res.winner, res.price)
        /\ balance' = Moved(paid, rfqs[id].lotToken, Desk, res.winner, rfqs[id].lot)
    BY <2>2, <2>3 DEF RelayClearing, Updated
  <2>6. /\ rfqs[id].settleToken \in Tokens /\ rfqs[id].maker \in Users
        /\ balance \in Balances
    BY <1>1, <2>3 DEF Rfq, TypeInv, ContractTypeOK, Balances
  <2>8. res.winner = Desk => res.price = 0
    BY <1>1, <2>3, <2>5, <2>6 DEF CanPull
  <2>7. paid \in Balances /\ \A t \in Tokens : paid[t][Desk] >= balance[t][Desk]
    BY <2>3, <2>5, <2>6, <2>8, Payment, PaidByOther DEF CanPull, Accounts
  <2> HIDE DEF r, paid
  <2>9. EscrowBacked'
    BY <1>1, <2>3, <2>4, <2>5, <2>7, EscrowClosed
  <2>10. \A t \in Tokens : allowance'[t][Desk] = 0
    <3>1. allowance' = [allowance EXCEPT ![rfqs[id].settleToken][res.winner] = @ - res.price]
      BY <2>2, <2>3 DEF RelayClearing
    <3>2. CASE res.winner = Desk
      BY <1>1, <2>8, <3>1, <3>2 DEF Allowances
    <3>3. CASE res.winner # Desk
      BY <1>1, <3>1, <3>3 DEF Allowances
    <3>. QED  BY <3>2, <3>3
  <2>. QED  BY <1>1, <2>9, <2>10 DEF EscrowInv
<1>7. CASE UserStep
  <2>1. ASSUME NEW u \in Users, NEW id \in Ids, NEW c \in Commitments, NEW s \in Ciphertexts,
               CommitBid(u, id, c, s)
        PROVE  UNCHANGED <<rfqs, balance, allowance>>
    BY <2>1 DEF CommitBid, tokenVars
  <2>. QED  BY <1>2, <1>3, <1>4, <1>5, <1>7, <1>8, <2>1
            DEF UserStep, RequestClearing, auctionVars, tokenVars
<1>. QED
  BY <1>2, <1>6, <1>7
  DEF ContractNext, SetupStep, SetExtensionId, SetTeeAddress, Register, Pause, AdvanceBlock,
      auctionVars, tokenVars, contractVars

(* The desk holds at least the lots of the auctions that are open, of      *)
(* every token, whatever is posted, reclaimed, settled and sent to it in   *)
(* whatever order: no lot is ever paid out of another auction's escrow.    *)
THEOREM EscrowIsBacked == ContractSpec => []EscrowBacked
<1>1. ContractInit => EscrowInv
  <2> SUFFICES ASSUME ContractInit PROVE EscrowInv  OBVIOUS
  <2>1. Len(rfqs) = 0 /\ \A t \in Tokens : balance[t][Desk] = 0 /\ allowance[t][Desk] = 0
    BY AccountsAssumption DEF ContractInit, EmptyDesk, Accounts, Holdings
  <2>2. \A t : OpenLots(t) = {}  BY <2>1 DEF OpenLots, rfqCount
  <2>3. SumFunctionOnSet(LotSizes, {}) = 0  BY SumEquation, FS_EmptySet
  <2>4. EscrowBacked
    <3>1. \A t \in Tokens : 0 >= SumFunctionOnSet(LotSizes, OpenLots(t))  BY <2>2, <2>3
    <3>. QED  BY <2>1, <3>1 DEF EscrowBacked
  <2>. QED  BY <2>1, <2>4, TypeInit DEF EscrowInv
<1>2. EscrowInv => EscrowBacked
  BY DEF EscrowInv
<1>. QED  BY <1>1, <1>2, EscrowStep, PTL DEF ContractSpec
=============================================================================
