-------------------------- MODULE ButaSystemProofs --------------------------
(***************************************************************************)
(* Safety of the system for every number of users, machines, auctions and  *)
(* instructions: no clearing before its deadline once there is an enclave  *)
(* to trust, one outcome for each auction across deliveries, machines and  *)
(* restarts, and settlement as SealedAuction promises it.                  *)
(***************************************************************************)
EXTENDS ButaSystem, LibraryFacts

-----------------------------------------------------------------------------
(***************************************************************************)
(* The chain: sequences, and auctions whose deadline is a block.           *)
(***************************************************************************)
IsAuction(r) ==
    /\ {"deadlineBlock", "cleared", "winner", "clearingPrice"} \subseteq DOMAIN r
    /\ r.deadlineBlock \in Nat
    /\ ~r.cleared => r.winner = Nobody

ChainInv ==
    /\ block \in Nat
    /\ IsSequence(rfqs)
    /\ IsSequence(instructions)
    /\ \A id \in 1..Len(rfqs) : IsAuction(rfqs[id])

(* What every step leaves: blocks do not go back, no auction disappears,   *)
(* no deadline moves, no instruction is taken back.                        *)
Onward ==
    /\ block' >= block
    /\ Len(rfqs') >= Len(rfqs)
    /\ \A id \in 1..Len(rfqs) : rfqs'[id].deadlineBlock = rfqs[id].deadlineBlock
    /\ Len(instructions') >= Len(instructions)
    /\ \A i \in 1..Len(instructions) : instructions'[i] = instructions[i]

(* Sending an instruction appends one.                                     *)
LEMMA Sending ==
    ASSUME NEW op, NEW caller, NEW id, NEW body, SendInstruction(op, caller, id, body),
           IsSequence(instructions)
    PROVE  /\ IsSequence(instructions')
           /\ Len(instructions') = Len(instructions) + 1
           /\ \A i \in 1..Len(instructions) : instructions'[i] = instructions[i]
           /\ instructions'[Len(instructions) + 1].op = op
           /\ instructions'[Len(instructions) + 1].rfqId = id
           /\ instructions'[Len(instructions) + 1].to \in Machines
<1>1. PICK m \in Machines : instructions' = Append(instructions,
               [op |-> op, sender |-> caller, rfqId |-> id, to |-> m, body |-> body])
  BY DEF SendInstruction
<1>. QED  BY <1>1, SequenceAppend

(* Closing an auction, by a reclaim or by a sale, leaves its deadline.     *)
LEMMA Closing ==
    ASSUME NEW id \in 1..Len(rfqs), NEW r, ChainInv, rfqs' = Updated(rfqs, id, r),
           IsAuction(r), r.deadlineBlock = rfqs[id].deadlineBlock
    PROVE  /\ IsSequence(rfqs')
           /\ Len(rfqs') = Len(rfqs)
           /\ \A j \in 1..Len(rfqs) : /\ IsAuction(rfqs'[j])
                                       /\ rfqs'[j].deadlineBlock = rfqs[j].deadlineBlock
           /\ \A j \in 1..Len(rfqs) : j # id => rfqs'[j] = rfqs[j]
           /\ rfqs'[id] = r
<1>1. IsSequence(rfqs)  BY DEF ChainInv
<1>2. /\ IsSequence(rfqs')
      /\ Len(rfqs') = Len(rfqs)
      /\ rfqs'[id] = r
      /\ \A j \in 1..Len(rfqs) : j # id => rfqs'[j] = rfqs[j]
  BY <1>1, SequenceExcept
<1>. QED  BY <1>2 DEF ChainInv

(***************************************************************************)
(* What one step of the system does to the chain.                          *)
(***************************************************************************)
Over(id) == id \in 1..rfqCount /\ block > rfqs[id].deadlineBlock

(* A step sends at most one instruction: to post the auction it adds, to   *)
(* commit a bid, or to clear an auction whose deadline has passed.         *)
SendsAtMostOne ==
    \/ UNCHANGED instructions
    \/ /\ Len(instructions') = Len(instructions) + 1
       /\ LET last == instructions'[Len(instructions) + 1]
          IN  /\ last.to \in Machines
              /\ \/ /\ last.op = "POST_RFQ"
                    /\ last.rfqId = Len(rfqs) + 1 /\ Len(rfqs') = Len(rfqs) + 1
                 \/ last.op = "COMMIT_BID"
                 \/ last.op = "CLEAR_AUCTION" /\ Over(last.rfqId)

(* With an enclave to trust, a step closes only auctions past deadline.    *)
ClosesWhatIsOver ==
    \A id \in 1..Len(rfqs) : HasEnclave /\ ~rfqs[id].cleared /\ rfqs'[id].cleared => Over(id)

ChainStep == ChainInv' /\ Onward /\ SendsAtMostOne /\ ClosesWhatIsOver

IsAnswer(a) == {"signer", "tag", "rfqId", "status"} \subseteq DOMAIN a

(* Posting adds one open auction and the instruction that carries it.      *)
LEMMA PostRfqStep ==
    ASSUME ChainInv, NEW u, NEW s, NEW l, NEW lot, NEW d \in Deadlines, NEW i, NEW r,
           PostRfq(u, s, l, lot, d, i, r)
    PROVE  ChainStep
<1>1. SendInstruction("POST_RFQ", u, rfqCount + 1, [lot |-> lot, invited |-> i, sealed |-> r])
  BY DEF PostRfq
<1> DEFINE new == [maker |-> u, settleToken |-> s, lotToken |-> l, lot |-> lot,
                   deadlineBlock |-> d, invited |-> i, cleared |-> FALSE,
                   winner |-> Nobody, clearingPrice |-> 0]
<1>2. rfqs' = Append(rfqs, new) /\ block' = block
  BY DEF PostRfq
<1>3. IsAuction(new) /\ ~new.cleared
  BY BoundsAssumption DEF IsAuction, Deadlines
<1> HIDE DEF new
<1>4. /\ IsSequence(rfqs')
      /\ Len(rfqs') = Len(rfqs) + 1
      /\ \A id \in 1..Len(rfqs) : rfqs'[id] = rfqs[id]
      /\ rfqs'[Len(rfqs) + 1] = new
  BY <1>2, SequenceAppend DEF ChainInv
<1>5. Len(rfqs) \in Nat /\ Len(instructions) \in Nat
  BY SequenceDomain DEF ChainInv
<1>6. \A id \in 1..Len(rfqs') : IsAuction(rfqs'[id])
  BY <1>3, <1>4, <1>5 DEF ChainInv
<1>7. /\ IsSequence(instructions')
      /\ Len(instructions') = Len(instructions) + 1
      /\ \A k \in 1..Len(instructions) : instructions'[k] = instructions[k]
      /\ instructions'[Len(instructions) + 1].op = "POST_RFQ"
      /\ instructions'[Len(instructions) + 1].rfqId = Len(rfqs) + 1
      /\ instructions'[Len(instructions) + 1].to \in Machines
  BY <1>1, Sending DEF ChainInv, rfqCount
<1>8. ChainInv'
  <2>1. (\A id \in 1..Len(rfqs) : IsAuction(rfqs[id]))'
    BY <1>6 DEF IsAuction
  <2>. QED  BY <1>2, <1>4, <1>7, <2>1 DEF ChainInv, IsSequence
<1>9. ClosesWhatIsOver  BY <1>4 DEF ClosesWhatIsOver
<1>. QED  BY <1>2, <1>4, <1>5, <1>7, <1>8, <1>9 DEF Onward, ChainInv, ChainStep, SendsAtMostOne

(* Bids and requests to clear only send.                                   *)
LEMMA SendingStep ==
    ASSUME ChainInv, NEW op, NEW caller, NEW id, NEW body,
           SendInstruction(op, caller, id, body), UNCHANGED <<block, rfqs>>,
           op = "COMMIT_BID" \/ (op = "CLEAR_AUCTION" /\ Over(id))
    PROVE  ChainStep
<1>1. /\ IsSequence(instructions')
      /\ Len(instructions') = Len(instructions) + 1
      /\ \A k \in 1..Len(instructions) : instructions'[k] = instructions[k]
      /\ instructions'[Len(instructions) + 1].op = op
      /\ instructions'[Len(instructions) + 1].rfqId = id
      /\ instructions'[Len(instructions) + 1].to \in Machines
  BY Sending DEF ChainInv
<1>2. Len(rfqs) \in Nat /\ Len(instructions) \in Nat
  BY SequenceDomain DEF ChainInv
<1>3. ChainInv'  BY <1>1 DEF ChainInv, IsSequence, IsAuction
<1>4. ClosesWhatIsOver  BY DEF ClosesWhatIsOver
<1>. QED  BY <1>1, <1>2, <1>3, <1>4 DEF Onward, ChainInv, ChainStep, SendsAtMostOne

(* A reclaim closes the auction without a winner.                          *)
LEMMA ReclaimLotStep ==
    ASSUME ChainInv, NEW id, ReclaimLot(id)
    PROVE  ChainStep
<1> DEFINE r == [rfqs[id] EXCEPT !.cleared = TRUE]
<1>1. id \in 1..Len(rfqs) /\ ~rfqs[id].cleared /\ Over(id) /\ UNCHANGED <<block, instructions>>
  BY DEF ReclaimLot, MayReclaim, CanClose, PastDeadline, Over, rfqCount
<1>2. IsAuction(rfqs[id])  BY <1>1 DEF ChainInv
<1>3. IsAuction(r) /\ r.winner = Nobody /\ r.deadlineBlock = rfqs[id].deadlineBlock
  BY <1>1, <1>2 DEF IsAuction
<1>4. rfqs' = Updated(rfqs, id, r)  BY DEF ReclaimLot, Updated
<1> HIDE DEF r
<1>5. /\ IsSequence(rfqs')
      /\ Len(rfqs') = Len(rfqs)
      /\ \A j \in 1..Len(rfqs) : /\ IsAuction(rfqs'[j])
                                  /\ rfqs'[j].deadlineBlock = rfqs[j].deadlineBlock
      /\ \A j \in 1..Len(rfqs) : j # id => rfqs'[j] = rfqs[j]
      /\ rfqs'[id] = r
  BY <1>1, <1>3, <1>4, Closing
<1>6. ClosesWhatIsOver  BY <1>1, <1>5 DEF ClosesWhatIsOver
<1>7. ChainInv'  BY <1>1, <1>5 DEF ChainInv, IsSequence, IsAuction
<1>8. Len(rfqs) \in Nat /\ Len(instructions) \in Nat
  BY SequenceDomain DEF ChainInv
<1>. QED  BY <1>1, <1>5, <1>6, <1>7, <1>8 DEF ChainInv, ChainStep, Onward, SendsAtMostOne

(* A relayed clearing closes the auction it names.                         *)
LEMMA RelayingStep ==
    ASSUME ChainInv, NEW res, RelayClearing(res), HasEnclave => Over(res.rfqId)
    PROVE  ChainStep
<1> DEFINE id == res.rfqId
           r == [rfqs[id] EXCEPT !.cleared = TRUE, !.winner = res.winner,
                                 !.clearingPrice = res.price]
<1>2. id \in 1..Len(rfqs) /\ ~rfqs[id].cleared /\ UNCHANGED <<block, instructions>>
  BY DEF RelayClearing, CanClose, rfqCount
<1>3. IsAuction(rfqs[id])  BY <1>2 DEF ChainInv
<1>4. IsAuction(r) /\ r.deadlineBlock = rfqs[id].deadlineBlock
  BY <1>3 DEF IsAuction
<1>5. rfqs' = Updated(rfqs, id, r)  BY DEF RelayClearing, Updated
<1> HIDE DEF r
<1>6. /\ IsSequence(rfqs')
      /\ Len(rfqs') = Len(rfqs)
      /\ \A j \in 1..Len(rfqs) : /\ IsAuction(rfqs'[j])
                                  /\ rfqs'[j].deadlineBlock = rfqs[j].deadlineBlock
      /\ \A j \in 1..Len(rfqs) : j # id => rfqs'[j] = rfqs[j]
  BY <1>2, <1>4, <1>5, Closing
<1>7. ClosesWhatIsOver  BY <1>6 DEF ClosesWhatIsOver
<1>8. ChainInv'  BY <1>2, <1>6 DEF ChainInv, IsSequence, IsAuction
<1>9. Len(rfqs) \in Nat /\ Len(instructions) \in Nat
  BY SequenceDomain DEF ChainInv
<1>. QED  BY <1>2, <1>6, <1>7, <1>8, <1>9 DEF ChainInv, ChainStep, Onward, SendsAtMostOne

(* Every other step leaves auctions and instructions alone.                *)
LEMMA IdleStep ==
    ASSUME ChainInv, UNCHANGED <<rfqs, instructions>>, block' = block \/ block' = block + 1
    PROVE  ChainStep
<1>1. Len(rfqs) \in Nat /\ Len(instructions) \in Nat
  BY SequenceDomain DEF ChainInv
<1>. QED  BY <1>1 DEF ChainInv, ChainStep, Onward, SendsAtMostOne, ClosesWhatIsOver,
                       IsSequence, IsAuction

AnswersWhatIsOver == \A a \in answers : IsAnswer(a) /\ Over(a.rfqId)

(* Every step of the system is one of those.                               *)
LEMMA EveryStep ==
    ASSUME ChainInv, AnswersWhatIsOver, [Next]_vars
    PROVE  ChainStep
<1>0. CASE UNCHANGED vars
  BY <1>0, IdleStep DEF vars, contractVars, auctionVars
<1>1. CASE AuctionStep
  <2>1. ASSUME NEW u \in Sellers, PostBy(u) PROVE ChainStep
    BY <2>1, PostRfqStep DEF PostBy
  <2>2. ASSUME NEW u \in Buyers, NEW id \in Ids, BidOn(u, id) PROVE ChainStep
    <3>1. PICK m, amount, nonce, c :
              CommitBid(u, id, c, SealedBid(m, u, id, amount, nonce, c))
      BY <2>2 DEF BidOn
    <3>2. PICK body : SendInstruction("COMMIT_BID", u, id, body)
      BY <3>1 DEF CommitBid
    <3>3. UNCHANGED <<block, rfqs>>  BY <3>1 DEF CommitBid
    <3>. QED  BY <3>2, <3>3, SendingStep
  <2>3. ASSUME NEW id \in Ids, RequestClearing(id) PROVE ChainStep
    <3>1. SendInstruction("CLEAR_AUCTION", Nobody, id, [rfqId |-> id])
      BY <2>3 DEF RequestClearing
    <3>2. Over(id) /\ UNCHANGED <<block, rfqs>>
      BY <2>3 DEF RequestClearing, CanClose, PastDeadline, Over, auctionVars
    <3>. QED  BY <3>1, <3>2, SendingStep
  <2>4. ASSUME NEW id \in Ids, ReclaimLot(id) PROVE ChainStep
    BY <2>4, ReclaimLotStep
  <2>5. CASE AdvanceBlock
    BY <2>5, IdleStep DEF AdvanceBlock, auctionVars
  <2>. QED  BY <1>1, <2>1, <2>2, <2>3, <2>4, <2>5 DEF AuctionStep
<1>2. CASE TokenStep
  BY <1>2, IdleStep DEF TokenStep, Approve, Transfer, auctionVars
<1>3. CASE AdminStep
  BY <1>3, IdleStep DEF AdminStep, SetExtensionId, SetTeeAddress, Register, Pause, auctionVars
<1>4. CASE Delivery \/ MachineStep
  BY <1>4, IdleStep DEF Delivery, Deliver, DeliverPost, DeliverCommit, DeliverClear, MachineStep,
                        contractVars, auctionVars
<1>5. CASE Relay
  <2>1. PICK a \in answers : RelayClearing(Presented(a))  BY <1>5 DEF Relay
  <2>2. Over(Presented(a).rfqId)  BY DEF AnswersWhatIsOver, IsAnswer, Presented
  <2>. QED  BY <2>1, <2>2, RelayingStep
<1>6. CASE RelayUnsigned(Accounts, Nat)
  BY <1>6, RelayingStep DEF RelayUnsigned, Unsigned, RelayClearing, Authorised, HasEnclave
<1>. QED  BY <1>0, <1>1, <1>2, <1>3, <1>4, <1>5, <1>6 DEF Next

-----------------------------------------------------------------------------
(***************************************************************************)
(* Once there is an enclave to trust, nothing clears before its deadline.  *)
(* The contract checks the deadline when it sends CLEAR_AUCTION and nobody *)
(* checks it again: what is inductive follows the fact from the            *)
(* instruction to the answer.                                              *)
(***************************************************************************)
ClearsWhatIsOver ==
    \A i \in 1..Len(instructions) :
        instructions[i].op = "CLEAR_AUCTION" => Over(instructions[i].rfqId)

DeadlineInv == ChainInv /\ ClearsWhatIsOver /\ AnswersWhatIsOver

(* A deadline that has passed stays passed.                                *)
LEMMA OverStaysOver ==
    ASSUME ChainInv, ChainStep, NEW id, Over(id)
    PROVE  Over(id)'
<1>1. id \in 1..Len(rfqs) /\ rfqs[id].deadlineBlock \in Nat /\ block \in Nat /\ block' \in Nat
  BY DEF Over, rfqCount, ChainInv, ChainStep, IsAuction
<1>2. Len(rfqs) \in Nat /\ Len(rfqs') \in Nat
  BY SequenceDomain DEF ChainInv, ChainStep
<1>. QED  BY <1>1, <1>2 DEF Over, rfqCount, ChainStep, Onward

(* What a delivery answers: nothing, or one CLEAR_AUCTION.                 *)
LEMMA AnswerStep ==
    ASSUME ChainInv, [Next]_vars, NEW a \in answers'
    PROVE  \/ a \in answers
           \/ \E i \in 1..Len(instructions) :
                 /\ instructions[i].op = "CLEAR_AUCTION"
                 /\ a.rfqId = instructions[i].rfqId
                 /\ IsAnswer(a)
<1>. USE DEF enclaveVars
<1>0. CASE UNCHANGED vars  BY <1>0 DEF vars
<1>1. CASE AuctionStep  BY <1>1 DEF AuctionStep
<1>2. CASE TokenStep  BY <1>2 DEF TokenStep
<1>3. CASE AdminStep  BY <1>3 DEF AdminStep
<1>4. CASE MachineStep  BY <1>4 DEF MachineStep, TEE!Start, TEE!Stop
<1>5. CASE Relay \/ RelayUnsigned(Accounts, Nat)  BY <1>5 DEF Relay, RelayUnsigned
<1>6. CASE Delivery
  <2>1. PICK i \in 1..Len(instructions) : Deliver(i)
    BY <1>6, SequenceDomain DEF Delivery, ChainInv
  <2>2. CASE DeliverPost(i)  BY <2>2 DEF DeliverPost, TEE!HandlePostRfq
  <2>3. CASE DeliverCommit(i)  BY <2>3 DEF DeliverCommit, TEE!HandleCommitBid
  <2>4. ASSUME NEW tag \in Tags, DeliverClear(i, tag)
        PROVE  a \in answers \/ (/\ instructions[i].op = "CLEAR_AUCTION"
                                 /\ a.rfqId = instructions[i].rfqId
                                 /\ IsAnswer(a))
    <3> DEFINE m == instructions[i].to
               id == instructions[i].rfqId
    <3>1. PICK screen : TEE!HandleClearAuction(m, id, i, tag, screen)
      BY <2>4 DEF DeliverClear
    <3> DEFINE out == TEE!ClearingOf(m, id, screen)
    <3>2. answers' = answers \cup {TEE!Answer(m, i, tag, id, out)}
      BY <3>1 DEF TEE!HandleClearAuction
    <3>3. /\ TEE!Answer(m, i, tag, id, out).rfqId = id
          /\ IsAnswer(TEE!Answer(m, i, tag, id, out))
      <4> HIDE DEF out, m, id
      <4>. QED  BY DEF TEE!Answer, IsAnswer
    <3>. QED  BY <2>4, <3>2, <3>3 DEF DeliverClear
  <2>. QED  BY <2>1, <2>2, <2>3, <2>4 DEF Deliver
<1>. QED  BY <1>0, <1>1, <1>2, <1>3, <1>4, <1>5, <1>6 DEF Next

(* From the deadline check to the instruction and the answer.              *)
LEMMA DeadlineStep ==
    ASSUME DeadlineInv, [Next]_vars
    PROVE  DeadlineInv'
<1>1. ChainInv /\ ChainStep
  BY EveryStep DEF DeadlineInv
<1>2. \A id : Over(id) => Over(id)'
  BY <1>1, OverStaysOver
<1>3. Len(instructions) \in Nat
  BY <1>1, SequenceDomain DEF ChainInv
<1>4. ClearsWhatIsOver'
  <2>1. ASSUME NEW i \in 1..Len(instructions'), instructions'[i].op = "CLEAR_AUCTION"
        PROVE  Over(instructions'[i].rfqId)
    BY <1>1, <1>3, <2>1 DEF DeadlineInv, ClearsWhatIsOver, ChainStep, SendsAtMostOne, Onward
  <2>. QED  BY <1>2, <2>1 DEF ClearsWhatIsOver, Over
<1>5. AnswersWhatIsOver'
  <2>1. ASSUME NEW a \in answers' PROVE IsAnswer(a) /\ Over(a.rfqId)
    BY <1>1, AnswerStep DEF DeadlineInv, AnswersWhatIsOver, ClearsWhatIsOver
  <2>. QED  BY <1>2, <2>1 DEF AnswersWhatIsOver, Over, IsAnswer
<1>. QED  BY <1>1, <1>4, <1>5 DEF DeadlineInv, ChainStep

(* No enclave clears an auction that still takes bids, and neither does    *)
(* the contract once it has an enclave to trust, although neither          *)
(* relayClearing nor CLEAR_AUCTION checks for it.                          *)
THEOREM NoEarlyClearing == Spec => ClearedAfterDeadline
<1>1. Init => DeadlineInv
  <2>1. <<>> \in Seq({})  OBVIOUS
  <2>. QED  BY <2>1 DEF Init, ContractInit, EmptyDesk, TEE!EnclaveInit, DeadlineInv, ChainInv,
                   ClearsWhatIsOver, AnswersWhatIsOver, IsSequence
<1>2. DeadlineInv /\ [Next]_vars => DeadlineInv'
  BY DeadlineStep
<1>3. ASSUME DeadlineInv, [Next]_vars
      PROVE  /\ \A id \in 1..rfqCount :
                   (HasEnclave /\ ~rfqs[id].cleared /\ rfqs'[id].cleared)
                       => block > rfqs[id].deadlineBlock
             /\ \A a \in answers' \ answers :
                   Cleared(a) => a.rfqId \in 1..rfqCount /\ block > rfqs[a.rfqId].deadlineBlock
  <2>1. ChainStep  BY <1>3, EveryStep DEF DeadlineInv
  <2>2. ASSUME NEW a \in answers' \ answers  PROVE Over(a.rfqId)
    BY <1>3, AnswerStep DEF DeadlineInv, ClearsWhatIsOver
  <2>. QED  BY <2>1, <2>2 DEF ChainStep, ClosesWhatIsOver, Over, rfqCount
<1>. QED  BY <1>1, <1>2, <1>3, PTL DEF Spec, ClearedAfterDeadline

-----------------------------------------------------------------------------
(***************************************************************************)
(* One outcome for each auction.  An auction is posted to one machine and  *)
(* so is in one machine's book only; that book keeps the outcome of the    *)
(* first clearing, and is lost only with the key that signs.               *)
(***************************************************************************)
(* Instruction i carries auction id to machine m.                          *)
Posts(i, m, id) ==
    /\ i \in 1..Len(instructions)
    /\ instructions[i].op = "POST_RFQ"
    /\ instructions[i].rfqId = id
    /\ instructions[i].to = m

Sent(m, id) == \E i \in 1..Len(instructions) : Posts(i, m, id)

IsPost(i) == i \in 1..Len(instructions) /\ instructions[i].op = "POST_RFQ"

RoutingInv ==
    /\ \A i \in 1..Len(instructions) : instructions[i].to \in Machines
    /\ \A i : IsPost(i) => instructions[i].rfqId \in 1..Len(rfqs)
    /\ \A i, j : (IsPost(i) /\ IsPost(j) /\ instructions[i].rfqId = instructions[j].rfqId) => i = j

(* A book holds the auctions that were sent to its machine.                *)
BookInv ==
    /\ DOMAIN life = Machines
    /\ DOMAIN book = Machines
    /\ \A m \in Machines : \A id \in DOMAIN book[m] :
          Sent(m, id) /\ {"cleared", "outcome"} \subseteq DOMAIN book[m][id]

(* An answer names the winner of an outcome by address.                    *)
AnswersAs(out, a) ==
    a.winner = AsWritten[out.winner] /\ a.price = out.price /\ a.digest = out.digest

(* What a machine that answered keeps: the outcome it answered.            *)
Keeps(a) ==
    /\ a.signer \in Machines
    /\ Sent(a.signer, a.rfqId)
    /\ life[a.signer] # "new"
    /\ life[a.signer] = "up" =>
          /\ a.rfqId \in DOMAIN book[a.signer]
          /\ book[a.signer][a.rfqId].cleared
          /\ AnswersAs(book[a.signer][a.rfqId].outcome, a)

OutcomeInv ==
    /\ \A a \in answers : Cleared(a) => Keeps(a)
    /\ \A a, b \in answers :
          (Cleared(a) /\ Cleared(b) /\ a.signer = b.signer /\ a.rfqId = b.rfqId)
              => TEE!SameOutcome(a, b)

Inv == DeadlineInv /\ RoutingInv /\ BookInv /\ OutcomeInv

-----------------------------------------------------------------------------
(***************************************************************************)
(* Routing.                                                                *)
(***************************************************************************)
LEMMA RoutingStep ==
    ASSUME ChainInv, ChainStep, RoutingInv
    PROVE  RoutingInv' /\ \A m, id : Sent(m, id) => Sent(m, id)'
<1>1. Len(instructions) \in Nat /\ Len(rfqs) \in Nat /\ Len(instructions') \in Nat /\ Len(rfqs') \in Nat
  BY SequenceDomain DEF ChainInv, ChainStep
<1>2. Onward  BY DEF ChainStep
<1> DEFINE last == Len(instructions) + 1
<1>3. \A i \in 1..Len(instructions') :
          \/ i \in 1..Len(instructions) /\ instructions'[i] = instructions[i]
          \/ /\ i = last /\ instructions'[i].to \in Machines
             /\ instructions'[i].op = "POST_RFQ" =>
                    instructions'[i].rfqId = Len(rfqs) + 1 /\ Len(rfqs') = Len(rfqs) + 1
  <2>1. CASE UNCHANGED instructions
    BY <2>1
  <2>2. CASE Len(instructions') = last
    <3>1. 1..Len(instructions') = 1..Len(instructions) \cup {last}  BY <1>1, <2>2
    <3>2. \A i \in 1..Len(instructions) : instructions'[i] = instructions[i]
      BY <1>2 DEF Onward
    <3>3. /\ instructions'[last].to \in Machines
          /\ instructions'[last].op = "POST_RFQ" =>
                 instructions'[last].rfqId = Len(rfqs) + 1 /\ Len(rfqs') = Len(rfqs) + 1
      BY <1>1, <2>2 DEF ChainStep, SendsAtMostOne
    <3>. QED  BY <3>1, <3>2, <3>3
  <2>. QED  BY <2>1, <2>2 DEF ChainStep, SendsAtMostOne
<1>4. Len(rfqs') >= Len(rfqs)  BY <1>2 DEF Onward
<1>5. ASSUME NEW i, IsPost(i)'
      PROVE  \/ IsPost(i) /\ instructions'[i].rfqId = instructions[i].rfqId
             \/ i = last /\ instructions'[i].rfqId = Len(rfqs) + 1 /\ Len(rfqs') = Len(rfqs) + 1
  BY <1>3, <1>5 DEF IsPost
<1>6. RoutingInv'
  <2>1. \A i \in 1..Len(instructions') : instructions'[i].to \in Machines
    BY <1>3 DEF RoutingInv
  <2>2. ASSUME NEW i, IsPost(i)' PROVE instructions'[i].rfqId \in 1..Len(rfqs')
    <3>1. CASE IsPost(i) /\ instructions'[i].rfqId = instructions[i].rfqId
      <4>1. instructions[i].rfqId \in 1..Len(rfqs)  BY <3>1 DEF RoutingInv
      <4>. QED  BY <1>1, <1>4, <3>1, <4>1
    <3>2. CASE instructions'[i].rfqId = Len(rfqs) + 1 /\ Len(rfqs') = Len(rfqs) + 1
      BY <1>1, <3>2
    <3>. QED  BY <1>5, <2>2, <3>1, <3>2
  <2>3. ASSUME NEW i, NEW j, IsPost(i)', IsPost(j)', instructions'[i].rfqId = instructions'[j].rfqId
        PROVE  i = j
    <3>1. \A k : IsPost(k) => instructions[k].rfqId # Len(rfqs) + 1
      BY <1>1 DEF RoutingInv
    <3>2. CASE IsPost(i) /\ IsPost(j) /\ instructions[i].rfqId = instructions[j].rfqId
      BY <3>2 DEF RoutingInv
    <3>. QED  BY <1>5, <2>3, <3>1, <3>2
  <2>. QED  BY <2>1, <2>2, <2>3 DEF RoutingInv, IsPost
<1>7. ASSUME NEW m, NEW id, Sent(m, id) PROVE Sent(m, id)'
  BY <1>1, <1>2, <1>7 DEF Sent, Posts, Onward
<1>. QED  BY <1>6, <1>7

(* An auction is sent to one machine.                                      *)
LEMMA OneMachine ==
    ASSUME RoutingInv, NEW m, NEW n, NEW id, Sent(m, id), Sent(n, id)
    PROVE  m = n
BY DEF RoutingInv, IsPost, Sent, Posts

-----------------------------------------------------------------------------
(***************************************************************************)
(* What a step leaves in the books: an outcome that is kept as long as the *)
(* machine runs, and no auction that was not sent there.                   *)
(***************************************************************************)
BooksKeep ==
    \A m \in Machines :
        /\ life[m] # "new" => life'[m] # "new"
        /\ life'[m] = "up" => life[m] \in {"new", "up"}
        /\ life'[m] = "up" =>
              \A id \in DOMAIN book[m] : book[m][id].cleared =>
                  /\ id \in DOMAIN book'[m]
                  /\ book'[m][id].cleared
                  /\ book'[m][id].outcome = book[m][id].outcome

BooksHold ==
    /\ DOMAIN life' = Machines
    /\ DOMAIN book' = Machines
    /\ \A m \in Machines : \A id \in DOMAIN book'[m] :
          Sent(m, id) /\ {"cleared", "outcome"} \subseteq DOMAIN book'[m][id]

BookStep == BooksKeep /\ BooksHold

(* A delivered POST_RFQ adds an auction its machine did not have.          *)
LEMMA PostDelivery ==
    ASSUME RoutingInv, BookInv, NEW i \in 1..Len(instructions), DeliverPost(i), Len(rfqs) \in Nat
    PROVE  BookStep
<1> DEFINE m == instructions[i].to
           id == instructions[i].rfqId
           req == PostRequest(instructions[i])
<1>1. m \in Machines /\ id \in 1..Len(rfqs) /\ Sent(m, id)
  BY DEF DeliverPost, RoutingInv, IsPost, Sent, Posts
<1>2. TEE!HandlePostRfq(m, req) /\ req.rfqId = id
  BY DEF DeliverPost, PostRequest
<1>3. id \notin DOMAIN book[m] /\ TEE!AssignedId(m, req.rfqId) = id
  BY <1>1, <1>2 DEF TEE!HandlePostRfq, TEE!MayPost, TEE!AssignedId
<1>4. /\ life' = life
      /\ book' = [book EXCEPT ![m] = TEE!Stored(@, id, TEE!NewRfq(req))]
  BY <1>2, <1>3 DEF TEE!HandlePostRfq
<1>5. {"cleared", "outcome"} \subseteq DOMAIN TEE!NewRfq(req)
  BY DEF TEE!NewRfq
<1> DEFINE new == TEE!NewRfq(req)
<1> HIDE DEF m, id, req, new
<1>6. /\ DOMAIN book'[m] = DOMAIN book[m] \cup {id}
      /\ book'[m][id] = new
      /\ \A k \in DOMAIN book[m] : book'[m][k] = book[m][k]
  BY <1>1, <1>3, <1>4 DEF TEE!Stored, BookInv, new
<1>7. DOMAIN book' = Machines /\ \A n \in Machines : n # m => book'[n] = book[n]
  BY <1>1, <1>4 DEF BookInv
<1>8. BooksKeep
  BY <1>4, <1>6, <1>7 DEF BooksKeep
<1>9. BooksHold
  BY <1>1, <1>4, <1>5, <1>6, <1>7 DEF BooksHold, BookInv, new
<1>. QED  BY <1>8, <1>9 DEF BookStep

(* A delivered COMMIT_BID changes neither whether an auction is cleared    *)
(* nor its outcome.                                                        *)
LEMMA CommitDelivery ==
    ASSUME RoutingInv, BookInv, NEW i \in 1..Len(instructions), DeliverCommit(i)
    PROVE  BookStep
<1> DEFINE m == instructions[i].to
           req == CommitRequest(instructions[i])
           id == req.rfqId
           r == [book[m][id] EXCEPT
                   !.recorded = Append(@, req.commitment),
                   !.openings = Append(@, TEE!OpenedBid(req))]
<1>1. m \in Machines  BY DEF RoutingInv
<1>2. TEE!HandleCommitBid(m, req)  BY DEF DeliverCommit
<1>3. id \in DOMAIN book[m] /\ life' = life  BY <1>2 DEF TEE!HandleCommitBid
<1>4. book' = [book EXCEPT ![m] = [book[m] EXCEPT ![id] = r]]
  BY <1>2 DEF TEE!HandleCommitBid
<1>5. {"cleared", "outcome"} \subseteq DOMAIN book[m][id]
  BY <1>1, <1>3 DEF BookInv
<1>6. /\ DOMAIN r = DOMAIN book[m][id]
      /\ r.cleared = book[m][id].cleared
      /\ r.outcome = book[m][id].outcome
  BY <1>5
<1> HIDE DEF m, req, id, r
<1>7. /\ DOMAIN book'[m] = DOMAIN book[m]
      /\ book'[m][id] = r
      /\ \A k \in DOMAIN book[m] : k # id => book'[m][k] = book[m][k]
  BY <1>1, <1>3, <1>4 DEF BookInv
<1>8. DOMAIN book' = Machines /\ \A n \in Machines : n # m => book'[n] = book[n]
  BY <1>1, <1>4 DEF BookInv
<1>9. BooksKeep
  BY <1>3, <1>6, <1>7, <1>8 DEF BooksKeep
<1>10. BooksHold
  BY <1>3, <1>6, <1>7, <1>8 DEF BooksHold, BookInv
<1>. QED  BY <1>9, <1>10 DEF BookStep

(* What clearing auction id on machine m answers and keeps.                *)
ClearsAs(m, id, a) ==
    /\ m \in Machines /\ a.signer = m /\ a.rfqId = id
    /\ life[m] = "up" /\ UNCHANGED life
    /\ Cleared(a) =>
          /\ id \in DOMAIN book[m] /\ id \in DOMAIN book'[m]
          /\ book'[m][id].cleared
          /\ AnswersAs(book'[m][id].outcome, a)

(* A delivered CLEAR_AUCTION answers what the book then keeps.             *)
LEMMA ClearDelivery ==
    ASSUME RoutingInv, BookInv, NEW i \in 1..Len(instructions), NEW tag, DeliverClear(i, tag)
    PROVE  /\ BookStep
           /\ \E a : /\ answers' = answers \cup {a}
                     /\ ClearsAs(instructions[i].to, instructions[i].rfqId, a)
<1> DEFINE m == instructions[i].to
           id == instructions[i].rfqId
<1>1. m \in Machines  BY DEF RoutingInv
<1>2. PICK screen : TEE!HandleClearAuction(m, id, i, tag, screen)
  BY DEF DeliverClear
<1> DEFINE out == TEE!ClearingOf(m, id, screen)
           a == TEE!Answer(m, i, tag, id, out)
           r == TEE!Close(book[m][id], out)
<1>3. /\ life[m] = "up" /\ life' = life
      /\ answers' = answers \cup {a}
      /\ book' = IF out.ok THEN [book EXCEPT ![m][id] = TEE!Close(@, out)] ELSE book
  BY <1>2 DEF TEE!HandleClearAuction
<1>4. id \notin DOMAIN book[m] => ~out.ok
  BY DEF TEE!ClearingOf, TEE!Refused
<1>5. (id \in DOMAIN book[m] /\ book[m][id].cleared) => out = book[m][id].outcome
  BY DEF TEE!ClearingOf
<1> HIDE DEF out
<1>6. a.signer = m /\ a.rfqId = id
  BY DEF TEE!Answer
<1>7. Cleared(a) => out.ok /\ AnswersAs(out, a)
  BY DEF TEE!Answer, Cleared, AnswersAs
<1>8. CASE ~out.ok
  <2>1. book' = book  BY <1>3, <1>8
  <2>2. BookStep  BY <1>3, <2>1 DEF BookStep, BooksKeep, BooksHold, BookInv
  <2>3. ClearsAs(m, id, a)  BY <1>1, <1>3, <1>6, <1>7, <1>8 DEF ClearsAs
  <2>. QED  BY <1>3, <2>2, <2>3
<1>9. CASE out.ok
  <2>1. id \in DOMAIN book[m]  BY <1>4, <1>9
  <2>2. {"cleared", "outcome"} \subseteq DOMAIN book[m][id]
    BY <1>1, <2>1 DEF BookInv
  <2>3. {"cleared", "outcome"} \subseteq DOMAIN r /\ r.cleared /\ r.outcome = out
    BY <2>2 DEF TEE!Close
  <2>4. book' = [book EXCEPT ![m] = [book[m] EXCEPT ![id] = r]]
    BY <1>3, <1>9 DEF TEE!Close
  <2> HIDE DEF m, id, r, a
  <2>5. /\ DOMAIN book'[m] = DOMAIN book[m]
        /\ book'[m][id] = r
        /\ \A k \in DOMAIN book[m] : k # id => book'[m][k] = book[m][k]
    BY <1>1, <2>1, <2>4 DEF BookInv
  <2>6. DOMAIN book' = Machines /\ \A n \in Machines : n # m => book'[n] = book[n]
    BY <1>1, <2>4 DEF BookInv
  <2>7. BooksKeep  BY <1>3, <1>5, <2>1, <2>3, <2>5, <2>6 DEF BooksKeep
  <2>8. BooksHold  BY <1>3, <2>3, <2>5, <2>6 DEF BooksHold, BookInv
  <2>9. ClearsAs(m, id, a)
    BY <1>1, <1>3, <1>6, <1>7, <2>1, <2>3, <2>5 DEF ClearsAs
  <2>. QED  BY <1>3, <2>7, <2>8, <2>9 DEF BookStep, m, id
<1>. QED  BY <1>8, <1>9

(* A step answers nothing, or one clearing.                                *)
AnswersOne ==
    \/ UNCHANGED answers
    \/ \E m, id, a : answers' = answers \cup {a} /\ ClearsAs(m, id, a)

(* Chain transactions leave the books alone; a machine that stops loses    *)
(* its book, and can clear nothing afterwards.                             *)
LEMMA EnclaveStep ==
    ASSUME ChainInv, RoutingInv, BookInv, [Next]_vars
    PROVE  BookStep /\ AnswersOne
<1>1. CASE UNCHANGED <<life, book, answers>>
  BY <1>1 DEF BookStep, BooksKeep, BooksHold, BookInv, AnswersOne
<1>2. CASE Delivery
  <2>1. Len(rfqs) \in Nat  BY SequenceDomain DEF ChainInv
  <2>2. PICK i \in 1..Len(instructions) : Deliver(i)
    BY <1>2, SequenceDomain DEF Delivery, ChainInv
  <2>3. CASE DeliverPost(i)
    <3>1. BookStep  BY <2>1, <2>3, PostDelivery
    <3>. QED  BY <2>3, <3>1 DEF AnswersOne, DeliverPost, TEE!HandlePostRfq
  <2>4. CASE DeliverCommit(i)
    <3>1. BookStep  BY <2>4, CommitDelivery
    <3>. QED  BY <2>4, <3>1 DEF AnswersOne, DeliverCommit, TEE!HandleCommitBid
  <2>5. ASSUME NEW tag \in Tags, DeliverClear(i, tag) PROVE BookStep /\ AnswersOne
    BY <2>5, ClearDelivery DEF AnswersOne
  <2>. QED  BY <2>2, <2>3, <2>4, <2>5 DEF Deliver
<1>3. CASE MachineStep
  <2>1. UNCHANGED answers
    BY <1>3 DEF MachineStep, TEE!Start, TEE!Stop
  <2>2. PICK m \in Machines : TEE!Start(m) \/ TEE!Stop(m)
    BY <1>3 DEF MachineStep
  <2>3. CASE TEE!Start(m)
    BY <2>1, <2>3 DEF TEE!Start, BookStep, BooksKeep, BooksHold, BookInv, AnswersOne
  <2>4. CASE TEE!Stop(m)
    <3>1. /\ life[m] = "up"
          /\ life' = [life EXCEPT ![m] = "gone"]
          /\ book' = [book EXCEPT ![m] = <<>>]
      BY <2>4 DEF TEE!Stop
    <3>2. BooksKeep  BY <3>1 DEF BooksKeep, BookInv
    <3>3. BooksHold  BY <3>1 DEF BooksHold, BookInv
    <3>. QED  BY <2>1, <3>2, <3>3 DEF BookStep, AnswersOne
  <2>. QED  BY <2>2, <2>3, <2>4
<1>. QED
  BY <1>1, <1>2, <1>3
     DEF Next, AuctionStep, TokenStep, AdminStep, Relay, RelayUnsigned, enclaveVars, vars

(* A new answer agrees with the book, and the book with older answers.     *)
LEMMA OutcomeStep ==
    ASSUME Inv, [Next]_vars
    PROVE  Inv'
<1>1. DeadlineInv' /\ ChainInv /\ ChainStep
  BY DeadlineStep, EveryStep DEF Inv, DeadlineInv
<1>2. RoutingInv' /\ \A m, id : Sent(m, id) => Sent(m, id)'
  BY <1>1, RoutingStep DEF Inv
<1>3. BookStep /\ AnswersOne
  BY <1>1, EnclaveStep DEF Inv
<1>4. BookInv'
  <2>1. \A m, id : Sent(m, id) => Sent(m, id)'  BY <1>2
  <2>. QED  BY <1>3, <2>1 DEF BookStep, BooksHold, BookInv
<1>5. ASSUME NEW a \in answers, Cleared(a) PROVE Keeps(a)'
  <2>1. Keeps(a)  BY <1>5 DEF Inv, OutcomeInv
  <2>. QED  BY <1>2, <1>3, <2>1 DEF Keeps, BookStep, BooksKeep, AnswersAs
<1>6. CASE UNCHANGED answers
  <2>1. OutcomeInv'  BY <1>5, <1>6 DEF Inv, OutcomeInv, Cleared, TEE!SameOutcome
  <2>. QED  BY <1>1, <1>2, <1>4, <2>1 DEF Inv
<1>7. ASSUME NEW m, NEW id, NEW a, answers' = answers \cup {a}, ClearsAs(m, id, a)
      PROVE  Inv'
  <2>1. ASSUME Cleared(a) PROVE Keeps(a)'
    <3>1. Sent(m, id)  BY <1>7, <2>1 DEF ClearsAs, Inv, BookInv
    <3>. QED  BY <1>2, <1>7, <2>1, <3>1 DEF ClearsAs, Keeps, AnswersAs
  <2>2. ASSUME NEW b \in answers, Cleared(a), Cleared(b), b.signer = a.signer, b.rfqId = a.rfqId
        PROVE  TEE!SameOutcome(a, b)
    <3>1. Keeps(b) /\ Keeps(b)'  BY <1>5, <2>2 DEF Inv, OutcomeInv
    <3>. QED  BY <1>7, <2>2, <3>1 DEF ClearsAs, Keeps, AnswersAs, TEE!SameOutcome
  <2>3. \A b \in answers' : Cleared(b) => Keeps(b)'
    BY <1>5, <1>7, <2>1
  <2>4. ASSUME NEW b \in answers', NEW c \in answers', Cleared(b), Cleared(c),
               b.signer = c.signer, b.rfqId = c.rfqId
        PROVE  TEE!SameOutcome(b, c)
    <3>1. CASE b \in answers /\ c \in answers
      BY <2>4, <3>1 DEF Inv, OutcomeInv
    <3>2. CASE b = a /\ c = a
      BY <3>2 DEF TEE!SameOutcome
    <3>3. CASE b = a /\ c \in answers
      BY <2>2, <2>4, <3>3
    <3>4. CASE b \in answers /\ c = a
      BY <2>2, <2>4, <3>4 DEF TEE!SameOutcome
    <3>. QED  BY <1>7, <3>1, <3>2, <3>3, <3>4
  <2>5. OutcomeInv'
    BY <2>3, <2>4 DEF OutcomeInv, Cleared, TEE!SameOutcome
  <2>. QED  BY <1>1, <1>2, <1>4, <2>5 DEF Inv
<1>. QED  BY <1>3, <1>6, <1>7 DEF AnswersOne

-----------------------------------------------------------------------------
(* The system starts with nothing posted, held or answered.                *)
LEMMA StartsEmpty ==
    Init => Inv
<1>1. Init => DeadlineInv
  <2>1. <<>> \in Seq({})  OBVIOUS
  <2>. QED  BY <2>1 DEF Init, ContractInit, EmptyDesk, TEE!EnclaveInit, DeadlineInv, ChainInv,
                   ClearsWhatIsOver, AnswersWhatIsOver, IsSequence
<1>. QED  BY <1>1 DEF Init, ContractInit, EmptyDesk, TEE!EnclaveInit, Inv, RoutingInv, IsPost, BookInv,
                     OutcomeInv

(* Across deliveries, machines and restarts, no two signed clearings of an *)
(* auction disagree on the winner, on the price or on the set cleared.     *)
THEOREM OneOutcome == Spec => []OneOutcomePerAuction
<1>1. Init => Inv
  BY StartsEmpty
<1>2. Inv /\ [Next]_vars => Inv'
  BY OutcomeStep
<1>3. Inv => OneOutcomePerAuction
  <2>1. ASSUME Inv, NEW a \in answers, NEW b \in answers, Cleared(a), Cleared(b), a.rfqId = b.rfqId
        PROVE  TEE!SameOutcome(a, b)
    <3>1. Keeps(a) /\ Keeps(b)  BY <2>1 DEF Inv, OutcomeInv
    <3>2. a.signer = b.signer  BY <2>1, <3>1, OneMachine DEF Keeps, Inv
    <3>. QED  BY <2>1, <3>2 DEF Inv, OutcomeInv
  <2>. QED  BY <2>1 DEF OneOutcomePerAuction
<1>. QED  BY <1>1, <1>2, <1>3, PTL DEF Spec

-----------------------------------------------------------------------------
(***************************************************************************)
(* The system implements SealedAuction.  What a machine holds of an        *)
(* auction is a sealed book under the reserve the contract passed on, so   *)
(* what it answers is the second price over what it recorded; the digest   *)
(* makes that what the contract recorded, before anything is paid.         *)
(***************************************************************************)
(* The engine as the system's machines run it, with what is proved of it.  *)
Engine == INSTANCE VickreyProofs WITH
    Bidders <- Users, Names <- Users, Limits <- {}, book <- <<>>, reserve <- 0, screen <- 0, outcome <- 0

LEMMA EngineAssumptions ==
    /\ Users \subseteq Users
    /\ Amounts \subseteq Nat /\ 0 \in Amounts /\ 0 \in Nonces
    /\ Hash \in [Engine!Opening -> Nat]
    /\ \A o, p \in Engine!Opening : Hash[o] = Hash[p] => o = p
    /\ {} \subseteq Nat
  BY AmountsAssumption, HashAssumption DEF TEE!Opening, Engine!Opening

LEMMA SameBag ==
    ASSUME NEW s
    PROVE  TEE!ToBag(s) = Engine!ToBag(s) /\ ToBag(s) = Engine!ToBag(s)
  BY DEF ToBag, TEE!ToBag, Engine!ToBag, Range, TEE!Range, Engine!Range,
         Cardinality, TEE!Cardinality, Engine!Cardinality

LEMMA SameRanking ==
    ASSUME NEW bids
    PROVE  TEE!Ranked(bids) = Engine!Ranked(bids)
  BY DEF TEE!Ranked, Engine!Ranked, TEE!Ahead, Engine!Ahead, TEE!Before, Engine!Before,
         TEE!Cardinality, Engine!Cardinality

LEMMA SameWalk ==
    ASSUME NEW recorded, NEW ranked, NEW floor, NEW who
    PROVE  TEE!Walk(recorded, ranked, floor, who) = Engine!Walk(recorded, ranked, floor, who)
<1>1. TEE!Stops(ranked, floor, who) = Engine!Stops(ranked, floor, who)
  BY DEF TEE!Stops, Engine!Stops, TEE!CanPay, Engine!CanPay, TEE!PriceAt, Engine!PriceAt
<1>2. \A S : TEE!Min(S) = Engine!Min(S)  BY DEF TEE!Min, Engine!Min
<1>3. \A i : TEE!PriceAt(ranked, i, floor) = Engine!PriceAt(ranked, i, floor)
  BY DEF TEE!PriceAt, Engine!PriceAt
<1>4. \A w, p : TEE!Awarded(w, p, recorded) = Engine!Awarded(w, p, recorded)
  BY SameBag DEF TEE!Awarded, Engine!Awarded, TEE!Digest, Engine!Digest
<1>. QED
  BY <1>1, <1>2, <1>3, <1>4 DEF TEE!Walk, Engine!Walk, TEE!Refused, Engine!Refused

LEMMA SameClearing ==
    ASSUME NEW recorded, NEW bids, NEW floor, NEW who
    PROVE  TEE!ClearScreened(recorded, bids, floor, who) =
               Engine!ClearScreened(recorded, bids, floor, who)
<1>1. \A b : TEE!Opens(b) <=> Engine!Opens(b)
  BY DEF TEE!Opens, Engine!Opens, TEE!Commit, Engine!Commit
<1>2. TEE!MatchesRecorded(recorded, bids) <=> Engine!MatchesRecorded(recorded, bids)
  BY SameBag DEF TEE!MatchesRecorded, Engine!MatchesRecorded
<1>. QED
  BY <1>1, <1>2, SameRanking, SameWalk
     DEF TEE!ClearScreened, Engine!ClearScreened, TEE!Refused, Engine!Refused

-----------------------------------------------------------------------------
(***************************************************************************)
(* A clearing that awards: the second price, over the openings of the      *)
(* commitments its digest stands for, to one that meets the reserve and,   *)
(* unless somebody may be passed over, to the best.                        *)
(***************************************************************************)
SecondPriceOver(bids, floor, out) ==
    /\ Engine!SealedBook(bids)
    /\ out.digest = Engine!ToBag(Engine!RecordedOf(bids))
    /\ \E b \in Engine!Range(bids) :
         /\ b.amount >= floor
         /\ Screened \/ \A x \in Engine!Range(bids) \ {b} : Engine!Before(b, x)
         /\ out.winner = b.bidder
         /\ out.price = Engine!Owed(Engine!Range(bids), floor, b)

AtSecondPrice(floor, out) == \E bids : SecondPriceOver(bids, floor, out)

LEMMA BidsOfBook ==
    ASSUME NEW bids, Engine!SealedBook(bids), NEW b \in Engine!Range(bids)
    PROVE  /\ b \in Engine!Bid /\ Engine!Opens(b) /\ b.addr = b.bidder
           /\ b.amount \in Amounts /\ b.amount \in Nat /\ b.bidder \in Users
<1>1. b \in Engine!Bid /\ Engine!Opens(b) /\ b.addr = b.bidder  BY DEF Engine!SealedBook, Engine!Range
<1>. QED  BY <1>1, AmountsAssumption DEF Engine!Bid

LEMMA ClearingIsFair ==
    ASSUME NEW bids, Engine!SealedBook(bids), NEW floor \in Nat, NEW who, ~Screened => ~who.on,
           TEE!ClearScreened(Engine!RecordedOf(bids), bids, floor, who).ok
    PROVE  AtSecondPrice(floor, TEE!ClearScreened(Engine!RecordedOf(bids), bids, floor, who))
<1> DEFINE out == TEE!ClearScreened(Engine!RecordedOf(bids), bids, floor, who)
           all == Engine!Range(bids)
           E == Engine!Entitled(all, floor, who)
<1>1. out = Engine!ClearScreened(Engine!RecordedOf(bids), bids, floor, who)
  BY SameClearing
<1> HIDE DEF out
<1>2. /\ bids = <<>> => out = Engine!Refused("NoBids") /\ all = {}
      /\ bids # <<>> /\ E = {} =>
            out = Engine!Refused(IF who.on THEN "NoSolventBid" ELSE "ReserveUnmet")
      /\ E # {} => \E b : Engine!Best(all, floor, who, b)
      /\ \A b : Engine!Best(all, floor, who, b) =>
            out = Engine!Awarded(b.bidder, Engine!Owed(all, floor, b), Engine!RecordedOf(bids))
  BY <1>1, Engine!ClearingOfBook, EngineAssumptions
<1>3. E # {}
  <2>1. SUFFICES ASSUME E = {} PROVE FALSE  OBVIOUS
  <2>2. out = Engine!Refused("NoBids") \/ out = Engine!Refused(IF who.on THEN "NoSolventBid" ELSE "ReserveUnmet")
    BY <1>2, <2>1
  <2>3. ~out.ok  BY <2>2 DEF Engine!Refused
  <2>. QED  BY <2>3 DEF out
<1>4. PICK b : Engine!Best(all, floor, who, b)  BY <1>2, <1>3
<1>5. out = Engine!Awarded(b.bidder, Engine!Owed(all, floor, b), Engine!RecordedOf(bids))
  BY <1>2, <1>4
<1>6. /\ b \in all /\ b.amount >= floor
      /\ \A x \in E \ {b} : Engine!Before(b, x)
  BY <1>4 DEF Engine!Best, Engine!Entitled
<1>7. \A x \in all : x.amount \in Nat
  BY BidsOfBook
<1>8. ASSUME ~Screened, NEW x \in all \ {b}  PROVE Engine!Before(b, x)
  <2>1. CASE x.amount >= floor
    <3>1. x \in E  BY <1>8, <2>1 DEF Engine!Entitled
    <3>. QED  BY <1>6, <1>8, <3>1
  <2>2. CASE ~(x.amount >= floor)
    BY <1>6, <1>7, <1>8, <2>2 DEF Engine!Before
  <2>. QED  BY <2>1, <2>2
<1>9. /\ out.digest = Engine!ToBag(Engine!RecordedOf(bids))
      /\ out.winner = b.bidder /\ out.price = Engine!Owed(all, floor, b)
  BY <1>5 DEF Engine!Awarded, Engine!Digest
<1>. QED  BY <1>6, <1>8, <1>9 DEF AtSecondPrice, SecondPriceOver, out

-----------------------------------------------------------------------------
(***************************************************************************)
(* The same in the terms of the promise: bids are openings, each known by  *)
(* its hash.                                                               *)
(***************************************************************************)
OpeningOf(b) == [amount |-> b.amount, nonce |-> b.nonce, bidder |-> b.bidder]

LEMMA OpeningsOfBook ==
    ASSUME NEW bids, Engine!SealedBook(bids), NEW cs,
           cs = {b.commitment : b \in Engine!Range(bids)}
    PROVE  /\ Promise!Opened(cs) = {OpeningOf(b) : b \in Engine!Range(bids)}
           /\ Cardinality(Promise!Opened(cs)) = Cardinality(cs)
           /\ \A b \in Engine!Range(bids) : Hash[OpeningOf(b)] = b.commitment
<1> DEFINE all == Engine!Range(bids)
           opened == Promise!Opened(cs)
<1>1. ASSUME NEW b \in all
      PROVE  b \in Engine!Bid /\ OpeningOf(b) \in Promise!Opening /\ Hash[OpeningOf(b)] = b.commitment
  <2>1. b \in Engine!Bid /\ Engine!Opens(b) /\ b.addr = b.bidder  BY BidsOfBook
  <2>. QED  BY <2>1 DEF Engine!Opens, Engine!Commit, Engine!Bid, OpeningOf, Promise!Opening
<1>2. \A o, p \in Promise!Opening : Hash[o] = Hash[p] => o = p
  BY HashAssumption DEF TEE!Opening, Promise!Opening
<1>3. opened = {OpeningOf(b) : b \in all}
  <2>1. ASSUME NEW o \in opened  PROVE \E b \in all : o = OpeningOf(b)
    <3>1. PICK b \in all : Hash[o] = b.commitment /\ o \in Promise!Opening
      BY DEF Promise!Opened
    <3>. QED  BY <1>1, <1>2, <3>1
  <2>2. \A b \in all : OpeningOf(b) \in opened  BY <1>1 DEF Promise!Opened
  <2>. QED  BY <2>1, <2>2
<1>4. Cardinality(opened) = Cardinality(cs)
  <2> DEFINE f == [o \in opened |-> Hash[o]]
  <2>1. f \in [opened -> cs]  BY DEF Promise!Opened
  <2>2. \A o, p \in opened : f[o] = f[p] => o = p  BY <1>2 DEF Promise!Opened
  <2>3. \A c \in cs : \E o \in opened : f[o] = c  BY <1>1, <1>3
  <2>4. f \in Bijection(opened, cs)
    BY <2>1, <2>2, <2>3 DEF Bijection, Injection, Surjection, IsInjective
  <2>5. IsFiniteSet(opened)
    <3>1. Len(bids) \in Nat /\ DOMAIN bids = 1..Len(bids)
      BY DEF Engine!SealedBook
    <3>2. IsFiniteSet(1..Len(bids))  BY <3>1, FS_Interval
    <3> DEFINE g == [i \in 1..Len(bids) |-> OpeningOf(bids[i])]
    <3>3. g \in [1..Len(bids) -> opened] /\ \A o \in opened : \E i \in 1..Len(bids) : g[i] = o
      BY <1>3, <3>1 DEF Engine!Range
    <3>4. g \in Surjection(1..Len(bids), opened)  BY <3>3 DEF Surjection
    <3>. QED  BY <3>2, <3>4, FS_Surjection
  <2> HIDE DEF f
  <2>. QED  BY <2>4, <2>5, FS_Bijection DEF ExistsBijection
<1>. QED  BY <1>1, <1>3, <1>4

(* What the promise says of an award to o, over the commitments cs.        *)
AwardsTo(cs, floor, a, o) ==
    /\ o.bidder = a.winner /\ a.winner \in Users /\ a.price \in Amounts
    /\ Promise!Cardinality(Promise!Opened(cs)) = Promise!Cardinality(cs)
    /\ o.amount >= floor
    /\ Screened \/ \A p \in Promise!Opened(cs) \ {o} : Promise!Outbids(o, p)
    /\ a.price = Promise!Max({floor} \cup
         {p.amount : p \in {q \in Promise!Opened(cs) : Promise!Outbids(o, q)}})

(* What such a clearing settles is what the promise awards.                *)
LEMMA FairIsAward ==
    ASSUME NEW a, NEW s, NEW floor \in Amounts, AtSecondPrice(floor, a), a.digest = ToBag(s)
    PROVE  \E o \in Promise!Opened(ToSet(s)) : AwardsTo(ToSet(s), floor, a, o)
<1>1. PICK bids : SecondPriceOver(bids, floor, a)  BY DEF AtSecondPrice
<1> DEFINE all == Engine!Range(bids)
           cs == ToSet(s)
           opened == Promise!Opened(cs)
<1>2. PICK b \in all :
         /\ b.amount >= floor
         /\ Screened \/ \A x \in all \ {b} : Engine!Before(b, x)
         /\ a.winner = b.bidder
         /\ a.price = Engine!Owed(all, floor, b)
  BY <1>1 DEF SecondPriceOver
<1>3. cs = {x.commitment : x \in all}
  <2>1. Engine!ToBag(s) = Engine!ToBag(Engine!RecordedOf(bids))
    BY <1>1, SameBag DEF SecondPriceOver
  <2>2. \A r : DOMAIN Engine!ToBag(r) = {r[i] : i \in DOMAIN r}
    BY DEF Engine!ToBag, Engine!Range
  <2>3. DOMAIN Engine!ToBag(s) = cs  BY <2>2 DEF ToSet
  <2> DEFINE r == Engine!RecordedOf(bids)
  <2>4. DOMAIN r = DOMAIN bids /\ \A i \in DOMAIN bids : r[i] = bids[i].commitment
    BY DEF Engine!RecordedOf
  <2>5. DOMAIN Engine!ToBag(r) = {r[i] : i \in DOMAIN r}  BY <2>2
  <2> HIDE DEF r
  <2>6. {r[i] : i \in DOMAIN r} = {x.commitment : x \in all}  BY <2>4 DEF Engine!Range
  <2>. QED  BY <2>1, <2>3, <2>5, <2>6 DEF r
<1>4. /\ opened = {OpeningOf(x) : x \in all}
      /\ Cardinality(opened) = Cardinality(cs)
      /\ \A x \in all : Hash[OpeningOf(x)] = x.commitment
  BY <1>1, <1>3, OpeningsOfBook DEF SecondPriceOver
<1>5. \A x, y \in all : Engine!Before(x, y) <=> Promise!Outbids(OpeningOf(x), OpeningOf(y))
  BY <1>4 DEF Engine!Before, Promise!Outbids, OpeningOf
<1>6. a.winner \in Users /\ a.price \in Amounts
  <2>1. a.winner \in Users /\ \A x \in all : x.amount \in Amounts
    BY <1>1, <1>2, BidsOfBook DEF SecondPriceOver
  <2>2. bids \in Seq(Engine!Bid) /\ Engine!Distinct(bids) /\ floor \in Nat
    BY <1>1, Engine!SealedIsDistinct, EngineAssumptions DEF SecondPriceOver, Engine!SealedBook
  <2> DEFINE owed == Engine!Owed(all, floor, b)
  <2>3. owed = floor \/ \E y \in all : owed = y.amount
    BY <2>2, Engine!OwedIs, EngineAssumptions
  <2> HIDE DEF owed, all
  <2>4. owed \in Amounts  BY <2>1, <2>3
  <2>. QED  BY <1>2, <2>1, <2>4 DEF owed
<1> DEFINE o == OpeningOf(b)
<1> HIDE DEF all, cs, opened
<1>7. o \in opened /\ o.bidder = b.bidder /\ o.amount = b.amount
  BY <1>2, <1>4 DEF OpeningOf
<1>8. Screened \/ \A p \in opened \ {o} : Promise!Outbids(o, p)
  BY <1>2, <1>4, <1>5
<1>9. {x.amount : x \in {y \in all : Engine!Before(b, y)}} =
         {p.amount : p \in {q \in opened : Promise!Outbids(o, q)}}
  <2>1. \A x \in all : OpeningOf(x).amount = x.amount /\ OpeningOf(x) \in opened
    BY <1>4 DEF OpeningOf
  <2>2. ASSUME NEW y \in all, Engine!Before(b, y)
        PROVE  \E q \in opened : Promise!Outbids(o, q) /\ q.amount = y.amount
    BY <1>2, <1>5, <2>1, <2>2
  <2>3. ASSUME NEW q \in opened, Promise!Outbids(o, q)
        PROVE  \E y \in all : Engine!Before(b, y) /\ q.amount = y.amount
    <3>1. PICK y \in all : q = OpeningOf(y)  BY <1>4
    <3>. QED  BY <1>2, <1>5, <2>1, <2>3, <3>1
  <2> HIDE DEF o
  <2>. QED  BY <2>2, <2>3
<1>10. a.price = Promise!Max({floor} \cup
                   {p.amount : p \in {q \in opened : Promise!Outbids(o, q)}})
  <2>1. \A S : Engine!Max(S) = Promise!Max(S)  BY DEF Engine!Max, Promise!Max
  <2>. QED  BY <1>2, <1>9, <2>1 DEF Engine!Owed, all
<1>11. Promise!Cardinality(opened) = Promise!Cardinality(cs)
  BY <1>4 DEF Cardinality, Promise!Cardinality
<1>12. AwardsTo(cs, floor, a, o)
  BY <1>2, <1>6, <1>7, <1>8, <1>10, <1>11 DEF AwardsTo, opened
<1>. QED  BY <1>7, <1>12 DEF opened, cs

-----------------------------------------------------------------------------
(***************************************************************************)
(* What is kept of every auction: the reserve its POST_RFQ carried, a      *)
(* clearing set without repetition, in each book openings that match what  *)
(* it recorded, and of a clearing, held or answered, that it is fair.      *)
(***************************************************************************)
SetInv ==
    /\ Len(rfqs) <= MaxRfqs
    /\ DOMAIN commitments = Ids /\ DOMAIN committed = Ids
    /\ \A id \in Ids : IsSequence(commitments[id]) /\ committed[id] = ToSet(commitments[id])

IsBody(ins) ==
    /\ ins.op = "POST_RFQ" => ins.body.sealed.reserve \in Amounts
    /\ ins.op = "COMMIT_BID" =>
          /\ ins.sender \in Users
          /\ ins.body.sealed.amount \in Amounts /\ ins.body.sealed.nonce \in Nonces

BodiesInv ==
    /\ \A i \in 1..Len(instructions) : IsBody(instructions[i])
    /\ \A id \in 1..Len(rfqs) : \E i : IsPost(i) /\ instructions[i].rfqId = id

IsHeld(floor, r) ==
    /\ {"reserve", "recorded", "openings", "cleared", "outcome"} \subseteq DOMAIN r
    /\ r.reserve = floor
    /\ ~r.cleared =>
          Engine!SealedBook(r.openings) /\ r.recorded = Engine!RecordedOf(r.openings)
    /\ r.cleared => AtSecondPrice(floor, r.outcome)

HeldInv == \A m \in Machines : \A id \in DOMAIN book[m] : IsHeld(FloorOf(id), book[m][id])

IsClearing(floor, a) ==
    {"winner", "price", "digest"} \subseteq DOMAIN a /\ AtSecondPrice(floor, a)

AnsweredInv == \A a \in answers : Cleared(a) => IsClearing(FloorOf(a.rfqId), a)

PromiseInv == SetInv /\ BodiesInv /\ HeldInv /\ AnsweredInv

(* The reserve of an auction is the one of its POST_RFQ.                   *)
LEMMA OnlyPost ==
    ASSUME NEW ins, NEW id, NEW i \in DOMAIN ins, ins[i].op = "POST_RFQ", ins[i].rfqId = id,
           \A j \in DOMAIN ins : ins[j].op = "POST_RFQ" /\ ins[j].rfqId = id => j = i
    PROVE  (CHOOSE j \in DOMAIN ins : ins[j].op = "POST_RFQ" /\ ins[j].rfqId = id) = i
  OBVIOUS

LEMMA FloorIs ==
    ASSUME ChainInv, RoutingInv, NEW id, NEW i, IsPost(i), instructions[i].rfqId = id
    PROVE  FloorOf(id) = instructions[i].body.sealed.reserve
<1>1. DOMAIN instructions = 1..Len(instructions) /\ Len(rfqs) \in Nat
  BY SequenceDomain DEF ChainInv
<1>2. id \in 1..Len(rfqs)  BY DEF RoutingInv
<1>3. ~(id > rfqCount)  BY <1>1, <1>2 DEF rfqCount
<1>4. i \in DOMAIN instructions /\ instructions[i].op = "POST_RFQ"  BY <1>1 DEF IsPost
<1>5. \A j \in DOMAIN instructions :
          instructions[j].op = "POST_RFQ" /\ instructions[j].rfqId = id => j = i
  BY <1>1 DEF RoutingInv, IsPost
<1>6. (CHOOSE j \in DOMAIN instructions :
          instructions[j].op = "POST_RFQ" /\ instructions[j].rfqId = id) = i
  BY <1>4, <1>5, OnlyPost
<1>. QED  BY <1>3, <1>6 DEF FloorOf

LEMMA FloorIsNext ==
    ASSUME ChainInv', RoutingInv', NEW id, NEW i, IsPost(i)', instructions'[i].rfqId = id
    PROVE  FloorOf(id)' = instructions'[i].body.sealed.reserve
<1>1. DOMAIN instructions' = 1..Len(instructions') /\ Len(rfqs') \in Nat
  BY SequenceDomain DEF ChainInv
<1>2. id \in 1..Len(rfqs')  BY DEF RoutingInv, IsPost
<1>3. ~(id > Len(rfqs'))  BY <1>1, <1>2
<1>4. i \in DOMAIN instructions' /\ instructions'[i].op = "POST_RFQ"  BY <1>1 DEF IsPost
<1>5. \A j \in DOMAIN instructions' :
          instructions'[j].op = "POST_RFQ" /\ instructions'[j].rfqId = id => j = i
  BY <1>1 DEF RoutingInv, IsPost
<1>6. (CHOOSE j \in DOMAIN instructions' :
          instructions'[j].op = "POST_RFQ" /\ instructions'[j].rfqId = id) = i
  BY <1>4, <1>5, OnlyPost
<1>. QED  BY <1>3, <1>6 DEF FloorOf, rfqCount

LEMMA FloorIsAmount ==
    ASSUME ChainInv, RoutingInv, BodiesInv, NEW id \in 1..Len(rfqs)
    PROVE  FloorOf(id) \in Amounts /\ FloorOf(id) \in Nat
<1>1. PICK i : IsPost(i) /\ instructions[i].rfqId = id  BY DEF BodiesInv
<1>2. FloorOf(id) = instructions[i].body.sealed.reserve  BY <1>1, FloorIs
<1>3. instructions[i].body.sealed.reserve \in Amounts
  BY <1>1 DEF BodiesInv, IsBody, IsPost
<1>. QED  BY <1>2, <1>3, AmountsAssumption

(***************************************************************************)
(* The chain.                                                              *)
(***************************************************************************)
(* What a step adds to the instructions, and to the auctions.              *)
AddsBodies ==
    /\ \A i \in 1..Len(instructions') : i > Len(instructions) => IsBody(instructions'[i])
    /\ \A id \in 1..Len(rfqs') : id > Len(rfqs) =>
          \E i \in 1..Len(instructions') :
              instructions'[i].op = "POST_RFQ" /\ instructions'[i].rfqId = id

LEMMA BodiesStep ==
    ASSUME ChainInv, ChainStep, RoutingInv, RoutingInv', BodiesInv, AddsBodies
    PROVE  /\ BodiesInv'
           /\ \A id \in 1..Len(rfqs) : FloorOf(id)' = FloorOf(id)
<1>1. Len(instructions) \in Nat /\ Len(rfqs) \in Nat /\ Len(instructions') \in Nat /\ Len(rfqs') \in Nat
  BY SequenceDomain DEF ChainInv, ChainStep
<1>2. /\ Len(instructions') >= Len(instructions) /\ Len(rfqs') >= Len(rfqs)
      /\ \A i \in 1..Len(instructions) : instructions'[i] = instructions[i]
  BY DEF ChainStep, Onward
<1>3. ASSUME NEW i, NEW id, IsPost(i), instructions[i].rfqId = id
      PROVE  IsPost(i)' /\ instructions'[i].rfqId = id /\ instructions'[i] = instructions[i]
  BY <1>1, <1>2, <1>3 DEF IsPost
<1>4. (\A i \in 1..Len(instructions) : IsBody(instructions[i]))'
  <2> SUFFICES ASSUME NEW i \in 1..Len(instructions') PROVE IsBody(instructions'[i])
    BY DEF IsBody
  <2>1. CASE i \in 1..Len(instructions)  BY <1>2, <2>1 DEF BodiesInv
  <2>2. CASE i > Len(instructions)  BY <2>2 DEF AddsBodies
  <2>. QED  BY <1>1, <2>1, <2>2
<1>5. ASSUME NEW id \in 1..Len(rfqs')  PROVE \E i : IsPost(i)' /\ instructions'[i].rfqId = id
  <2>1. CASE id \in 1..Len(rfqs)
    <3>1. PICK i : IsPost(i) /\ instructions[i].rfqId = id  BY <2>1 DEF BodiesInv
    <3>. QED  BY <1>3, <3>1
  <2>2. CASE id > Len(rfqs)
    BY <2>2 DEF AddsBodies, IsPost
  <2>. QED  BY <1>1, <2>1, <2>2
<1>6. BodiesInv'  BY <1>4, <1>5 DEF BodiesInv
<1>7. ASSUME NEW id \in 1..Len(rfqs)  PROVE FloorOf(id)' = FloorOf(id)
  <2>1. PICK i : IsPost(i) /\ instructions[i].rfqId = id  BY DEF BodiesInv
  <2>2. FloorOf(id) = instructions[i].body.sealed.reserve  BY <2>1, FloorIs
  <2>3. IsPost(i)' /\ instructions'[i].rfqId = id /\ instructions'[i] = instructions[i]
    BY <1>3, <2>1
  <2>4. FloorOf(id)' = instructions'[i].body.sealed.reserve
    BY <2>3, FloorIsNext DEF ChainStep
  <2>. QED  BY <2>2, <2>3, <2>4
<1>. QED  BY <1>6, <1>7

LEMMA SendingBody ==
    ASSUME NEW op, NEW caller, NEW id, NEW body, SendInstruction(op, caller, id, body), ChainInv
    PROVE  /\ Len(instructions) \in Nat /\ Len(instructions') = Len(instructions) + 1
           /\ LET last == instructions'[Len(instructions) + 1]
              IN  /\ last.op = op /\ last.sender = caller
                  /\ last.rfqId = id /\ last.body = body
<1>1. PICK m \in Machines : instructions' = Append(instructions,
               [op |-> op, sender |-> caller, rfqId |-> id, to |-> m, body |-> body])
  BY DEF SendInstruction
<1>2. Len(instructions) \in Nat  BY SequenceDomain DEF ChainInv
<1>. QED  BY <1>1, <1>2, SequenceAppend DEF ChainInv

(* A step that posts no auction and sends no bid adds nothing to either.   *)
LEMMA SetKept ==
    ASSUME ChainInv, SetInv, UNCHANGED <<commitments, committed>>, Len(rfqs') = Len(rfqs),
           \/ UNCHANGED instructions
           \/ \E caller, id, body : SendInstruction("CLEAR_AUCTION", caller, id, body)
    PROVE  SetInv' /\ AddsBodies
<1>1. Len(rfqs) \in Nat /\ Len(instructions) \in Nat  BY SequenceDomain DEF ChainInv
<1>2. SetInv'  BY DEF SetInv, IsSequence
<1>3. \A id \in 1..Len(rfqs') : ~(id > Len(rfqs))  BY <1>1
<1>4. CASE UNCHANGED instructions  BY <1>1, <1>2, <1>3, <1>4 DEF AddsBodies
<1>5. CASE \E caller, id, body : SendInstruction("CLEAR_AUCTION", caller, id, body)
  <2>1. PICK caller, id, body : SendInstruction("CLEAR_AUCTION", caller, id, body)  BY <1>5
  <2>2. /\ Len(instructions') = Len(instructions) + 1
        /\ instructions'[Len(instructions) + 1].op = "CLEAR_AUCTION"
    BY <2>1, SendingBody
  <2>3. \A i \in 1..Len(instructions') : i > Len(instructions) => i = Len(instructions) + 1
    BY <1>1, <2>2
  <2>. QED  BY <1>2, <1>3, <2>2, <2>3 DEF AddsBodies, IsBody
<1>. QED  BY <1>4, <1>5

LEMMA SetAtPost ==
    ASSUME ChainInv, SetInv, NEW u \in Sellers, PostBy(u)
    PROVE  SetInv' /\ AddsBodies
<1>1. PICK m \in Running, s \in SettleTokens, l \in LotTokens, lot \in Lots,
           d \in Deadlines, v \in Invitations, r \in Reserves :
          PostRfq(u, s, l, lot, d, v, [key |-> m, reserve |-> r])
  BY DEF PostBy
<1>2. /\ rfqCount < MaxRfqs /\ UNCHANGED <<commitments, committed>>
      /\ \E rfq : rfqs' = Append(rfqs, rfq)
      /\ SendInstruction("POST_RFQ", u, rfqCount + 1,
             [lot |-> lot, invited |-> v, sealed |-> [key |-> m, reserve |-> r]])
  BY <1>1 DEF PostRfq
<1>3. Len(rfqs) \in Nat /\ Len(rfqs') = Len(rfqs) + 1
  BY <1>2, SequenceDomain, SequenceAppend DEF ChainInv
<1>4. /\ Len(instructions) \in Nat /\ Len(instructions') = Len(instructions) + 1
      /\ LET last == instructions'[Len(instructions) + 1]
         IN  /\ last.op = "POST_RFQ" /\ last.rfqId = Len(rfqs) + 1
             /\ last.body.sealed.reserve = r
  BY <1>2, SendingBody DEF rfqCount
<1>5. \A i \in 1..Len(instructions') : i > Len(instructions) => i = Len(instructions) + 1
  BY <1>4
<1>6. \A id \in 1..Len(rfqs') : id > Len(rfqs) => id = Len(rfqs) + 1
  BY <1>3
<1>7. SetInv'
  <2>1. Len(rfqs') <= MaxRfqs  BY <1>2, <1>3, BoundsAssumption DEF rfqCount
  <2>. QED  BY <1>2, <2>1 DEF SetInv, IsSequence
<1>8. Len(instructions) + 1 \in 1..Len(instructions')  BY <1>4
<1>. QED  BY <1>4, <1>5, <1>6, <1>7, <1>8, AmountsAssumption DEF AddsBodies, IsBody

LEMMA SetAtBid ==
    ASSUME ChainInv, SetInv, NEW u \in Buyers, NEW id \in Ids, BidOn(u, id)
    PROVE  /\ SetInv' /\ AddsBodies
           /\ \E c \in Range(Hash) \cup BadCommitments :
                 /\ MayBid(u, id, c)
                 /\ ToSet(commitments'[id]) = ToSet(commitments[id]) \cup {c}
                 /\ \A j \in Ids : j # id => commitments'[j] = commitments[j]
<1>1. PICK m \in Running, amount \in Bids, nonce \in Nonces :
          \E c \in {TEE!Commit(amount, nonce, u)} \cup BadCommitments :
              CommitBid(u, id, c, SealedBid(m, u, id, amount, nonce, c))
  BY DEF BidOn
<1>2. PICK c \in {TEE!Commit(amount, nonce, u)} \cup BadCommitments :
          CommitBid(u, id, c, SealedBid(m, u, id, amount, nonce, c))
  BY <1>1
<1>3. /\ MayBid(u, id, c)
      /\ committed' = [committed EXCEPT ![id] = @ \cup {c}]
      /\ commitments' = [commitments EXCEPT ![id] = Append(@, c)]
      /\ SendInstruction("COMMIT_BID", u, id,
             [commitment |-> c, sealed |-> SealedBid(m, u, id, amount, nonce, c)])
      /\ UNCHANGED rfqs
  BY <1>2 DEF CommitBid
<1>4. u \in Users /\ amount \in Amounts
  BY RolesAssumption, AmountsAssumption
<1>5. c \in Range(Hash) \cup BadCommitments
  <2>1. TEE!Commit(amount, nonce, u) \in Range(Hash)
    <3>1. [amount |-> amount, nonce |-> nonce, bidder |-> u] \in TEE!Opening
      BY <1>4 DEF TEE!Opening
    <3>. QED  BY <3>1, HashAssumption DEF TEE!Commit, Range
  <2>. QED  BY <1>2, <2>1
<1>6. /\ IsSequence(Append(commitments[id], c))
      /\ ToSet(Append(commitments[id], c)) = ToSet(commitments[id]) \cup {c}
  <2>1. IsSequence(commitments[id])  BY DEF SetInv
  <2>2. PICK S : commitments[id] \in Seq(S)  BY <2>1 DEF IsSequence
  <2>3. commitments[id] \in Seq(S \cup {c})
    <3>1. commitments[id] \in [1..Len(commitments[id]) -> S] /\ Len(commitments[id]) \in Nat
      BY <2>2, LenProperties
    <3>2. commitments[id] \in [1..Len(commitments[id]) -> S \cup {c}]  BY <3>1
    <3>. QED  BY <3>1, <3>2
  <2>. QED  BY <2>1, <2>3, SequenceAppend, AppendExtends
<1>7. /\ commitments'[id] = Append(commitments[id], c)
      /\ committed'[id] = committed[id] \cup {c}
      /\ \A j \in Ids : j # id => commitments'[j] = commitments[j] /\ committed'[j] = committed[j]
      /\ DOMAIN commitments' = Ids /\ DOMAIN committed' = Ids
  BY <1>3 DEF SetInv
<1>8. SetInv'
  <2>1. \A j \in Ids : IsSequence(commitments'[j]) /\ committed'[j] = ToSet(commitments'[j])
    BY <1>6, <1>7 DEF SetInv
  <2>. QED  BY <1>3, <1>7, <2>1 DEF SetInv, IsSequence
<1>9. AddsBodies
  <2>1. /\ Len(instructions) \in Nat /\ Len(instructions') = Len(instructions) + 1
        /\ LET last == instructions'[Len(instructions) + 1]
           IN  /\ last.op = "COMMIT_BID" /\ last.sender = u
               /\ last.body.sealed.amount = amount /\ last.body.sealed.nonce = nonce
    BY <1>3, SendingBody DEF SealedBid
  <2>2. \A i \in 1..Len(instructions') : i > Len(instructions) => i = Len(instructions) + 1
    BY <2>1
  <2>3. \A j \in 1..Len(rfqs') : ~(j > Len(rfqs))
    BY <1>3, SequenceDomain DEF ChainInv
  <2>. QED  BY <1>1, <1>4, <2>1, <2>2, <2>3 DEF AddsBodies, IsBody
<1>. QED  BY <1>3, <1>5, <1>6, <1>7, <1>8, <1>9

LEMMA SetStep ==
    ASSUME ChainInv, ChainStep, SetInv, [Next]_vars
    PROVE  SetInv' /\ AddsBodies
<1>0. CASE UNCHANGED vars
  BY <1>0, SetKept DEF vars, contractVars, auctionVars
<1>1. CASE AuctionStep
  <2>1. ASSUME NEW u \in Sellers, PostBy(u) PROVE SetInv' /\ AddsBodies
    BY <2>1, SetAtPost
  <2>2. ASSUME NEW u \in Buyers, NEW id \in Ids, BidOn(u, id) PROVE SetInv' /\ AddsBodies
    BY <2>2, SetAtBid
  <2>3. ASSUME NEW id \in Ids, RequestClearing(id) PROVE SetInv' /\ AddsBodies
    BY <2>3, SetKept DEF RequestClearing, auctionVars
  <2>4. ASSUME NEW id \in Ids, ReclaimLot(id) PROVE SetInv' /\ AddsBodies
    <3>1. Len(rfqs') = Len(rfqs)
      BY <2>4, SequenceExcept DEF ReclaimLot, MayReclaim, CanClose, rfqCount, ChainInv, Updated
    <3>. QED  BY <2>4, <3>1, SetKept DEF ReclaimLot
  <2>5. CASE AdvanceBlock
    BY <2>5, SetKept DEF AdvanceBlock, auctionVars
  <2>. QED  BY <1>1, <2>1, <2>2, <2>3, <2>4, <2>5 DEF AuctionStep
<1>2. CASE TokenStep
  BY <1>2, SetKept DEF TokenStep, Approve, Transfer, auctionVars
<1>3. CASE AdminStep
  BY <1>3, SetKept DEF AdminStep, SetExtensionId, SetTeeAddress, Register, Pause, auctionVars
<1>4. CASE Delivery \/ MachineStep
  BY <1>4, SetKept DEF Delivery, Deliver, DeliverPost, DeliverCommit, DeliverClear, MachineStep,
                       contractVars, auctionVars
<1>5. CASE Relay \/ RelayUnsigned(Accounts, Nat)
  <2>1. PICK res : RelayClearing(res)  BY <1>5 DEF Relay, RelayUnsigned
  <2> DEFINE id == res.rfqId
  <2>2. id \in 1..Len(rfqs) /\ UNCHANGED <<commitments, committed, instructions>>
    BY <2>1 DEF RelayClearing, CanClose, rfqCount
  <2>3. \E r : rfqs' = Updated(rfqs, id, r)
    BY <2>1 DEF RelayClearing, Updated
  <2>4. Len(rfqs') = Len(rfqs)
    BY <2>2, <2>3, SequenceExcept DEF ChainInv
  <2>. QED  BY <2>2, <2>4, SetKept
<1>. QED  BY <1>0, <1>1, <1>2, <1>3, <1>4, <1>5 DEF Next

-----------------------------------------------------------------------------
(***************************************************************************)
(* The enclaves.                                                           *)
(***************************************************************************)
(* What a delivery leaves in the books.                                    *)
HoldsOn ==
    \A m \in Machines : \A id \in DOMAIN book'[m] :
        \/ id \in DOMAIN book[m] /\ book'[m][id] = book[m][id]
        \/ id \in 1..Len(rfqs) /\ IsHeld(FloorOf(id), book'[m][id])

(* A delivered POST_RFQ opens a book without bids, under the reserve it    *)
(* carried.                                                                *)
LEMMA PostHeld ==
    ASSUME ChainInv, RoutingInv, BookInv, BodiesInv, NEW i \in 1..Len(instructions), DeliverPost(i)
    PROVE  HoldsOn
<1> DEFINE m == instructions[i].to
           id == instructions[i].rfqId
           req == PostRequest(instructions[i])
           new == TEE!NewRfq(req)
<1>1. m \in Machines /\ id \in 1..Len(rfqs) /\ IsPost(i)
  BY DEF DeliverPost, RoutingInv, IsPost
<1>2. TEE!HandlePostRfq(m, req) /\ req.rfqId = id
  BY DEF DeliverPost, PostRequest
<1>3. id # 0  BY <1>1, SequenceDomain DEF ChainInv
<1>4. book' = [book EXCEPT ![m] = TEE!Stored(@, id, new)]
  BY <1>2, <1>3 DEF TEE!HandlePostRfq, TEE!AssignedId
<1>5. req.sealed.reserve = FloorOf(id)
  BY <1>1, FloorIs DEF PostRequest
<1>6. IsHeld(FloorOf(id), new)
  <2>1. Engine!SealedBook(<<>>)  BY DEF Engine!SealedBook
  <2>2. Engine!RecordedOf(<<>>) = <<>>  BY DEF Engine!RecordedOf
  <2>. QED  BY <1>5, <2>1, <2>2 DEF IsHeld, TEE!NewRfq
<1> HIDE DEF m, id, req, new
<1>7. /\ DOMAIN book'[m] = DOMAIN book[m] \cup {id}
      /\ book'[m][id] = new
      /\ \A k \in DOMAIN book[m] : k # id => book'[m][k] = book[m][k]
  BY <1>1, <1>4 DEF TEE!Stored, BookInv
<1>8. \A n \in Machines : n # m => book'[n] = book[n]
  BY <1>1, <1>4 DEF BookInv
<1>. QED  BY <1>1, <1>6, <1>7, <1>8 DEF HoldsOn

(* A delivered COMMIT_BID adds an opening of the commitment it adds, of a  *)
(* bidder that has none.                                                   *)
LEMMA CommitHeld ==
    ASSUME ChainInv, RoutingInv, BookInv, BodiesInv, HeldInv,
           NEW i \in 1..Len(instructions), DeliverCommit(i)
    PROVE  HoldsOn
<1> DEFINE m == instructions[i].to
           req == CommitRequest(instructions[i])
           id == req.rfqId
           new == TEE!OpenedBid(req)
           old == book[m][id]
           r == [old EXCEPT !.recorded = Append(@, req.commitment), !.openings = Append(@, new)]
<1>1. m \in Machines /\ TEE!HandleCommitBid(m, req)
  BY DEF RoutingInv, DeliverCommit
<1>2. /\ id \in DOMAIN book[m] /\ TEE!Admits(old, req) /\ TEE!Opens(new)
      /\ book' = [book EXCEPT ![m] = [book[m] EXCEPT ![id] = r]]
  BY <1>1 DEF TEE!HandleCommitBid
<1>3. id \in 1..Len(rfqs)
  BY <1>1, <1>2 DEF BookInv, Sent, Posts, RoutingInv, IsPost
<1>4. /\ instructions[i].sender \in Users
      /\ instructions[i].body.sealed.amount \in Amounts
      /\ instructions[i].body.sealed.nonce \in Nonces
  BY DEF BodiesInv, IsBody, DeliverCommit
<1>5. /\ new.bidder \in Users /\ new.amount \in Amounts /\ new.nonce \in Nonces
      /\ new.commitment = req.commitment /\ new.bidder = req.bidder /\ new.addr = new.bidder
  BY <1>4 DEF TEE!OpenedBid, CommitRequest, AsWritten
<1>6. new \in Engine!Bid /\ Engine!Opens(new)
  <2>1. [amount |-> new.amount, nonce |-> new.nonce, bidder |-> new.bidder] \in TEE!Opening
    BY <1>5 DEF TEE!Opening
  <2>2. new.commitment = Hash[[amount |-> new.amount, nonce |-> new.nonce, bidder |-> new.bidder]]
    BY <1>2, <1>5 DEF TEE!Opens, TEE!Commit
  <2>3. new.commitment \in Nat  BY <2>1, <2>2, HashAssumption
  <2>4. new = [commitment |-> new.commitment, bidder |-> new.bidder, addr |-> new.addr,
               amount |-> new.amount, nonce |-> new.nonce]
    BY DEF TEE!OpenedBid
  <2>. QED  BY <1>5, <2>2, <2>3, <2>4 DEF Engine!Bid, Engine!Commitment, Engine!Opens, Engine!Commit
<1>7. IsHeld(FloorOf(id), old) /\ ~old.cleared
      /\ \A k \in DOMAIN old.openings : old.openings[k].bidder # req.bidder
  BY <1>1, <1>2 DEF HeldInv, TEE!Admits
<1> HIDE DEF m, req, id, new, old
<1>8. new.bidder \notin Engine!BiddersOf(old.openings)
  BY <1>5, <1>7 DEF Engine!BiddersOf
<1>9. /\ Engine!SealedBook(Append(old.openings, new))
      /\ Engine!RecordedOf(Append(old.openings, new)) =
             Append(Engine!RecordedOf(old.openings), new.commitment)
  <2>1. Engine!SealedBook(old.openings)  BY <1>7 DEF IsHeld
  <2>. QED  BY <1>5, <1>6, <1>8, <2>1, Engine!AppendKeepsBook, EngineAssumptions
<1>10. IsHeld(FloorOf(id), r)
  <2>1. /\ DOMAIN r = DOMAIN old /\ r.reserve = old.reserve /\ r.cleared = old.cleared
        /\ r.recorded = Append(old.recorded, req.commitment)
        /\ r.openings = Append(old.openings, new)
    BY <1>7 DEF IsHeld
  <2> HIDE DEF r
  <2>. QED  BY <1>5, <1>7, <1>9, <2>1 DEF IsHeld
<1> HIDE DEF r
<1>11. /\ DOMAIN book'[m] = DOMAIN book[m]
       /\ book'[m][id] = r
       /\ \A k \in DOMAIN book[m] : k # id => book'[m][k] = book[m][k]
  BY <1>1, <1>2 DEF BookInv
<1>12. \A n \in Machines : n # m => book'[n] = book[n]
  BY <1>1, <1>2 DEF BookInv
<1>. QED  BY <1>3, <1>10, <1>11, <1>12 DEF HoldsOn

(* A fair outcome is fair in the answer it is handed on in.                *)
LEMMA HandedOn ==
    ASSUME NEW floor, NEW out, NEW a, AnswersAs(out, a), AtSecondPrice(floor, out)
    PROVE  AtSecondPrice(floor, a)
<1>1. PICK bids : SecondPriceOver(bids, floor, out)  BY DEF AtSecondPrice
<1>2. out.winner \in Users  BY <1>1, BidsOfBook DEF SecondPriceOver
<1>3. a.winner = out.winner /\ a.price = out.price /\ a.digest = out.digest
  BY <1>2 DEF AnswersAs, AsWritten
<1>4. SecondPriceOver(bids, floor, a)  BY <1>1, <1>3 DEF SecondPriceOver
<1>. QED  BY <1>4 DEF AtSecondPrice

FairAnswer(a) ==
    Cleared(a) => a.rfqId \in 1..Len(rfqs) /\ IsClearing(FloorOf(a.rfqId), a)

(* A delivered CLEAR_AUCTION answers the second price over the book, or    *)
(* what it answered before.                                                *)
LEMMA ClearHeld ==
    ASSUME ChainInv, RoutingInv, BookInv, BodiesInv, HeldInv,
           NEW i \in 1..Len(instructions), NEW tag, DeliverClear(i, tag)
    PROVE  HoldsOn /\ \E a : answers' = answers \cup {a} /\ FairAnswer(a)
<1> DEFINE m == instructions[i].to
           id == instructions[i].rfqId
<1>1. m \in Machines  BY DEF RoutingInv
<1>2. PICK screen \in ScreensFor(id) : TEE!HandleClearAuction(m, id, i, tag, screen)
  BY DEF DeliverClear
<1> DEFINE out == TEE!ClearingOf(m, id, screen)
           a == TEE!Answer(m, i, tag, id, out)
           old == book[m][id]
           r == TEE!Close(old, out)
<1>3. /\ answers' = answers \cup {a}
      /\ book' = IF out.ok THEN [book EXCEPT ![m][id] = TEE!Close(@, out)] ELSE book
  BY <1>2 DEF TEE!HandleClearAuction
<1>4. ~Screened => ~screen.on
  BY <1>2 DEF ScreensFor, TEE!NoScreen
<1>5. id \notin DOMAIN book[m] => ~out.ok
  BY DEF TEE!ClearingOf, TEE!Refused
<1>6. id \in DOMAIN book[m] =>
         out = IF old.cleared THEN old.outcome
               ELSE TEE!ClearScreened(old.recorded, old.openings, old.reserve, screen)
  BY DEF TEE!ClearingOf
<1> HIDE DEF out
<1>7. /\ a.rfqId = id
      /\ Cleared(a) => out.ok
      /\ out.ok => AnswersAs(out, a) /\ {"winner", "price", "digest"} \subseteq DOMAIN a
  BY DEF TEE!Answer, Cleared, AnswersAs
<1>8. CASE ~out.ok
  <2>1. book' = book  BY <1>3, <1>8
  <2>. QED  BY <1>3, <1>7, <1>8, <2>1 DEF HoldsOn, FairAnswer
<1>9. CASE out.ok
  <2>1. id \in DOMAIN book[m]  BY <1>5, <1>9
  <2>2. id \in 1..Len(rfqs)
    BY <1>1, <2>1 DEF BookInv, Sent, Posts, RoutingInv, IsPost
  <2>3. IsHeld(FloorOf(id), old)  BY <1>1, <2>1 DEF HeldInv
  <2>4. FloorOf(id) \in Nat  BY <2>2, FloorIsAmount
  <2>5. book' = [book EXCEPT ![m] = [book[m] EXCEPT ![id] = r]]
    BY <1>3, <1>9 DEF TEE!Close
  <2>6. /\ DOMAIN r = DOMAIN old /\ r.reserve = old.reserve
        /\ r.cleared /\ r.outcome = out
    BY <2>3 DEF TEE!Close, IsHeld
  <2> HIDE DEF m, id, old, r, a
  <2>7. AtSecondPrice(FloorOf(id), out)
    <3>1. CASE old.cleared  BY <1>6, <2>1, <2>3, <3>1 DEF IsHeld
    <3>2. CASE ~old.cleared
      <4> DEFINE bids == old.openings
                 floor == FloorOf(id)
      <4>1. /\ Engine!SealedBook(bids) /\ old.recorded = Engine!RecordedOf(bids)
            /\ old.reserve = floor
        BY <2>3, <3>2 DEF IsHeld
      <4> HIDE DEF bids, floor
      <4>2. out = TEE!ClearScreened(Engine!RecordedOf(bids), bids, floor, screen)
        BY <1>6, <2>1, <3>2, <4>1 DEF bids
      <4>3. floor \in Nat  BY <2>4 DEF floor
      <4>4. AtSecondPrice(floor, out)
        BY <1>4, <1>9, <4>1, <4>2, <4>3, ClearingIsFair
      <4>. QED  BY <4>4 DEF floor
    <3>. QED  BY <3>1, <3>2
  <2>8. IsHeld(FloorOf(id), r)  BY <2>3, <2>6, <2>7 DEF IsHeld
  <2>9. AtSecondPrice(FloorOf(id), a)  BY <1>7, <1>9, <2>7, HandedOn
  <2>10. FairAnswer(a)  BY <1>7, <1>9, <2>2, <2>9 DEF FairAnswer, IsClearing
  <2>11. /\ DOMAIN book'[m] = DOMAIN book[m]
         /\ book'[m][id] = r
         /\ \A k \in DOMAIN book[m] : k # id => book'[m][k] = book[m][k]
    BY <1>1, <2>1, <2>5 DEF BookInv
  <2>12. \A n \in Machines : n # m => book'[n] = book[n]
    BY <1>1, <2>5 DEF BookInv
  <2>13. HoldsOn  BY <2>2, <2>8, <2>11, <2>12 DEF HoldsOn
  <2>. QED  BY <1>3, <2>10, <2>13
<1>. QED  BY <1>8, <1>9

(* Every other step adds no auction to a book and answers nothing.         *)
LEMMA BooksHeld ==
    ASSUME ChainInv, RoutingInv, BookInv, BodiesInv, HeldInv, [Next]_vars
    PROVE  HoldsOn /\ (UNCHANGED answers \/ \E a : answers' = answers \cup {a} /\ FairAnswer(a))
<1>1. CASE UNCHANGED <<book, answers>>
  BY <1>1 DEF HoldsOn
<1>2. CASE Delivery
  <2>1. PICK i \in 1..Len(instructions) : Deliver(i)
    BY <1>2, SequenceDomain DEF Delivery, ChainInv
  <2>2. CASE DeliverPost(i)
    BY <2>2, PostHeld DEF DeliverPost, TEE!HandlePostRfq
  <2>3. CASE DeliverCommit(i)
    BY <2>3, CommitHeld DEF DeliverCommit, TEE!HandleCommitBid
  <2>4. ASSUME NEW tag \in Tags, DeliverClear(i, tag)
        PROVE  HoldsOn /\ \E a : answers' = answers \cup {a} /\ FairAnswer(a)
    BY <2>4, ClearHeld
  <2>. QED  BY <2>1, <2>2, <2>3, <2>4 DEF Deliver
<1>3. CASE MachineStep
  <2>1. PICK m \in Machines : TEE!Start(m) \/ TEE!Stop(m)
    BY <1>3 DEF MachineStep
  <2>2. CASE TEE!Start(m)  BY <2>2 DEF TEE!Start, HoldsOn
  <2>3. CASE TEE!Stop(m)
    <3>1. UNCHANGED answers /\ book' = [book EXCEPT ![m] = <<>>]  BY <2>3 DEF TEE!Stop
    <3>2. book'[m] = <<>> /\ \A n \in Machines : n # m => book'[n] = book[n]
      BY <3>1 DEF BookInv
    <3>. QED  BY <3>1, <3>2 DEF HoldsOn
  <2>. QED  BY <2>1, <2>2, <2>3
<1>. QED
  BY <1>1, <1>2, <1>3
     DEF Next, AuctionStep, TokenStep, AdminStep, Relay, RelayUnsigned, enclaveVars, vars

-----------------------------------------------------------------------------
(* All of it is kept by every step.                                        *)
LEMMA PromiseStep ==
    ASSUME Inv, Inv', PromiseInv, [Next]_vars
    PROVE  PromiseInv'
<1>1. ChainInv /\ ChainStep /\ RoutingInv /\ RoutingInv' /\ BookInv /\ BookInv'
  BY EveryStep DEF Inv, DeadlineInv
<1>2. SetInv' /\ AddsBodies
  BY <1>1, SetStep DEF PromiseInv
<1>3. BodiesInv' /\ \A id \in 1..Len(rfqs) : FloorOf(id)' = FloorOf(id)
  BY <1>1, <1>2, BodiesStep DEF PromiseInv
<1>4. HoldsOn /\ (UNCHANGED answers \/ \E a : answers' = answers \cup {a} /\ FairAnswer(a))
  BY <1>1, BooksHeld DEF PromiseInv
<1>5. HeldInv'
  <2>1. ASSUME NEW m \in Machines, NEW id \in DOMAIN book'[m]
        PROVE  IsHeld(FloorOf(id)', book'[m][id])
    <3>1. CASE id \in DOMAIN book[m] /\ book'[m][id] = book[m][id]
      <4>1. id \in 1..Len(rfqs)  BY <1>1, <3>1 DEF BookInv, Sent, Posts, RoutingInv, IsPost
      <4>. QED  BY <1>3, <3>1, <4>1 DEF PromiseInv, HeldInv
    <3>2. CASE id \in 1..Len(rfqs) /\ IsHeld(FloorOf(id), book'[m][id])
      BY <1>3, <3>2
    <3>. QED  BY <1>4, <3>1, <3>2 DEF HoldsOn
  <2>. QED  BY <2>1 DEF HeldInv
<1>6. AnsweredInv'
  <2>1. ASSUME NEW a \in answers', Cleared(a)  PROVE IsClearing(FloorOf(a.rfqId)', a)
    <3>1. a.rfqId \in 1..Len(rfqs) /\ IsClearing(FloorOf(a.rfqId), a)
      <4>1. CASE a \in answers
        BY <2>1, <4>1 DEF Inv, DeadlineInv, AnswersWhatIsOver, Over, rfqCount, PromiseInv, AnsweredInv
      <4>2. CASE FairAnswer(a)  BY <2>1, <4>2 DEF FairAnswer
      <4>. QED  BY <1>4, <4>1, <4>2
    <3>. QED  BY <1>3, <3>1
  <2>. QED  BY <2>1 DEF AnsweredInv, Cleared
<1>. QED  BY <1>2, <1>3, <1>5, <1>6 DEF PromiseInv

-----------------------------------------------------------------------------
(***************************************************************************)
(* The mapping, one auction at a time.                                     *)
(***************************************************************************)
SamePhases(S) == \A id \in S : PhaseOf(id)' = PhaseOf(id)
SameFloors(S) == \A id \in S : FloorOf(id)' = FloorOf(id)
SameSales(S)  == \A id \in S : SaleOf(id)' = SaleOf(id)
SameSets(S)   == \A id \in S : commitments'[id] = commitments[id]

LEMMA Stutters ==
    ASSUME SamePhases(Ids), SameFloors(Ids), SameSales(Ids), SameSets(Ids), UNCHANGED teeAddress
    PROVE  UNCHANGED Promise!sealedVars
BY DEF HasEnclave, SamePhases, SameFloors, SameSales, SameSets, Promise!sealedVars, ToSet

(* An auction that stays as it is keeps its phase while no block is mined, *)
(* its sale whatever happens.                                              *)
LEMMA AsItWas ==
    ASSUME NEW id, id > rfqCount <=> (id > rfqCount)', id \in 1..rfqCount <=> (id \in 1..rfqCount)',
           id \in 1..rfqCount => rfqs'[id] = rfqs[id], id > rfqCount \/ id \in 1..rfqCount
    PROVE  /\ SaleOf(id)' = SaleOf(id)
           /\ block' = block => PhaseOf(id)' = PhaseOf(id)
BY DEF SaleOf, PhaseOf, IsSold, rfqCount

LEMMA IdsArePosted ==
    ASSUME ChainInv, NEW id \in Ids
    PROVE  /\ Len(rfqs) \in Nat /\ id \in Nat
           /\ id > rfqCount \/ id \in 1..rfqCount
           /\ ~(id > rfqCount /\ id \in 1..rfqCount)
BY SequenceDomain, BoundsAssumption DEF ChainInv, Ids, rfqCount

(* The reserve of an auction never changes; of one not yet posted, none is *)
(* known.                                                                  *)
LEMMA FloorsKept ==
    ASSUME ChainInv, Len(rfqs') = Len(rfqs),
           \A id \in 1..Len(rfqs) : FloorOf(id)' = FloorOf(id)
    PROVE  SameFloors(Ids)
<1>1. ASSUME NEW id \in Ids, id > rfqCount  PROVE FloorOf(id)' = FloorOf(id)
  BY <1>1 DEF FloorOf, rfqCount
<1>. QED  BY <1>1, IdsArePosted DEF SameFloors, rfqCount

(* A step that leaves auctions, clearing sets and the block alone changes  *)
(* nothing of the promise.                                                 *)
LEMMA LeftAlone ==
    ASSUME ChainInv, UNCHANGED <<rfqs, block>>, \A id \in 1..Len(rfqs) : FloorOf(id)' = FloorOf(id)
    PROVE  SamePhases(Ids) /\ SameFloors(Ids) /\ SameSales(Ids)
<1>1. SameFloors(Ids)  BY FloorsKept
<1>. QED  BY <1>1, AsItWas, IdsArePosted DEF SamePhases, SameSales, rfqCount

LEMMA PostIsPost ==
    ASSUME ChainInv, ChainStep, RoutingInv', \A id \in 1..Len(rfqs) : FloorOf(id)' = FloorOf(id),
           NEW u \in Sellers, PostBy(u), UNCHANGED teeAddress
    PROVE  \E id \in Ids, r \in Amounts : Promise!Post(id, r)
<1>1. PICK m \in Running, s \in SettleTokens, l \in LotTokens, lot \in Lots,
           d \in Deadlines, v \in Invitations, r \in Reserves :
          PostRfq(u, s, l, lot, d, v, [key |-> m, reserve |-> r])
  BY DEF PostBy
<1>0. PICK id : id = Len(rfqs) + 1  OBVIOUS
<1> DEFINE new == [maker |-> u, settleToken |-> s, lotToken |-> l, lot |-> lot,
                   deadlineBlock |-> d, invited |-> v, cleared |-> FALSE,
                   winner |-> Nobody, clearingPrice |-> 0]
<1>2. /\ rfqs' = Append(rfqs, new) /\ d > block /\ Len(rfqs) < MaxRfqs
      /\ UNCHANGED <<block, commitments>>
      /\ SendInstruction("POST_RFQ", u, id,
             [lot |-> lot, invited |-> v, sealed |-> [key |-> m, reserve |-> r]])
  BY <1>0, <1>1 DEF PostRfq, rfqCount
<1>3. /\ Len(rfqs) \in Nat /\ Len(rfqs') = Len(rfqs) + 1 /\ rfqs'[id] = new
      /\ \A j \in 1..Len(rfqs) : rfqs'[j] = rfqs[j]
  BY <1>0, <1>2, SequenceDomain, SequenceAppend DEF ChainInv
<1>4. /\ ~new.cleared /\ new.deadlineBlock = d /\ d \in Nat /\ block \in Nat
  BY BoundsAssumption DEF Deadlines, ChainInv
<1> HIDE DEF new
<1>5. id \in Ids /\ id > Len(rfqs) /\ id \in 1..Len(rfqs') /\ ~(id > Len(rfqs')) /\ ~(id \in 1..Len(rfqs))
  BY <1>0, <1>2, <1>3, BoundsAssumption DEF Ids
<1>6. PhaseOf(id) = "unposted" /\ SaleOf(id) = <<>>
  BY <1>5 DEF PhaseOf, SaleOf, IsSold, rfqCount
<1>7. PhaseOf(id)' = "open" /\ SaleOf(id)' = <<>>
  BY <1>2, <1>3, <1>4, <1>5 DEF PhaseOf, SaleOf, IsSold, rfqCount
<1>8. ASSUME NEW j \in Ids \ {id}
      PROVE  PhaseOf(j)' = PhaseOf(j) /\ SaleOf(j)' = SaleOf(j) /\ FloorOf(j)' = FloorOf(j)
  <2>1. \/ j > rfqCount /\ (j > rfqCount)' /\ ~(j \in 1..rfqCount) /\ ~(j \in 1..rfqCount)'
        \/ ~(j > rfqCount) /\ ~(j > rfqCount)' /\ j \in 1..rfqCount /\ (j \in 1..rfqCount)'
    BY <1>0, <1>3, IdsArePosted DEF rfqCount
  <2>2. PhaseOf(j)' = PhaseOf(j) /\ SaleOf(j)' = SaleOf(j)
    BY <1>2, <1>3, <2>1, AsItWas DEF rfqCount
  <2>3. FloorOf(j)' = FloorOf(j)
    BY <2>1 DEF FloorOf, rfqCount
  <2>. QED  BY <2>2, <2>3
<1>9. FloorOf(id)' = r
  <2>0. PICK i : i = Len(instructions) + 1  OBVIOUS
  <2>1. /\ i \in Nat /\ i > 0 /\ Len(instructions') = i
        /\ instructions'[i].op = "POST_RFQ" /\ instructions'[i].rfqId = id
        /\ instructions'[i].body.sealed.reserve = r
    BY <1>2, <2>0, SendingBody
  <2>2. IsPost(i)'  BY <2>1 DEF IsPost
  <2>. QED  BY <2>1, <2>2, FloorIsNext DEF ChainStep
<1>10. r \in Amounts  BY AmountsAssumption
<1>11. Promise!Post(id, r)
  <2>1. SaleOf(id)' = SaleOf(id)  BY <1>6, <1>7
  <2>2. \A j \in Ids : SaleOf(j)' = SaleOf(j)  BY <1>8, <2>1
  <2>. QED  BY <1>2, <1>5, <1>6, <1>7, <1>8, <1>9, <2>2 DEF Promise!Post, HasEnclave
<1>. QED  BY <1>5, <1>10, <1>11

LEMMA BidIsSeal ==
    ASSUME ChainInv, SetInv, \A j \in 1..Len(rfqs) : FloorOf(j)' = FloorOf(j),
           NEW u \in Buyers, NEW id \in Ids, BidOn(u, id), UNCHANGED teeAddress
    PROVE  \E c \in Range(Hash) \cup BadCommitments : Promise!Seal(id, c)
<1>1. PICK c \in Range(Hash) \cup BadCommitments :
          /\ MayBid(u, id, c)
          /\ ToSet(commitments'[id]) = ToSet(commitments[id]) \cup {c}
          /\ \A j \in Ids : j # id => commitments'[j] = commitments[j]
  BY SetAtBid
<1>2. UNCHANGED <<rfqs, block>>
  <2>1. PICK m, amount, nonce, k :
            CommitBid(u, id, k, SealedBid(m, u, id, amount, nonce, k))
    BY DEF BidOn
  <2>. QED  BY <2>1 DEF CommitBid
<1>3. SamePhases(Ids) /\ SameFloors(Ids) /\ SameSales(Ids)
  BY <1>2, LeftAlone
<1>4. PhaseOf(id) = "open"
  <2>1. id \in 1..rfqCount /\ ~rfqs[id].cleared /\ ~(id > rfqCount)
    BY <1>1, IdsArePosted DEF MayBid
  <2>2. ~(block > rfqs[id].deadlineBlock)
    BY <1>1, <2>1 DEF MayBid, ChainInv, IsAuction, rfqCount
  <2>. QED  BY <2>1, <2>2 DEF PhaseOf, IsSold
<1>5. c \notin ToSet(commitments[id])
  BY <1>1 DEF MayBid, SetInv
<1>6. \A j \in Ids : ToSet(commitments'[j]) =
          IF j = id THEN ToSet(commitments[j]) \cup {c} ELSE ToSet(commitments[j])
  BY <1>1 DEF ToSet
<1>7. Promise!Seal(id, c)
  BY <1>3, <1>4, <1>5, <1>6 DEF Promise!Seal, SamePhases, SameFloors, SameSales, HasEnclave
<1>. QED  BY <1>7

(* A closed auction, and the others.                                       *)
LEMMA OneCloses ==
    ASSUME ChainInv, \A j \in 1..Len(rfqs) : FloorOf(j)' = FloorOf(j),
           NEW id \in 1..Len(rfqs), NEW r, rfqs' = Updated(rfqs, id, r), block' = block,
           Len(rfqs) <= MaxRfqs, ~rfqs[id].cleared, r.cleared
    PROVE  /\ id \in Ids /\ SaleOf(id) = <<>>
           /\ PhaseOf(id) = IF Over(id) THEN "sealed" ELSE "open"
           /\ PhaseOf(id)' = IF r.winner # Nobody THEN "sold" ELSE "returned"
           /\ SaleOf(id)' = IF r.winner # Nobody THEN <<r.winner, r.clearingPrice>> ELSE <<>>
           /\ SamePhases(Ids \ {id}) /\ SameSales(Ids \ {id}) /\ SameFloors(Ids)
<1>1. /\ Len(rfqs') = Len(rfqs) /\ rfqs'[id] = r /\ Len(rfqs) \in Nat
      /\ \A j \in 1..Len(rfqs) : j # id => rfqs'[j] = rfqs[j]
  BY SequenceExcept, SequenceDomain DEF ChainInv
<1>2. id \in Ids /\ ~(id > Len(rfqs))
  BY <1>1, BoundsAssumption DEF Ids
<1>3. SaleOf(id) = <<>> /\ PhaseOf(id) = IF Over(id) THEN "sealed" ELSE "open"
  BY <1>2 DEF PhaseOf, SaleOf, IsSold, Over, rfqCount
<1>4. /\ PhaseOf(id)' = IF r.winner # Nobody THEN "sold" ELSE "returned"
      /\ SaleOf(id)' = IF r.winner # Nobody THEN <<r.winner, r.clearingPrice>> ELSE <<>>
  BY <1>1, <1>2 DEF PhaseOf, SaleOf, IsSold, rfqCount
<1>5. SamePhases(Ids \ {id}) /\ SameSales(Ids \ {id})
  BY <1>1, AsItWas, IdsArePosted DEF SamePhases, SameSales, rfqCount
<1>6. SameFloors(Ids)  BY <1>1, FloorsKept
<1>. QED  BY <1>2, <1>3, <1>4, <1>5, <1>6

LEMMA ReclaimIsReturn ==
    ASSUME ChainInv, SetInv, \A j \in 1..Len(rfqs) : FloorOf(j)' = FloorOf(j),
           NEW id \in Ids, ReclaimLot(id), UNCHANGED teeAddress
    PROVE  Promise!Return(id)
<1> DEFINE r == [rfqs[id] EXCEPT !.cleared = TRUE]
<1>1. /\ id \in 1..Len(rfqs) /\ ~rfqs[id].cleared /\ Over(id)
      /\ rfqs' = Updated(rfqs, id, r) /\ UNCHANGED <<block, commitments>>
  BY DEF ReclaimLot, MayReclaim, CanClose, PastDeadline, Over, rfqCount, Updated
<1>2. r.cleared /\ r.winner = Nobody
  BY <1>1 DEF ChainInv, IsAuction
<1> HIDE DEF r
<1>3. /\ PhaseOf(id) = "sealed" /\ SaleOf(id) = <<>>
      /\ PhaseOf(id)' = "returned" /\ SaleOf(id)' = <<>>
      /\ SamePhases(Ids \ {id}) /\ SameSales(Ids \ {id}) /\ SameFloors(Ids)
  <2>1. Len(rfqs) <= MaxRfqs  BY DEF SetInv
  <2>. QED  BY <1>1, <1>2, <2>1, OneCloses
<1>4. \A j \in Ids : SaleOf(j)' = SaleOf(j)  BY <1>3 DEF SameSales
<1>. QED  BY <1>1, <1>3, <1>4 DEF Promise!Return, SamePhases, SameFloors, HasEnclave

(* Without an enclave, any result that settles is a seizure.               *)
LEMMA RelayIsSeize ==
    ASSUME ChainInv, SetInv, \A j \in 1..Len(rfqs) : FloorOf(j)' = FloorOf(j),
           NEW res, RelayClearing(res), ~HasEnclave, UNCHANGED teeAddress,
           res.winner \in Accounts, res.price \in Amounts
    PROVE  \E id \in Ids : Promise!Seize(id)
<1> DEFINE id == res.rfqId
           r == [rfqs[id] EXCEPT !.cleared = TRUE, !.winner = res.winner, !.clearingPrice = res.price]
<1>1. /\ id \in 1..Len(rfqs) /\ ~rfqs[id].cleared /\ UNCHANGED <<block, commitments>>
      /\ rfqs' = Updated(rfqs, id, r)
  BY DEF RelayClearing, CanClose, rfqCount, Updated
<1>2. r.cleared /\ r.winner = res.winner /\ r.clearingPrice = res.price
  BY <1>1 DEF ChainInv, IsAuction
<1> HIDE DEF id, r
<1>3. /\ id \in Ids /\ PhaseOf(id) \in {"open", "sealed"} /\ SaleOf(id) = <<>>
      /\ PhaseOf(id)' = IF res.winner # Nobody THEN "sold" ELSE "returned"
      /\ SaleOf(id)' = IF res.winner # Nobody THEN <<res.winner, res.price>> ELSE <<>>
      /\ SamePhases(Ids \ {id}) /\ SameSales(Ids \ {id}) /\ SameFloors(Ids)
  <2>1. Len(rfqs) <= MaxRfqs  BY DEF SetInv
  <2>. QED  BY <1>1, <1>2, <2>1, OneCloses
<1>4. \A j \in Ids : FloorOf(j)' = FloorOf(j) /\ ToSet(commitments'[j]) = ToSet(commitments[j])
  BY <1>1, <1>3 DEF SameFloors
<1>5. CASE res.winner = Nobody
  <2>1. \A j \in Ids : /\ PhaseOf(j)' = IF j = id THEN "returned" ELSE PhaseOf(j)
                       /\ SaleOf(j)' = SaleOf(j)
    BY <1>3, <1>5 DEF SamePhases, SameSales
  <2>2. Promise!Seize(id)  BY <1>3, <1>4, <2>1 DEF Promise!Seize, HasEnclave
  <2>. QED  BY <1>3, <2>2
<1>6. CASE res.winner # Nobody
  <2>1. \A j \in Ids : /\ PhaseOf(j)' = IF j = id THEN "sold" ELSE PhaseOf(j)
                       /\ SaleOf(j)' = IF j = id THEN <<res.winner, res.price>> ELSE SaleOf(j)
    BY <1>3, <1>6 DEF SamePhases, SameSales
  <2>2. res.winner \in Users \cup {Desk}  BY <1>6 DEF Accounts
  <2>3. Promise!Seize(id)  BY <1>3, <1>4, <2>1, <2>2 DEF Promise!Seize, HasEnclave
  <2>. QED  BY <1>3, <2>3
<1>. QED  BY <1>5, <1>6

(* With one, what settles is an award.                                     *)
LEMMA RelayIsAward ==
    ASSUME ChainInv, RoutingInv, SetInv, BodiesInv, AnsweredInv, AnswersWhatIsOver,
           \A j \in 1..Len(rfqs) : FloorOf(j)' = FloorOf(j), UNCHANGED teeAddress,
           NEW a \in answers, RelayClearing(Presented(a))
    PROVE  \E id \in Ids : Promise!Seize(id) \/ \E o \in Promise!Opening : Promise!Award(id, o)
<1> DEFINE res == Presented(a)
           id == a.rfqId
           r == [rfqs[id] EXCEPT !.cleared = TRUE, !.winner = a.winner, !.clearingPrice = a.price]
<1>1. IsAnswer(a) /\ Over(id)  BY DEF AnswersWhatIsOver
<1>2. res.rfqId = id /\ res.status = a.status
  BY <1>1 DEF IsAnswer, Presented
<1>3. Cleared(a)  BY <1>2 DEF RelayClearing, Authorised, Cleared
<1>4. IsClearing(FloorOf(id), a)  BY <1>3 DEF AnsweredInv
<1>5. res.winner = a.winner /\ res.price = a.price /\ res.digest = a.digest
  BY <1>4 DEF IsClearing, Presented
<1>6. /\ id \in 1..Len(rfqs) /\ ~rfqs[id].cleared
      /\ UNCHANGED <<block, commitments>> /\ a.digest = ToBag(commitments[id])
      /\ rfqs' = Updated(rfqs, id, r)
  BY <1>1, <1>2, <1>5
     DEF RelayClearing, CanClose, Authorised, CommitmentDigest, rfqCount, Updated
<1>7. r.cleared /\ r.winner = a.winner /\ r.clearingPrice = a.price
  BY <1>6 DEF ChainInv, IsAuction
<1> HIDE DEF res, r
<1>8. PICK o \in Promise!Opened(ToSet(commitments[id])) :
         AwardsTo(ToSet(commitments[id]), FloorOf(id), a, o)
  <2>1. FloorOf(id) \in Amounts /\ AtSecondPrice(FloorOf(id), a)
    BY <1>4, <1>6, FloorIsAmount DEF IsClearing
  <2> HIDE DEF id
  <2>. QED  BY <1>6, <2>1, FairIsAward
<1>9. a.winner # Nobody  BY <1>8, AccountsAssumption DEF AwardsTo
<1>10. /\ id \in Ids /\ PhaseOf(id) = "sealed"
       /\ PhaseOf(id)' = "sold" /\ SaleOf(id)' = <<a.winner, a.price>>
       /\ SamePhases(Ids \ {id}) /\ SameSales(Ids \ {id}) /\ SameFloors(Ids)
  <2>1. Len(rfqs) <= MaxRfqs  BY DEF SetInv
  <2>2. Over(id)  BY <1>1
  <2> HIDE DEF id
  <2>. QED  BY <1>6, <1>7, <1>9, <2>1, <2>2, OneCloses
<1> HIDE DEF id
<1>11. a.price = Promise!SecondPrice(id, o)
  BY <1>8, <1>10 DEF AwardsTo, Promise!SecondPrice
<1>12. CASE HasEnclave
  <2>1. \A j \in Ids : PhaseOf(j)' = IF j = id THEN "sold" ELSE PhaseOf(j)
    BY <1>10 DEF SamePhases
  <2>2. \A j \in Ids : SaleOf(j)' =
            IF j = id THEN <<o.bidder, Promise!SecondPrice(id, o)>> ELSE SaleOf(j)
    BY <1>8, <1>10, <1>11 DEF SameSales, AwardsTo
  <2>3. \A j \in Ids : FloorOf(j)' = FloorOf(j) /\ ToSet(commitments'[j]) = ToSet(commitments[j])
    BY <1>6, <1>10 DEF SameFloors
  <2>4. Promise!Award(id, o)
    BY <1>8, <1>10, <1>12, <2>1, <2>2, <2>3 DEF Promise!Award, AwardsTo, HasEnclave
  <2>5. o \in Promise!Opening  BY <1>8 DEF Promise!Opened
  <2>. QED  BY <1>10, <2>4, <2>5
<1>13. CASE ~HasEnclave
  <2>1. res.winner \in Accounts /\ res.price \in Amounts
    BY <1>5, <1>8 DEF AwardsTo, Accounts
  <2>2. RelayClearing(res)  BY DEF res
  <2>. QED  BY <1>13, <2>1, <2>2, RelayIsSeize
<1>. QED  BY <1>12, <1>13

LEMMA BlockClosesBidding ==
    ASSUME ChainInv, \A j \in 1..Len(rfqs) : FloorOf(j)' = FloorOf(j), AdvanceBlock,
           UNCHANGED teeAddress
    PROVE  \/ UNCHANGED Promise!sealedVars
           \/ \E ids \in SUBSET Ids : Promise!CloseBidding(ids)
<1> DEFINE ids == {id \in Ids : PhaseOf(id)' # PhaseOf(id)}
<1>1. UNCHANGED <<rfqs, commitments>> /\ block' = block + 1
  BY DEF AdvanceBlock, auctionVars
<1>2. SameFloors(Ids) /\ SameSales(Ids) /\ SameSets(Ids)
  BY <1>1, FloorsKept, AsItWas, IdsArePosted DEF SameSales, SameSets, rfqCount
<1>3. ASSUME NEW id \in ids  PROVE PhaseOf(id) = "open" /\ PhaseOf(id)' = "sealed"
  <2>1. id \in 1..rfqCount  BY <1>1, <1>3, IdsArePosted DEF PhaseOf, rfqCount
  <2>2. rfqs[id].deadlineBlock \in Nat /\ block \in Nat
    BY <2>1 DEF ChainInv, IsAuction, rfqCount
  <2>3. block > rfqs[id].deadlineBlock => block' > rfqs[id].deadlineBlock
    BY <1>1, <2>2
  <2>. QED  BY <1>1, <1>3, <2>1, <2>3 DEF PhaseOf, IsSold, rfqCount
<1>4. CASE ids = {}
  <2>1. SamePhases(Ids)  BY <1>4 DEF SamePhases
  <2>. QED  BY <1>2, <2>1, Stutters
<1>5. CASE ids # {}
  <2>1. \A id \in Ids : PhaseOf(id)' = IF id \in ids THEN "sealed" ELSE PhaseOf(id)
    BY <1>3
  <2>2. ids \in SUBSET Ids  OBVIOUS
  <2> HIDE DEF ids
  <2>3. Promise!CloseBidding(ids)
    BY <1>2, <1>3, <1>5, <2>1, <2>2
       DEF Promise!CloseBidding, SameFloors, SameSales, SameSets, ToSet, HasEnclave
  <2>. QED  BY <2>2, <2>3
<1>. QED  BY <1>4, <1>5

-----------------------------------------------------------------------------
(* Every step of the system is a step of the promise, or none.             *)
LEMMA MapsToPromise ==
    ASSUME Inv, Inv', PromiseInv, [Next]_vars
    PROVE  [Promise!Next]_(Promise!sealedVars)
<1>1. ChainInv /\ ChainStep /\ RoutingInv /\ RoutingInv' /\ AnswersWhatIsOver
  BY EveryStep DEF Inv, DeadlineInv
<1>2. \A id \in 1..Len(rfqs) : FloorOf(id)' = FloorOf(id)
  <2>1. AddsBodies  BY <1>1, SetStep DEF PromiseInv
  <2>. QED  BY <1>1, <2>1, BodiesStep DEF PromiseInv
<1>3. SetInv /\ BodiesInv /\ AnsweredInv  BY DEF PromiseInv
<1>4. CASE UNCHANGED <<rfqs, block, commitments, teeAddress>>
  <2>1. SameSets(Ids)  BY <1>4 DEF SameSets
  <2>. QED  BY <1>1, <1>2, <1>4, <2>1, LeftAlone, Stutters
<1>5. CASE AuctionStep
  <2>0. UNCHANGED teeAddress
    <3>1. ASSUME NEW u \in Sellers, PostBy(u) PROVE UNCHANGED teeAddress
      BY <3>1 DEF PostBy, PostRfq, setupVars
    <3>2. ASSUME NEW u \in Buyers, NEW id \in Ids, BidOn(u, id) PROVE UNCHANGED teeAddress
      BY <3>2 DEF BidOn, CommitBid, setupVars
    <3>3. ASSUME NEW id \in Ids, RequestClearing(id) \/ ReclaimLot(id) PROVE UNCHANGED teeAddress
      BY <3>3 DEF RequestClearing, ReclaimLot, setupVars
    <3>4. CASE AdvanceBlock
      BY <3>4 DEF AdvanceBlock, setupVars
    <3>. QED  BY <1>5, <3>1, <3>2, <3>3, <3>4 DEF AuctionStep
  <2>1. ASSUME NEW u \in Sellers, PostBy(u) PROVE [Promise!Next]_(Promise!sealedVars)
    BY <1>1, <1>2, <2>0, <2>1, PostIsPost DEF Promise!Next
  <2>2. ASSUME NEW u \in Buyers, NEW id \in Ids, BidOn(u, id)
        PROVE  [Promise!Next]_(Promise!sealedVars)
    BY <1>1, <1>2, <1>3, <2>0, <2>2, BidIsSeal DEF Promise!Next
  <2>3. ASSUME NEW id \in Ids, RequestClearing(id) PROVE [Promise!Next]_(Promise!sealedVars)
    BY <1>4, <2>0, <2>3 DEF RequestClearing, auctionVars
  <2>4. ASSUME NEW id \in Ids, ReclaimLot(id) PROVE [Promise!Next]_(Promise!sealedVars)
    BY <1>1, <1>2, <1>3, <2>0, <2>4, ReclaimIsReturn DEF Promise!Next
  <2>5. CASE AdvanceBlock
    BY <1>1, <1>2, <2>0, <2>5, BlockClosesBidding DEF Promise!Next
  <2>. QED  BY <1>5, <2>1, <2>2, <2>3, <2>4, <2>5 DEF AuctionStep
<1>6. CASE Relay
  <2>1. PICK a \in answers : RelayClearing(Presented(a))  BY <1>6 DEF Relay
  <2>2. UNCHANGED teeAddress  BY <2>1 DEF RelayClearing, setupVars
  <2>. QED  BY <1>1, <1>2, <1>3, <2>1, <2>2, RelayIsAward DEF Promise!Next
<1>11. CASE RelayUnsigned(Accounts, Nat)
  <2>0. PICK id \in 1..rfqCount : \E res \in Unsigned(id, Accounts, Nat) : RelayClearing(res)
    BY <1>11 DEF RelayUnsigned
  <2>1. PICK res \in Unsigned(id, Accounts, Nat) : RelayClearing(res)
    BY <2>0
  <2>2. UNCHANGED teeAddress /\ ~HasEnclave /\ res.winner \in Accounts /\ res.price \in Amounts
    BY <2>1 DEF RelayClearing, Authorised, Unsigned, HasEnclave, setupVars
  <2>. QED  BY <1>1, <1>2, <1>3, <2>1, <2>2, RelayIsSeize DEF Promise!Next
<1>7. CASE UNCHANGED vars
  BY <1>4, <1>7 DEF vars, contractVars, auctionVars, setupVars
<1>8. CASE TokenStep
  BY <1>4, <1>8 DEF TokenStep, Approve, Transfer, auctionVars, setupVars
<1>9. CASE AdminStep
  <2>1. CASE UNCHANGED teeAddress
    BY <1>4, <1>9, <2>1
       DEF AdminStep, SetExtensionId, SetTeeAddress, Register, Pause, auctionVars
  <2>2. ASSUME NEW u \in Users, NEW m \in Machines, SetTeeAddress(u, m), teeAddress' # teeAddress
        PROVE  [Promise!Next]_(Promise!sealedVars)
    <3>1. UNCHANGED <<rfqs, block, commitments>> /\ teeAddress' # Nobody
      BY <2>2, NobodyAssumption DEF SetTeeAddress, auctionVars
    <3>2. SamePhases(Ids) /\ SameFloors(Ids) /\ SameSales(Ids) /\ SameSets(Ids)
      BY <1>1, <1>2, <3>1, LeftAlone DEF SameSets
    <3>3. CASE HasEnclave
      <4>1. HasEnclave' = HasEnclave  BY <3>1, <3>3 DEF HasEnclave
      <4>. QED  BY <3>2, <4>1
                DEF SamePhases, SameFloors, SameSales, SameSets, Promise!sealedVars, ToSet
    <3>4. CASE ~HasEnclave
      <4>1. HasEnclave' = TRUE  BY <3>1 DEF HasEnclave
      <4>2. Promise!Trust
        BY <3>2, <3>4, <4>1
           DEF SamePhases, SameFloors, SameSales, SameSets, Promise!Trust, ToSet
      <4>. QED  BY <4>2 DEF Promise!Next
    <3>. QED  BY <3>3, <3>4
  <2>. QED  BY <1>9, <2>1, <2>2 DEF AdminStep, SetExtensionId, Register, Pause
<1>10. CASE Delivery \/ MachineStep
  BY <1>4, <1>10 DEF Delivery, Deliver, DeliverPost, DeliverCommit, DeliverClear, MachineStep,
                     contractVars, auctionVars, setupVars
<1>. QED  BY <1>5, <1>6, <1>7, <1>8, <1>9, <1>10, <1>11 DEF Next

LEMMA PromiseStarts ==
    Init => PromiseInv /\ Promise!Init
<1> SUFFICES ASSUME Init PROVE PromiseInv /\ Promise!Init  OBVIOUS
<1>1. /\ rfqs = <<>> /\ instructions = <<>> /\ answers = {} /\ block = 0
      /\ commitments = [id \in Ids |-> <<>>] /\ committed = [id \in Ids |-> {}]
      /\ book = [m \in Machines |-> <<>>]
  BY DEF Init, ContractInit, EmptyDesk, TEE!EnclaveInit
<1>2. <<>> \in Seq({}) /\ ToSet(<<>>) = {}  BY DEF ToSet
<1>3. PromiseInv
  BY <1>1, <1>2, BoundsAssumption
     DEF PromiseInv, SetInv, BodiesInv, HeldInv, AnsweredInv, IsSequence
<1>4. \A id \in Ids : id > rfqCount /\ ~(id \in 1..rfqCount)
  BY <1>1, BoundsAssumption DEF Ids, rfqCount
<1>5. \A id \in Ids : PhaseOf(id) = "unposted" /\ FloorOf(id) = 0 /\ SaleOf(id) = <<>>
  BY <1>4 DEF PhaseOf, FloorOf, SaleOf, IsSold
<1>6. Promise!Init
  BY <1>1, <1>2, <1>5 DEF Promise!Init, Promise!NoSale, HasEnclave
<1>. QED  BY <1>3, <1>6

(* From the moment the contract has an enclave to trust, what settles on   *)
(* it is what the promise awards: once, after the deadline, at the second  *)
(* price over every commitment it recorded.  Before that, whatever settles *)
(* closes an auction once and for good, and changes nothing else.          *)
THEOREM DeskKeepsPromise == Spec => KeepsPromise
<1>1. Init => Inv /\ PromiseInv /\ Promise!Init
  BY StartsEmpty, PromiseStarts
<1>2. Inv /\ [Next]_vars => Inv'
  BY OutcomeStep
<1>3. Inv /\ Inv' /\ PromiseInv /\ [Next]_vars => PromiseInv' /\ [Promise!Next]_(Promise!sealedVars)
  BY PromiseStep, MapsToPromise
<1>. QED  BY <1>1, <1>2, <1>3, PTL DEF Spec, KeepsPromise, Promise!Spec
=============================================================================
