--------------------------- MODULE EnclaveProofs ---------------------------
(***************************************************************************)
(* The enclave's book for every number of machines, bidders and auctions   *)
(* and every sequence of requests: what it records opens, what it cleared  *)
(* it has forgotten, and, until the store's sequence goes round, what it   *)
(* posted stays and what it answered first stands.                         *)
(***************************************************************************)
EXTENDS Enclave, LibraryFacts

-----------------------------------------------------------------------------
(***************************************************************************)
(* One auction of the book.                                                *)
(***************************************************************************)
RfqFields == {"maker", "reserve", "invited", "recorded", "openings", "cleared", "outcome"}

Terms(r) == r.maker \in Makers /\ r.reserve \in Amounts /\ r.invited \in Names \cup {Open}

BidsMatch(r) ==
    /\ r.recorded \in Seq(Commitment) /\ r.openings \in Seq(Bid)
    /\ Len(r.openings) = Len(r.recorded)
    /\ \A i \in DOMAIN r.openings :
          /\ r.openings[i].commitment = r.recorded[i]
          /\ r.openings[i].addr = HexToAddress[r.openings[i].bidder]
          /\ ~r.cleared => Opens(r.openings[i])
          /\ \A j \in DOMAIN r.openings : r.openings[i].bidder = r.openings[j].bidder => i = j

Outcome(r) ==
    /\ r.cleared \in BOOLEAN /\ r.cleared = r.outcome.ok
    /\ r.cleared => \A i \in DOMAIN r.openings : r.openings[i].amount = 0 /\ r.openings[i].nonce = 0

RfqOK(r) == RfqFields \subseteq DOMAIN r /\ Terms(r) /\ BidsMatch(r) /\ Outcome(r)

(* What an auction may become.                                             *)
Continues(r, s) ==
    /\ s.maker = r.maker /\ s.reserve = r.reserve /\ s.invited = r.invited
    /\ IsPrefix(r.recorded, s.recorded)
    /\ r.cleared => s.cleared /\ s.outcome = r.outcome

LEMMA NewRfqOK ==
    ASSUME NEW m, NEW req \in PostRfqRequest(m)
    PROVE  RfqOK(NewRfq(req))
<1>1. /\ req.maker \in Makers /\ req.sealed.reserve \in Amounts /\ req.invited \in Names \cup {Open}
  BY DEF PostRfqRequest
<1>2. <<>> \in Seq(Commitment) /\ <<>> \in Seq(Bid) /\ Len(<<>>) = 0 /\ DOMAIN <<>> = {}
  OBVIOUS
<1>3. NoOutcome.ok = FALSE  BY DEF NoOutcome, Refused
<1>. QED  BY <1>1, <1>2, <1>3 DEF NewRfq, RfqOK, RfqFields, Terms, BidsMatch, Outcome

(* A bid that is admitted opens, and is its bidder's first.                *)
WithBid(r, req) ==
    [r EXCEPT !.recorded = Append(@, req.commitment), !.openings = Append(@, OpenedBid(req))]

LEMMA BidOK ==
    ASSUME NEW m, NEW req \in CommitBidRequest(m), NEW r, RfqOK(r), Admits(r, req), Opens(OpenedBid(req))
    PROVE  RfqOK(WithBid(r, req)) /\ Continues(r, WithBid(r, req))
<1> DEFINE s == WithBid(r, req)
           b == OpenedBid(req)
           n == Len(r.openings)
<1>1. /\ req.commitment \in Commitment /\ b \in Bid /\ b.commitment = req.commitment
      /\ b.bidder = req.bidder /\ b.addr = HexToAddress[req.bidder]
  BY HexAssumption DEF CommitBidRequest, OpenedBid, Bid
<1>2. /\ DOMAIN s = DOMAIN r /\ s.maker = r.maker /\ s.reserve = r.reserve /\ s.invited = r.invited
      /\ s.cleared = r.cleared /\ s.outcome = r.outcome
      /\ s.recorded = Append(r.recorded, req.commitment) /\ s.openings = Append(r.openings, b)
  BY DEF RfqOK, RfqFields, WithBid
<1>3. ~r.cleared /\ \A i \in DOMAIN r.openings : r.openings[i].bidder # b.bidder
  BY <1>1 DEF Admits
<1> HIDE DEF s, b
<1>4. /\ s.recorded \in Seq(Commitment) /\ Len(s.recorded) = Len(r.recorded) + 1
      /\ \A i \in 1..Len(r.recorded) : s.recorded[i] = r.recorded[i]
      /\ s.recorded[Len(r.recorded) + 1] = req.commitment
      /\ IsPrefix(r.recorded, s.recorded)
  BY <1>1, <1>2, AppendProperties, AppendExtends DEF RfqOK, BidsMatch
<1>5. /\ s.openings \in Seq(Bid) /\ Len(s.openings) = n + 1
      /\ \A i \in 1..n : s.openings[i] = r.openings[i]
      /\ s.openings[n + 1] = b
  BY <1>1, <1>2, AppendProperties DEF RfqOK, BidsMatch
<1>6. /\ n \in Nat /\ DOMAIN r.openings = 1..n /\ DOMAIN s.openings = 1..(n + 1)
      /\ Len(r.recorded) = n
  BY <1>5, LenProperties DEF RfqOK, BidsMatch
<1> HIDE DEF n
<1>7. BidsMatch(s)
  <2>1. \A i \in 1..(n + 1) : i \in 1..n \/ i = n + 1  BY <1>6
  <2>2. ASSUME NEW i \in 1..(n + 1)
        PROVE  /\ s.openings[i].commitment = s.recorded[i] /\ Opens(s.openings[i])
               /\ s.openings[i].addr = HexToAddress[s.openings[i].bidder]
    <3>1. CASE i \in 1..n  BY <1>3, <1>4, <1>5, <1>6, <3>1 DEF RfqOK, BidsMatch
    <3>2. CASE i = n + 1  BY <1>1, <1>4, <1>5, <1>6, <3>2 DEF b
    <3>. QED  BY <2>1, <3>1, <3>2
  <2>3. ASSUME NEW i \in 1..(n + 1), NEW j \in 1..(n + 1), s.openings[i].bidder = s.openings[j].bidder
        PROVE  i = j
    <3>1. CASE i \in 1..n /\ j \in 1..n  BY <1>5, <1>6, <2>3, <3>1 DEF RfqOK, BidsMatch
    <3>2. \A k \in 1..n : s.openings[k].bidder # s.openings[n + 1].bidder  BY <1>3, <1>5, <1>6
    <3>. QED  BY <2>1, <2>3, <3>1, <3>2
  <2>. QED  BY <1>4, <1>5, <1>6, <2>2, <2>3 DEF BidsMatch
<1>8. Terms(s) /\ Outcome(s)
  BY <1>2, <1>3 DEF RfqOK, Terms, Outcome
<1>9. Continues(r, s)  BY <1>2, <1>3, <1>4 DEF Continues
<1>. QED  BY <1>2, <1>7, <1>8, <1>9 DEF RfqOK, s

(* A clearing forgets the amounts and keeps whose bids they were.          *)
LEMMA CloseOK ==
    ASSUME NEW r, NEW out, RfqOK(r), out.ok = TRUE, ~r.cleared \/ out = r.outcome
    PROVE  RfqOK(Close(r, out)) /\ Continues(r, Close(r, out))
           /\ Close(r, out).cleared /\ Close(r, out).outcome = out
<1> DEFINE s == Close(r, out)
<1>1. /\ DOMAIN s = DOMAIN r /\ s.maker = r.maker /\ s.reserve = r.reserve /\ s.invited = r.invited
      /\ s.recorded = r.recorded /\ s.cleared = TRUE /\ s.outcome = out
      /\ s.openings = Forget(r.openings)
  BY DEF Close, RfqOK, RfqFields
<1> HIDE DEF s
<1>2. /\ Len(r.openings) \in Nat /\ DOMAIN r.openings = 1..Len(r.openings)
      /\ \A i \in DOMAIN r.openings : r.openings[i] \in Bid
  BY LenProperties, ElementOfSeq DEF RfqOK, BidsMatch
<1>3. DOMAIN s.openings = DOMAIN r.openings
  BY <1>1 DEF Forget
<1>4. \A i \in DOMAIN r.openings :
          /\ s.openings[i] \in Bid
          /\ s.openings[i].commitment = r.openings[i].commitment
          /\ s.openings[i].bidder = r.openings[i].bidder /\ s.openings[i].addr = r.openings[i].addr
          /\ s.openings[i].amount = 0 /\ s.openings[i].nonce = 0
  <2> SUFFICES ASSUME NEW i \in DOMAIN r.openings
               PROVE  /\ s.openings[i] \in Bid
                      /\ s.openings[i].commitment = r.openings[i].commitment
                      /\ s.openings[i].bidder = r.openings[i].bidder
                      /\ s.openings[i].addr = r.openings[i].addr
                      /\ s.openings[i].amount = 0 /\ s.openings[i].nonce = 0
    OBVIOUS
  <2>1. s.openings[i] = [r.openings[i] EXCEPT !.amount = 0, !.nonce = 0]  BY <1>1 DEF Forget
  <2>2. r.openings[i] \in Bid /\ 0 \in Amounts /\ 0 \in Nonces
    BY <1>2, AmountsAssumption, NoncesAssumption
  <2>. QED  BY <2>1, <2>2 DEF Bid
<1>5. s.openings \in Seq(Bid) /\ Len(s.openings) = Len(r.openings)
  <2>1. s.openings \in [1..Len(r.openings) -> Bid]
    BY <1>1, <1>2, <1>3, <1>4 DEF Forget
  <2>2. s.openings \in Seq(Bid)  BY <1>2, <2>1
  <2>. QED  BY <1>2, <1>3, <2>2, LenProperties
<1>6. BidsMatch(s)
  BY <1>1, <1>3, <1>4, <1>5 DEF RfqOK, BidsMatch
<1>7. Outcome(s)  BY <1>1, <1>3, <1>4 DEF Outcome
<1>8. IsPrefix(r.recorded, r.recorded)
  BY DEF RfqOK, BidsMatch, IsPrefix
<1>9. Terms(s) /\ Continues(r, s)
  BY <1>1, <1>8 DEF RfqOK, Terms, Continues
<1>. QED  BY <1>1, <1>6, <1>7, <1>9 DEF RfqOK, s

(* The engine awards or refuses.                                           *)
LEMMA ClearOK ==
    ASSUME NEW recorded, NEW bids, NEW reserve, NEW screen
    PROVE  ClearScreened(recorded, bids, reserve, screen).ok \in BOOLEAN
<1>1. \A why : Refused(why).ok = FALSE  BY DEF Refused
<1>2. \A winner, price : Awarded(winner, price, recorded).ok = TRUE  BY DEF Awarded
<1>3. ASSUME NEW ranked PROVE Walk(recorded, ranked, reserve, screen).ok \in BOOLEAN
  BY <1>1, <1>2 DEF Walk
<1>. QED  BY <1>1, <1>3 DEF ClearScreened

-----------------------------------------------------------------------------
(***************************************************************************)
(* The books.  Until the sequence goes round, no id is above the last the  *)
(* store gave or was given, which is why a post it numbers itself replaces *)
(* nothing; and the post that takes it round is the first to get 0.        *)
(***************************************************************************)
BookInv ==
    /\ life \in [Machines -> {"new", "up", "gone"}]
    /\ next \in [Machines -> EnclaveId]
    /\ DOMAIN book = Machines
    /\ \A m \in Machines : \A id \in DOMAIN book[m] :
          id \in EnclaveId /\ RfqOK(book[m][id]) /\ (~WentRound(m) => id \in 1..next[m])

(* Machine m writes auction id, which becomes r, and no other.             *)
Writes(m, id, r) ==
    /\ m \in Machines /\ life[m] = "up" /\ life' = life
    /\ next' \in [Machines -> EnclaveId] /\ \A n \in Machines : next[n] <= next'[n] \/ WentRound(n)'
    /\ DOMAIN book' = Machines /\ \A n \in Machines : n # m => book'[n] = book[n]
    /\ DOMAIN book'[m] = DOMAIN book[m] \cup {id} /\ book'[m][id] = r
    /\ \A k \in DOMAIN book[m] : k # id => book'[m][k] = book[m][k]
    /\ id \in EnclaveId /\ (id \in 1..next'[m] \/ WentRound(m)') /\ RfqOK(r)
    /\ id \in DOMAIN book[m] /\ ~WentRound(m) => Continues(book[m][id], r)

LEMMA PostWrites ==
    ASSUME BookInv, NEW m \in Machines, NEW req \in PostRfqRequest(m), HandlePostRfq(m, req)
    PROVE  \E id, r : Writes(m, id, r)
<1> DEFINE id == AssignedId(m, req.rfqId)
           r == NewRfq(req)
           last == IF req.rfqId = 0 \/ id > next[m] THEN id ELSE next[m]
<1>1. /\ req.rfqId \in EnclaveId /\ next[m] \in EnclaveId
      /\ Words \in Nat /\ Words > 1 /\ RfqOK(r)
  BY WordsAssumption, NewRfqOK DEF BookInv, PostRfqRequest
<1>2. /\ life[m] = "up" /\ life' = life
      /\ next' = [next EXCEPT ![m] = last]
      /\ book' = [book EXCEPT ![m] = Stored(@, id, r)]
      /\ req.rfqId # 0 => req.rfqId \notin DOMAIN book[m]
  BY DEF HandlePostRfq, MayPost
<1>3. /\ id \in EnclaveId /\ (id \notin DOMAIN book[m] \/ WentRound(m))
      /\ last \in EnclaveId /\ (id = 0 \/ WentRound(m) \/ (next[m] <= last /\ id \in 1..last))
  <2>1. CASE req.rfqId = 0
    <3>1. id = (next[m] + 1) % Words  BY <2>1 DEF AssignedId
    <3>2. CASE next[m] = Words - 1
      <4>1. id = 0 /\ last = 0  BY <1>1, <2>1, <3>1, <3>2
      <4>. QED  BY <1>1, <4>1 DEF WentRound, EnclaveId
    <3>3. CASE next[m] # Words - 1
      <4>1. next[m] \in 0..(Words - 2)  BY <1>1, <3>3 DEF EnclaveId
      <4>2. (next[m] + 1) % Words = next[m] + 1  BY <1>1, <4>1
      <4>3. last = next[m] + 1 /\ id = next[m] + 1  BY <2>1, <3>1, <4>2
      <4>4. next[m] + 1 \notin 1..next[m]  BY <4>1
      <4>5. id \notin DOMAIN book[m] \/ WentRound(m)  BY <4>3, <4>4 DEF BookInv
      <4>. QED  BY <1>1, <4>1, <4>3, <4>5 DEF EnclaveId
    <3>. QED  BY <3>2, <3>3
  <2>2. CASE req.rfqId # 0
    <3>1. id = req.rfqId  BY <2>2 DEF AssignedId
    <3>. QED  BY <1>1, <1>2, <2>2, <3>1 DEF EnclaveId
  <2>. QED  BY <2>1, <2>2
<1> HIDE DEF id, r, last
<1>4. next' \in [Machines -> EnclaveId] /\ next'[m] = last /\ \A n \in Machines : n # m => next'[n] = next[n]
  BY <1>2, <1>3 DEF BookInv
<1>7. /\ DOMAIN book' = Machines /\ book'[m] = Stored(book[m], id, r)
      /\ \A n \in Machines : n # m => book'[n] = book[n]
  BY <1>2 DEF BookInv
<1>8. /\ DOMAIN book'[m] = DOMAIN book[m] \cup {id} /\ book'[m][id] = r
      /\ \A k \in DOMAIN book[m] : k # id => book'[m][k] = book[m][k]
  BY <1>7 DEF Stored
<1>9. id = 0 \/ WentRound(m) => WentRound(m)'
  BY <1>8 DEF WentRound
<1>10. \A n \in Machines : next[n] <= next'[n] \/ WentRound(n)'
  <2> SUFFICES ASSUME NEW n \in Machines  PROVE next[n] <= next'[n] \/ WentRound(n)'
    OBVIOUS
  <2>1. CASE n = m  BY <1>3, <1>4, <1>9, <2>1
  <2>2. CASE n # m  BY <1>4, <2>2 DEF BookInv, EnclaveId
  <2>. QED  BY <2>1, <2>2
<1>11. id \in 1..next'[m] \/ WentRound(m)'  BY <1>3, <1>4, <1>9
<1>. QED  BY <1>1, <1>2, <1>3, <1>4, <1>7, <1>8, <1>10, <1>11 DEF Writes

(* An update of one auction the book has.                                  *)
LEMMA UpdateWrites ==
    ASSUME BookInv, NEW m \in Machines, NEW id \in DOMAIN book[m], NEW r, life[m] = "up",
           UNCHANGED <<life, next>>, book' = [book EXCEPT ![m] = [book[m] EXCEPT ![id] = r]],
           RfqOK(r), Continues(book[m][id], r)
    PROVE  Writes(m, id, r)
<1>1. /\ DOMAIN book' = Machines /\ book'[m] = [book[m] EXCEPT ![id] = r]
      /\ \A n \in Machines : n # m => book'[n] = book[n]
  BY DEF BookInv
<1>2. /\ DOMAIN book'[m] = DOMAIN book[m] \cup {id} /\ book'[m][id] = r
      /\ \A k \in DOMAIN book[m] : k # id => book'[m][k] = book[m][k]
  BY <1>1
<1>3. /\ next' \in [Machines -> EnclaveId] /\ id \in EnclaveId
      /\ id \in 1..next'[m] \/ WentRound(m)'
      /\ \A n \in Machines : next[n] <= next'[n]
  BY <1>2 DEF BookInv, EnclaveId, WentRound
<1>. QED  BY <1>1, <1>2, <1>3 DEF Writes

LEMMA CommitWrites ==
    ASSUME BookInv, NEW m \in Machines, NEW req \in CommitBidRequest(m), HandleCommitBid(m, req)
    PROVE  \E id, r : Writes(m, id, r)
<1> DEFINE id == req.rfqId
           r == WithBid(book[m][id], req)
<1>1. /\ life[m] = "up" /\ UNCHANGED <<life, next>> /\ id \in DOMAIN book[m]
      /\ Opens(OpenedBid(req)) /\ Admits(book[m][id], req)
      /\ book' = [book EXCEPT ![m] = [book[m] EXCEPT ![id] = r]]
  BY DEF HandleCommitBid, WithBid
<1>2. RfqOK(r) /\ Continues(book[m][id], r)
  BY <1>1, BidOK DEF BookInv
<1> HIDE DEF id, r
<1>. QED  BY <1>1, <1>2, UpdateWrites

(* What a clearing answers: the outcome the book has kept, and keeps, with *)
(* the winner's address for its name.                                      *)
AnswersAs(a, out) ==
    a.winner = HexToAddress[out.winner] /\ a.price = out.price /\ a.digest = out.digest

Answered(m, id, a) ==
    /\ m \in Machines /\ life[m] = "up" /\ life' = life
    /\ a.signer = m /\ a.rfqId = id
    /\ a.status = 1 =>
          /\ id \in DOMAIN book'[m] /\ book'[m][id].cleared
          /\ AnswersAs(a, book'[m][id].outcome)
    /\ (id \in DOMAIN book[m] /\ book[m][id].cleared) => a.status = 1 /\ AnswersAs(a, book[m][id].outcome)

LEMMA ClearWrites ==
    ASSUME BookInv, NEW m \in Machines, NEW id, NEW actionId, NEW tag, NEW screen,
           HandleClearAuction(m, id, actionId, tag, screen)
    PROVE  /\ UNCHANGED <<life, book, next>> \/ \E r : Writes(m, id, r)
           /\ \E a : answers' = answers \cup {a} /\ Answered(m, id, a)
<1> DEFINE out == ClearingOf(m, id, screen)
           a == Answer(m, actionId, tag, id, out)
           r == Close(book[m][id], out)
<1>1. /\ life[m] = "up" /\ UNCHANGED <<life, next>>
      /\ answers' = answers \cup {a}
      /\ book' = IF out.ok THEN [book EXCEPT ![m][id] = Close(@, out)] ELSE book
  BY DEF HandleClearAuction
<1>2. /\ id \notin DOMAIN book[m] => out.ok = FALSE
      /\ (id \in DOMAIN book[m] /\ book[m][id].cleared) => out = book[m][id].outcome
      /\ (id \in DOMAIN book[m] /\ ~book[m][id].cleared) => out.ok \in BOOLEAN
  BY ClearOK DEF ClearingOf, Refused
<1>3. id \in DOMAIN book[m] => RfqOK(book[m][id]) /\ book[m][id].cleared \in BOOLEAN
                                 /\ book[m][id].cleared = book[m][id].outcome.ok
  BY DEF BookInv, RfqOK, Outcome
<1>4. out.ok \in BOOLEAN /\ ((id \in DOMAIN book[m] /\ book[m][id].cleared) => out.ok)
  BY <1>2, <1>3
<1> HIDE DEF out
<1>5. /\ a.signer = m /\ a.rfqId = id
      /\ a.status = 1 <=> out.ok
      /\ out.ok => AnswersAs(a, out)
  BY <1>4 DEF Answer, AnswersAs
<1>6. CASE ~out.ok
  <2>1. book' = book  BY <1>1, <1>6
  <2>2. Answered(m, id, a)  BY <1>1, <1>4, <1>5, <1>6 DEF Answered
  <2>. QED  BY <1>1, <2>1, <2>2
<1>7. CASE out.ok
  <2>1. id \in DOMAIN book[m] /\ out.ok = TRUE  BY <1>2, <1>4, <1>7
  <2>2. RfqOK(r) /\ Continues(book[m][id], r) /\ r.cleared /\ r.outcome = out
    BY <1>2, <1>3, <2>1, CloseOK
  <2>3. book' = [book EXCEPT ![m] = [book[m] EXCEPT ![id] = r]]
    BY <1>1, <1>7
  <2> HIDE DEF r, a
  <2>4. Writes(m, id, r)  BY <1>1, <2>1, <2>2, <2>3, UpdateWrites
  <2>5. Answered(m, id, a)
    <3>1. id \in DOMAIN book'[m] /\ book'[m][id] = r  BY <2>4 DEF Writes
    <3>. QED  BY <1>1, <1>2, <1>5, <1>7, <2>2, <3>1 DEF Answered
  <2>. QED  BY <1>1, <2>4, <2>5
<1>. QED  BY <1>4, <1>6, <1>7

(* Every step is a machine's start or stop, or writes one auction at most  *)
(* and answers once at most.                                               *)
BookStep ==
    \/ UNCHANGED <<life, book, next>>
    \/ UNCHANGED answers /\ \E m \in Machines : Start(m) \/ Stop(m)
    \/ \E m, id, r : Writes(m, id, r)

AnswerStep == UNCHANGED answers \/ \E m, id, a : answers' = answers \cup {a} /\ Answered(m, id, a)

LEMMA EnclaveStep ==
    ASSUME BookInv, [EnclaveNext]_enclaveVars
    PROVE  BookStep /\ AnswerStep
<1>1. CASE UNCHANGED enclaveVars
  BY <1>1 DEF enclaveVars, BookStep, AnswerStep
<1>2. ASSUME NEW m \in Machines, Start(m) \/ Stop(m)  PROVE BookStep /\ AnswerStep
  BY <1>2 DEF Start, Stop, BookStep, AnswerStep
<1>3. ASSUME NEW m \in Machines, NEW req \in PostRfqRequest(m), HandlePostRfq(m, req)
      PROVE  BookStep /\ AnswerStep
  <2>1. UNCHANGED answers  BY <1>3 DEF HandlePostRfq
  <2>. QED  BY <1>3, <2>1, PostWrites DEF BookStep, AnswerStep
<1>4. ASSUME NEW m \in Machines, NEW req \in CommitBidRequest(m), HandleCommitBid(m, req)
      PROVE  BookStep /\ AnswerStep
  <2>1. UNCHANGED answers  BY <1>4 DEF HandleCommitBid
  <2>. QED  BY <1>4, <2>1, CommitWrites DEF BookStep, AnswerStep
<1>5. ASSUME NEW m \in Machines, NEW id, NEW a, NEW tag, NEW s, HandleClearAuction(m, id, a, tag, s)
      PROVE  BookStep /\ AnswerStep
  BY <1>5, ClearWrites DEF BookStep, AnswerStep
<1>. QED  BY <1>1, <1>2, <1>3, <1>4, <1>5 DEF EnclaveNext, processDirect

LEMMA BookInvKept ==
    ASSUME BookInv, [EnclaveNext]_enclaveVars
    PROVE  BookInv'
<1>1. CASE UNCHANGED <<life, book, next>>
  BY <1>1 DEF BookInv, WentRound
<1>2. ASSUME NEW m \in Machines, Start(m) \/ Stop(m)  PROVE BookInv'
  <2>1. CASE Start(m)  BY <2>1 DEF Start, BookInv, WentRound
  <2>2. CASE Stop(m)
    <3>1. /\ life' = [life EXCEPT ![m] = "gone"] /\ next' = [next EXCEPT ![m] = 0]
          /\ book' = [book EXCEPT ![m] = <<>>]
      BY <2>2 DEF Stop
    <3>2. /\ life' \in [Machines -> {"new", "up", "gone"}] /\ next' \in [Machines -> EnclaveId]
      BY <3>1, WordsAssumption DEF BookInv, EnclaveId
    <3>3. /\ DOMAIN book' = Machines /\ DOMAIN book'[m] = {}
          /\ \A n \in Machines : n # m => book'[n] = book[n] /\ next'[n] = next[n]
      BY <3>1 DEF BookInv
    <3>. QED  BY <3>2, <3>3 DEF BookInv, WentRound
  <2>. QED  BY <1>2, <2>1, <2>2
<1>3. ASSUME NEW m, NEW id, NEW r, Writes(m, id, r)  PROVE BookInv'
  <2>1. /\ life' \in [Machines -> {"new", "up", "gone"}] /\ next' \in [Machines -> EnclaveId]
        /\ DOMAIN book' = Machines
    BY <1>3 DEF Writes, BookInv
  <2>2. ASSUME NEW n \in Machines, NEW k \in DOMAIN book'[n]
        PROVE  k \in EnclaveId /\ RfqOK(book'[n][k]) /\ (~WentRound(n)' => k \in 1..next'[n])
    <3>1. CASE n = m /\ k = id  BY <1>3, <3>1 DEF Writes
    <3>2. CASE ~(n = m /\ k = id)
      <4>1. k \in DOMAIN book[n] /\ book'[n][k] = book[n][k]  BY <1>3, <2>2, <3>2 DEF Writes
      <4>2. k \in EnclaveId /\ RfqOK(book[n][k]) /\ (~WentRound(n) => k \in 1..next[n])
        BY <4>1 DEF BookInv
      <4>3. next[n] \in Nat /\ next'[n] \in Nat /\ (next[n] <= next'[n] \/ WentRound(n)')
        BY <1>3 DEF Writes, BookInv, EnclaveId
      <4>4. WentRound(n) => WentRound(n)'  BY <1>3 DEF Writes, WentRound
      <4>. QED  BY <4>1, <4>2, <4>3, <4>4
    <3>. QED  BY <3>1, <3>2
  <2>. QED  BY <2>1, <2>2 DEF BookInv
<1>. QED  BY <1>1, <1>2, <1>3, EnclaveStep DEF BookStep

(***************************************************************************)
(* The answers that cleared: the machine that signed one keeps its outcome *)
(* as long as it runs and its sequence has not gone round.                 *)
(***************************************************************************)
AnswerInv ==
    \A b \in answers : b.status = 1 =>
        /\ b.signer \in Machines /\ life[b.signer] # "new"
        /\ life[b.signer] = "up" /\ ~WentRound(b.signer) =>
              /\ b.rfqId \in DOMAIN book[b.signer] /\ book[b.signer][b.rfqId].cleared
              /\ AnswersAs(b, book[b.signer][b.rfqId].outcome)

EnclaveInv == BookInv /\ AnswerInv

LEMMA AnswerInvKept ==
    ASSUME EnclaveInv, [EnclaveNext]_enclaveVars
    PROVE  AnswerInv'
<1> USE DEF EnclaveInv
<1>1. ASSUME NEW b \in answers, b.status = 1
      PROVE  /\ b.signer \in Machines /\ life'[b.signer] # "new"
             /\ life'[b.signer] = "up" /\ ~WentRound(b.signer)' =>
                   /\ b.rfqId \in DOMAIN book'[b.signer] /\ book'[b.signer][b.rfqId].cleared
                   /\ AnswersAs(b, book'[b.signer][b.rfqId].outcome)
  <2> DEFINE m == b.signer
  <2>1. /\ m \in Machines /\ life[m] # "new"
        /\ life[m] = "up" /\ ~WentRound(m) =>
              /\ b.rfqId \in DOMAIN book[m] /\ book[m][b.rfqId].cleared
              /\ AnswersAs(b, book[m][b.rfqId].outcome)
    BY <1>1 DEF AnswerInv
  <2> HIDE DEF m
  <2>2. CASE UNCHANGED <<life, book, next>>
    BY <2>1, <2>2 DEF m, WentRound
  <2>3. ASSUME NEW n \in Machines, Start(n) \/ Stop(n)
        PROVE  /\ life'[m] # "new"
               /\ life'[m] = "up" => /\ life[m] = "up" /\ book'[m] = book[m]
                                     /\ WentRound(m)' <=> WentRound(m)
    BY <2>1, <2>3 DEF Start, Stop, BookInv, WentRound
  <2>4. ASSUME NEW n, NEW id, NEW r, Writes(n, id, r), life[m] = "up", ~WentRound(m)'
        PROVE  /\ ~WentRound(m)
               /\ b.rfqId \in DOMAIN book'[m] /\ book'[m][b.rfqId].cleared
               /\ book'[m][b.rfqId].outcome = book[m][b.rfqId].outcome
    <3>1. ~WentRound(m)  BY <2>1, <2>4 DEF Writes, WentRound
    <3>. QED  BY <2>1, <2>4, <3>1 DEF Writes, Continues
  <2>5. CASE \E n, id, r : Writes(n, id, r)
    <3>1. life' = life  BY <2>5 DEF Writes
    <3>. QED  BY <2>1, <2>4, <2>5, <3>1 DEF m
  <2>. QED  BY <2>1, <2>2, <2>3, <2>5, EnclaveStep DEF BookStep, m
<1>2. CASE UNCHANGED answers
  BY <1>1, <1>2 DEF AnswerInv
<1>3. ASSUME NEW m, NEW id, NEW a, answers' = answers \cup {a}, Answered(m, id, a)
      PROVE  AnswerInv'
  BY <1>1, <1>3 DEF AnswerInv, Answered
<1>. QED  BY <1>2, <1>3, EnclaveStep DEF AnswerStep

LEMMA EnclaveInvHolds == EnclaveSpec => []EnclaveInv
<1>1. EnclaveInit => EnclaveInv
  BY WordsAssumption DEF EnclaveInit, EnclaveInv, BookInv, AnswerInv, EnclaveId
<1>2. EnclaveInv /\ [EnclaveNext]_enclaveVars => EnclaveInv'
  BY BookInvKept, AnswerInvKept DEF EnclaveInv
<1>. QED  BY <1>1, <1>2, PTL DEF EnclaveSpec

-----------------------------------------------------------------------------
(* Every auction of every book keeps its types, and has an outcome to      *)
(* answer a second delivery with exactly when it is cleared.               *)
THEOREM EnclaveTyped == EnclaveSpec => []EnclaveTypeOK
<1>1. EnclaveInv => EnclaveTypeOK
  <2> SUFFICES ASSUME EnclaveInv PROVE EnclaveTypeOK  OBVIOUS
  <2>1. ASSUME NEW m \in Machines, NEW id \in DOMAIN book[m]
        PROVE  id \in EnclaveId /\ RfqOK(book[m][id])
    BY DEF EnclaveInv, BookInv
  <2>. QED  BY <2>1 DEF EnclaveInv, BookInv, RfqOK, Terms, BidsMatch, Outcome, EnclaveTypeOK
<1>. QED  BY <1>1, EnclaveInvHolds, PTL

(* Clearing never meets a mismatch it could have refused at the bid: every *)
(* opening held opens a commitment recorded, under the address its         *)
(* bidder's string stands for, and there is one for each string.           *)
THEOREM OpeningsMatch == EnclaveSpec => []OpeningsMatchRecorded
<1>1. EnclaveInv => OpeningsMatchRecorded
  BY DEF EnclaveInv, BookInv, RfqOK, BidsMatch, OpeningsMatchRecorded
<1>. QED  BY <1>1, EnclaveInvHolds, PTL

(* What a clearing forgot no later request puts back.                      *)
THEOREM ClearedForgets == EnclaveSpec => []ClearedHoldsNoAmount
<1>1. EnclaveInv => ClearedHoldsNoAmount
  BY DEF EnclaveInv, BookInv, RfqOK, Outcome, ClearedHoldsNoAmount
<1>. QED  BY <1>1, EnclaveInvHolds, PTL

(* A posted auction keeps its terms and its bids while the process runs    *)
(* and the store's sequence has not gone round: until then no other        *)
(* auction takes its place.                                                *)
THEOREM NeverReplaced == EnclaveSpec => PostedNeverReplaced
<1>1. ASSUME EnclaveInv, [EnclaveNext]_enclaveVars,
             NEW m \in Machines, NEW id \in DOMAIN book[m], life'[m] = "up", ~WentRound(m)
      PROVE  id \in DOMAIN book'[m] /\ Continues(book[m][id], book'[m][id])
  <2>1. RfqOK(book[m][id])  BY <1>1 DEF EnclaveInv, BookInv
  <2>2. Continues(book[m][id], book[m][id])
    BY <2>1 DEF Continues, RfqOK, BidsMatch, IsPrefix
  <2>3. CASE UNCHANGED <<life, book, next>>  BY <2>2, <2>3
  <2>4. ASSUME NEW n \in Machines, Start(n) \/ Stop(n)  PROVE book'[m] = book[m]
    BY <1>1, <2>4 DEF Start, Stop, EnclaveInv, BookInv
  <2>5. ASSUME NEW n, NEW k, NEW r, Writes(n, k, r)
        PROVE  id \in DOMAIN book'[m] /\ Continues(book[m][id], book'[m][id])
    BY <1>1, <2>2, <2>5 DEF Writes
  <2>. QED  BY <1>1, <2>2, <2>3, <2>4, <2>5, EnclaveStep DEF BookStep, EnclaveInv
<1>2. ASSUME EnclaveInv, [EnclaveNext]_enclaveVars
      PROVE  \A m \in Machines : \A id \in DOMAIN book[m] :
                (life'[m] = "up" /\ ~WentRound(m)) =>
                    /\ id \in DOMAIN book'[m]
                    /\ \A f \in {"maker", "reserve", "invited"} : book'[m][id][f] = book[m][id][f]
                    /\ IsPrefix(book[m][id].recorded, book'[m][id].recorded)
  BY <1>1, <1>2 DEF Continues
<1>. QED  BY <1>2, EnclaveInvHolds, PTL DEF EnclaveSpec, PostedNeverReplaced

(* Until the store's sequence goes round, an answer that cleared an        *)
(* auction is followed only by answers with the same outcome, whatever is  *)
(* delivered in between.                                                   *)
THEOREM FirstStands == EnclaveSpec => FirstClearingStands
<1>1. ASSUME EnclaveInv, [EnclaveNext]_enclaveVars
      PROVE  \A a \in answers' \ answers, b \in answers :
                (a.signer = b.signer /\ a.rfqId = b.rfqId /\ b.status = 1 /\ ~WentRound(a.signer))
                    => a.status = 1 /\ SameOutcome(a, b)
  BY <1>1, EnclaveStep DEF EnclaveInv, AnswerInv, AnswerStep, Answered, SameOutcome, AnswersAs
<1>. QED  BY <1>1, EnclaveInvHolds, PTL DEF EnclaveSpec, FirstClearingStands
=============================================================================
