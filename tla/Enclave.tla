------------------------------ MODULE Enclave ------------------------------
(***************************************************************************)
(* internal/extension: the sealed-bid book an enclave keeps in volatile    *)
(* memory and the handlers that change it.  Every handler holds the book's *)
(* lock from its first read to its last write, so each is one action.      *)
(* A request that is refused changes nothing and is no step, except that a *)
(* refused CLEAR_AUCTION leaves an answer.                                 *)
(***************************************************************************)
EXTENDS Vickrey

CONSTANTS
    Machines,   \* TEE identities: a restart is another identity
    Makers,     \* addresses that post auctions
    Open,       \* the absent invitation: anyone may bid
    Words,      \* how many values a uint64 auction id can take
    HexToAddress    \* the address a bidder's string stands for; several can stand for one

ASSUME WordsAssumption == Words \in Nat \ {0, 1}
ASSUME HexAssumption   == HexToAddress \in [Names -> Bidders]

VARIABLES
    life,       \* "new", "up" or "gone", per machine
    book,       \* rfqStore.rfqs, per machine: auctions by id
    next,       \* rfqStore.next, per machine: the simulated path's sequence
    answers     \* results of CLEAR_AUCTION that left the enclaves

enclaveVars == <<life, book, next, answers>>

EnclaveId == 0..(Words - 1)

EnclaveInit ==
    /\ life = [m \in Machines |-> "new"]
    /\ book = [m \in Machines |-> <<>>]
    /\ next = [m \in Machines |-> 0]
    /\ answers = {}

(* The process starts with an empty book and a key of its own; when it     *)
(* stops, both are gone for good.                                          *)
Start(m) ==
    /\ life[m] = "new"
    /\ life' = [life EXCEPT ![m] = "up"]
    /\ UNCHANGED <<book, next, answers>>

Stop(m) ==
    /\ life[m] = "up"
    /\ life' = [life EXCEPT ![m] = "gone"]
    /\ book' = [book EXCEPT ![m] = <<>>]
    /\ next' = [next EXCEPT ![m] = 0]
    /\ UNCHANGED answers

(* A sealed payload opens only under the key it was encrypted to.          *)
CanDecrypt(m, sealed) == sealed.key = m

-----------------------------------------------------------------------------
(***************************************************************************)
(* POST_RFQ.  Id 0 is the simulated path: the store numbers the auction    *)
(* itself, in uint64 arithmetic, and does not look at what it replaces.    *)
(***************************************************************************)
NoOutcome == Refused("NotCleared")

NewRfq(req) ==
    [maker |-> req.maker, reserve |-> req.sealed.reserve, invited |-> req.invited,
     recorded |-> <<>>, openings |-> <<>>, cleared |-> FALSE, outcome |-> NoOutcome]

Stored(rfqStore, id, r) ==
    [i \in DOMAIN rfqStore \cup {id} |-> IF i = id THEN r ELSE rfqStore[i]]

AssignedId(m, id) == IF id = 0 THEN (next[m] + 1) % Words ELSE id

MayPostAgain(m, req) == req.lot # 0                          \* faulty

MayPost(m, req) ==
    /\ req.lot # 0
    /\ req.rfqId # 0 => req.rfqId \notin DOMAIN book[m]

HandlePostRfq(m, req) ==
    LET id == AssignedId(m, req.rfqId)
    IN  /\ life[m] = "up"
        /\ CanDecrypt(m, req.sealed)
        /\ MayPost(m, req)
        /\ next' = [next EXCEPT ![m] = IF req.rfqId = 0 \/ id > @ THEN id ELSE @]
        /\ book' = [book EXCEPT ![m] = Stored(@, id, NewRfq(req))]
        /\ UNCHANGED <<life, answers>>

(***************************************************************************)
(* COMMIT_BID.                                                             *)
(***************************************************************************)
OpenedBid(req) ==
    [commitment |-> req.commitment, bidder |-> req.bidder, addr |-> HexToAddress[req.bidder],
     amount |-> req.sealed.amount, nonce |-> req.sealed.nonce]

(* The wallet signature binds one commitment, in one auction, to the       *)
(* address of its bidder.                                                  *)
SignedBy(req) ==
    req.sealed.sig = [signer |-> HexToAddress[req.bidder], rfqId |-> req.rfqId,
                      commitment |-> req.commitment]

AdmitsAgain(r, req) ==                                      \* faulty
    ~r.cleared /\ r.invited \in {Open, req.bidder} /\ req.commitment \notin ToSet(r.recorded)
AdmitsLate(r, req) ==                                       \* faulty
    /\ r.invited \in {Open, req.bidder} /\ req.commitment \notin ToSet(r.recorded)
    /\ \A i \in DOMAIN r.openings : r.openings[i].bidder # req.bidder

(* Invitations and earlier bids are compared as strings.                   *)
Admits(r, req) ==
    /\ ~r.cleared
    /\ r.invited \in {Open, req.bidder}
    /\ req.commitment \notin ToSet(r.recorded)
    /\ \A i \in DOMAIN r.openings : r.openings[i].bidder # req.bidder

HandleCommitBid(m, req) ==
    /\ life[m] = "up"
    /\ CanDecrypt(m, req.sealed)
    /\ Opens(OpenedBid(req))
    /\ SignedBy(req)
    /\ req.rfqId \in DOMAIN book[m]
    /\ Admits(book[m][req.rfqId], req)
    /\ book' = [book EXCEPT
                  ![m][req.rfqId].recorded = Append(@, req.commitment),
                  ![m][req.rfqId].openings = Append(@, OpenedBid(req))]
    /\ UNCHANGED <<life, next, answers>>

(***************************************************************************)
(* CLEAR_AUCTION.  The node signs what the handler returns; the answer     *)
(* carries the delivery's action id and submission tag, and names the      *)
(* winner by address.                                                      *)
(***************************************************************************)
Answer(m, actionId, tag, id, out) ==
    IF out.ok
    THEN [signer |-> m, actionId |-> actionId, tag |-> tag, rfqId |-> id, status |-> 1,
          winner |-> HexToAddress[out.winner], price |-> out.price, digest |-> out.digest]
    ELSE [signer |-> m, actionId |-> actionId, tag |-> tag, rfqId |-> id, status |-> 0]

(* What the chain says of each bidder's funds, asked for by its string.    *)
solvencyScreen(limit, unread) == Screen([n \in Names |-> limit[HexToAddress[n]]], unread)

Forget(openings) ==
    [i \in DOMAIN openings |-> [openings[i] EXCEPT !.amount = 0, !.nonce = 0]]

CloseUnmarked(r, out) == [r EXCEPT !.outcome = out]          \* faulty
CloseUnstored(r, out) ==                                    \* faulty
    [r EXCEPT !.cleared = TRUE, !.openings = Forget(@)]

Close(r, out) ==
    [r EXCEPT !.cleared = TRUE, !.outcome = out, !.openings = Forget(@)]

ClearingOnce(m, id, screen) ==                              \* faulty
    IF id \notin DOMAIN book[m] THEN Refused("RfqNotFound")
    ELSE LET r == book[m][id]
         IN  IF r.cleared THEN Refused("AlreadyClosed")
             ELSE ClearScreened(r.recorded, r.openings, r.reserve, screen)

(* Clearing again returns the outcome of the first clearing.               *)
ClearingOf(m, id, screen) ==
    IF id \notin DOMAIN book[m] THEN Refused("RfqNotFound")
    ELSE LET r == book[m][id]
         IN  IF r.cleared THEN r.outcome
             ELSE ClearScreened(r.recorded, r.openings, r.reserve, screen)

HandleClearAuction(m, id, actionId, tag, screen) ==
    LET out == ClearingOf(m, id, screen)
    IN  /\ life[m] = "up"
        /\ answers' = answers \cup {Answer(m, actionId, tag, id, out)}
        /\ book' = IF out.ok THEN [book EXCEPT ![m][id] = Close(@, out)] ELSE book
        /\ UNCHANGED <<life, next>>

-----------------------------------------------------------------------------
(***************************************************************************)
(* The enclave on its own, with BUTA_ALLOW_DIRECT_AUCTION set: requests    *)
(* reach the handlers in any order and any number of times, numbered by    *)
(* the caller or by the store.                                             *)
(***************************************************************************)
processDirect(m, posts, bids, ids, actionIds, screens) ==
    \/ \E req \in posts : HandlePostRfq(m, req)
    \/ \E req \in bids : HandleCommitBid(m, req)
    \/ \E id \in ids, a \in actionIds, tag \in {"threshold", "end"}, s \in screens :
          HandleClearAuction(m, id, a, tag, s)

(* Every request that decodes, sealed to the machine it reaches: another   *)
(* one is refused.                                                         *)
PostRfqRequest(m) ==
    [rfqId : EnclaveId, maker : Makers, lot : Nat, invited : Names \cup {Open},
     sealed : [key : {m}, reserve : Amounts]]

CommitBidRequest(m) ==
    [rfqId : EnclaveId, bidder : Names, commitment : Commitment,
     sealed : [key : {m}, amount : Amounts, nonce : Nonces,
               sig : [signer : Bidders, rfqId : EnclaveId, commitment : Commitment]]]

AllScreens ==
    {NoScreen} \cup
    {solvencyScreen(limit, unread) : limit \in [Bidders -> Nat], unread \in SUBSET Names}

EnclaveNext ==
    \E m \in Machines :
        \/ Start(m) \/ Stop(m)
        \/ processDirect(m, PostRfqRequest(m), CommitBidRequest(m), EnclaveId, Nat, AllScreens)

EnclaveSpec == EnclaveInit /\ [][EnclaveNext]_enclaveVars

-----------------------------------------------------------------------------
(* Types; and an auction is cleared exactly when it keeps an outcome to    *)
(* answer a second delivery with.                                          *)
EnclaveTypeOK ==
    /\ life \in [Machines -> {"new", "up", "gone"}]
    /\ next \in [Machines -> EnclaveId]
    /\ \A m \in Machines :
        /\ DOMAIN book[m] \subseteq EnclaveId
        /\ \A id \in DOMAIN book[m] :
            LET r == book[m][id]
            IN  /\ r.maker \in Makers /\ r.reserve \in Amounts
                /\ r.invited \in Names \cup {Open}
                /\ r.recorded \in Seq(Commitment) /\ r.openings \in Seq(Bid)
                /\ r.cleared \in BOOLEAN /\ r.cleared = r.outcome.ok

(* Every opening an uncleared auction holds reproduces a commitment it     *)
(* recorded, under the address its bidder's string stands for, and no      *)
(* string has two: clearing can fail for want of a bid, but never on a     *)
(* mismatch found too late to refuse the bid.  (One address, written in    *)
(* two ways, may have two.)                                                *)
OpeningsMatchRecorded ==
    \A m \in Machines : \A id \in DOMAIN book[m] :
        LET r == book[m][id]
        IN  /\ Len(r.openings) = Len(r.recorded)
            /\ \A i \in DOMAIN r.openings :
                /\ r.openings[i].commitment = r.recorded[i]
                /\ r.openings[i].addr = HexToAddress[r.openings[i].bidder]
                /\ ~r.cleared => Opens(r.openings[i])
                /\ \A j \in DOMAIN r.openings :
                       r.openings[i].bidder = r.openings[j].bidder => i = j

(* A cleared auction holds no amount, and no later request puts one back.  *)
ClearedHoldsNoAmount ==
    \A m \in Machines : \A id \in DOMAIN book[m] :
        book[m][id].cleared =>
            \A i \in DOMAIN book[m][id].openings :
                book[m][id].openings[i].amount = 0 /\ book[m][id].openings[i].nonce = 0

(* The store's sequence has passed the last id and come to 0, an id it     *)
(* gives only then.                                                        *)
WentRound(m) == 0 \in DOMAIN book[m]

SameOutcome(a, b) == a.winner = b.winner /\ a.price = b.price /\ a.digest = b.digest

(* Until the store's sequence goes round, and whatever deliveries of       *)
(* whatever requests follow it, an answer that cleared an auction is       *)
(* followed only by answers with the same outcome: whichever delivery      *)
(* comes last, the one the contract can settle exists.                     *)
FirstClearingStands ==
    [][\A a \in answers' \ answers, b \in answers :
          (a.signer = b.signer /\ a.rfqId = b.rfqId /\ b.status = 1 /\ ~WentRound(a.signer))
              => a.status = 1 /\ SameOutcome(a, b)]_enclaveVars

(* What clearings.ts and the desk say of asking again: that the enclave    *)
(* answers "already cleared".                                              *)
SecondClearingRefused ==
    [][\A a \in answers' \ answers, b \in answers :
          (a.signer = b.signer /\ a.rfqId = b.rfqId /\ b.status = 1)
              => a.status = 0]_enclaveVars

(* An auction, once posted, keeps its terms and the bids it admitted until *)
(* the process stops or the store's sequence goes round: neither a second  *)
(* delivery of its POST_RFQ nor a post the store numbers takes its place,  *)
(* not even the one that takes the sequence round.                         *)
PostedNeverReplaced ==
    [][\A m \in Machines : \A id \in DOMAIN book[m] :
          (life'[m] = "up" /\ ~WentRound(m)) =>
              /\ id \in DOMAIN book'[m]
              /\ \A f \in {"maker", "reserve", "invited"} : book'[m][id][f] = book[m][id][f]
              /\ IsPrefix(book[m][id].recorded, book'[m][id].recorded)]_enclaveVars
=============================================================================
