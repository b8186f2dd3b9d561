------------------------------ MODULE Vickrey ------------------------------
(***************************************************************************)
(* The clearing engine of pkg/auction/auction.go: commitments, the set     *)
(* digest and the second-price walk with its solvency screen.  Pure        *)
(* operators over constants; the modules that hold state extend this one.  *)
(***************************************************************************)
EXTENDS Integers, SequencesExt

CONSTANTS
    Bidders,    \* addresses that can bid
    Names,      \* the strings that name a bidder, addresses as usually written among them
    Amounts,    \* the amounts a bid or a reserve can name
    Nonces,     \* blinding nonces
    Hash        \* keccak256 over an opening; its values are ordered like bytes

Opening == [amount : Amounts, nonce : Nonces, bidder : Bidders]

(* A forgotten bid has amount 0 and nonce 0, so both are values.  The hash *)
(* is collision-free: nothing here depends on anything else about it.      *)
ASSUME NamesAssumption   == Bidders \subseteq Names
ASSUME AmountsAssumption == Amounts \subseteq Nat /\ 0 \in Amounts
ASSUME NoncesAssumption  == 0 \in Nonces
ASSUME HashAssumption ==
    /\ Hash \in [Opening -> Nat]
    /\ \A o, p \in Opening : Hash[o] = Hash[p] => o = p

Commitment == Nat

Commit(amount, nonce, bidder) ==
    Hash[[amount |-> amount, nonce |-> nonce, bidder |-> bidder]]

(* A decrypted bid: the commitment the chain recorded, the opening, and    *)
(* the bidder twice, as a string and as the address it is hashed under.    *)
Bid == [commitment : Commitment, bidder : Names, addr : Bidders,
        amount : Amounts, nonce : Nonces]

Opens(b) == Commit(b.amount, b.nonce, b.addr) = b.commitment

(* keccak256 over the sorted set: equal exactly for equal multisets.       *)
Digest(recorded) == ToBag(recorded)

MatchesSomeRecorded(recorded, bids) ==                      \* faulty
    {bids[i].commitment : i \in DOMAIN bids} \subseteq ToSet(recorded)

MatchesRecorded(recorded, bids) ==
    ToBag(recorded) = ToBag([i \in DOMAIN bids |-> bids[i].commitment])

(***************************************************************************)
(* The ranking and the price a rank owes.                                  *)
(***************************************************************************)
BeforeTied(a, b) == a.amount > b.amount                      \* faulty

Before(a, b) ==
    \/ a.amount > b.amount
    \/ a.amount = b.amount /\ a.commitment < b.commitment

(* Which bids a sort puts ahead of the i-th: those that come before it, and *)
(* among bids it cannot tell apart, those that arrived first.              *)
Ahead(bids, i) ==
    {j \in DOMAIN bids :
        Before(bids[j], bids[i]) \/ (j < i /\ ~Before(bids[i], bids[j]))}

Ranked(bids) ==
    [k \in DOMAIN bids |->
        bids[CHOOSE i \in DOMAIN bids : Cardinality(Ahead(bids, i)) = k - 1]]

PriceAtOwnBid(ranked, i, reserve) == ranked[i].amount        \* faulty

PriceAt(ranked, i, reserve) ==
    IF i < Len(ranked) /\ ranked[i + 1].amount > reserve
    THEN ranked[i + 1].amount
    ELSE reserve

(***************************************************************************)
(* The solvency screen.  NoScreen is the nil CanPay; a screen holds what   *)
(* each bidder could pay through the desk and whose reading failed: a      *)
(* failed reading counts as "can pay".                                     *)
(***************************************************************************)
NoScreen == [on |-> FALSE]
Screen(limit, unread) == [on |-> TRUE, limit |-> limit, unread |-> unread]

CanPayIfRead(screen, bidder, price) ==                      \* faulty
    ~screen.on \/ (bidder \notin screen.unread /\ screen.limit[bidder] >= price)

CanPay(screen, bidder, price) ==
    \/ ~screen.on
    \/ bidder \in screen.unread
    \/ screen.limit[bidder] >= price

(***************************************************************************)
(* ClearScreened: refuse, or walk the ranking down to the first bid that   *)
(* clears the reserve and can settle the price it would owe.               *)
(***************************************************************************)
Refused(why) == [ok |-> FALSE, err |-> why]

Awarded(winner, price, recorded) ==
    [ok |-> TRUE, winner |-> winner, price |-> price,
     count |-> Len(recorded), digest |-> Digest(recorded)]

(* The ranks at which the walk would stop and award.                       *)
Stops(ranked, reserve, screen) ==
    {i \in DOMAIN ranked :
        /\ \A j \in 1..i : ranked[j].amount >= reserve
        /\ CanPay(screen, ranked[i].bidder, PriceAt(ranked, i, reserve))}

Walk(recorded, ranked, reserve, screen) ==
    LET stops == Stops(ranked, reserve, screen)
    IN  IF stops # {}
        THEN LET i == Min(stops)
             IN  Awarded(ranked[i].bidder, PriceAt(ranked, i, reserve), recorded)
        ELSE Refused(IF screen.on THEN "NoSolventBid" ELSE "ReserveUnmet")

ClearScreened(recorded, bids, reserve, screen) ==
    IF recorded = <<>> \/ bids = <<>> THEN Refused("NoBids")
    ELSE IF \E i \in DOMAIN bids : ~Opens(bids[i]) THEN Refused("OpeningMismatch")
    ELSE IF ~MatchesRecorded(recorded, bids) THEN Refused("SetMismatch")
    ELSE Walk(recorded, Ranked(bids), reserve, screen)
=============================================================================
