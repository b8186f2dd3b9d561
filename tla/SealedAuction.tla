--------------------------- MODULE SealedAuction ---------------------------
(***************************************************************************)
(* What the desk promises, without a chain, an enclave or a message: an    *)
(* auction collects sealed bids until its deadline, then its lot is either *)
(* awarded, once, at the second price over everything that was sealed, or  *)
(* returned to its maker.  It promises this from the moment the desk is    *)
(* pointed at an enclave; an auction open before that may be closed by     *)
(* anyone, at any moment and on any terms somebody can be made to pay.     *)
(***************************************************************************)
EXTENDS Vickrey

CONSTANTS
    AuctionIds,
    Sealable,   \* the commitments bidders may record
    Takers,     \* whom a lot can go to before there is an enclave
    Screened    \* whether a bidder that cannot pay may be passed over

VARIABLES
    trusted,    \* whether the desk is pointed at an enclave
    phase,      \* "unposted", "open", "sealed", "sold" or "returned"
    sealed,     \* the commitments recorded
    floor,      \* the hidden reserve
    sale        \* winner and price, once sold

sealedVars == <<trusted, phase, sealed, floor, sale>>

NoSale == <<>>

Init ==
    /\ trusted \in BOOLEAN
    /\ phase = [id \in AuctionIds |-> "unposted"]
    /\ sealed = [id \in AuctionIds |-> {}]
    /\ floor = [id \in AuctionIds |-> 0]
    /\ sale = [id \in AuctionIds |-> NoSale]

(* Once pointed at an enclave, the desk is pointed at one for good.        *)
Trust ==
    /\ ~trusted
    /\ trusted' = TRUE
    /\ UNCHANGED <<phase, sealed, floor, sale>>

Post(id, reserve) ==
    /\ phase[id] = "unposted"
    /\ phase' = [phase EXCEPT ![id] = "open"]
    /\ floor' = [floor EXCEPT ![id] = reserve]
    /\ UNCHANGED <<trusted, sealed, sale>>

Seal(id, c) ==
    /\ phase[id] = "open"
    /\ c \notin sealed[id]
    /\ sealed' = [sealed EXCEPT ![id] = @ \cup {c}]
    /\ UNCHANGED <<trusted, phase, floor, sale>>

(* A block can be the deadline of several auctions.                        *)
CloseBidding(ids) ==
    /\ ids # {}
    /\ \A id \in ids : phase[id] = "open"
    /\ phase' = [id \in AuctionIds |-> IF id \in ids THEN "sealed" ELSE phase[id]]
    /\ UNCHANGED <<trusted, sealed, floor, sale>>

Opened(cs) == {o \in Opening : Hash[o] \in cs}

Outbids(o, p) ==
    o.amount > p.amount \/ (o.amount = p.amount /\ Hash[o] < Hash[p])

(* The best bid o beats, never below the reserve.                          *)
SecondPrice(id, o) ==
    Max({floor[id]} \cup {p.amount : p \in {q \in Opened(sealed[id]) : Outbids(o, q)}})

(* Nothing that was sealed is left out: every commitment has its opening.  *)
Award(id, o) ==
    /\ trusted
    /\ phase[id] = "sealed"
    /\ o \in Opened(sealed[id])
    /\ Cardinality(Opened(sealed[id])) = Cardinality(sealed[id])
    /\ o.amount >= floor[id]
    /\ Screened \/ \A p \in Opened(sealed[id]) \ {o} : Outbids(o, p)
    /\ phase' = [phase EXCEPT ![id] = "sold"]
    /\ sale' = [sale EXCEPT ![id] = <<o.bidder, SecondPrice(id, o)>>]
    /\ UNCHANGED <<trusted, sealed, floor>>

Return(id) ==
    /\ phase[id] = "sealed"
    /\ phase' = [phase EXCEPT ![id] = "returned"]
    /\ UNCHANGED <<trusted, sealed, floor, sale>>

Seize(id) ==
    /\ ~trusted
    /\ phase[id] \in {"open", "sealed"}
    /\ \/ /\ phase' = [phase EXCEPT ![id] = "returned"]
          /\ UNCHANGED sale
       \/ \E who \in Takers, p \in Amounts :
          /\ phase' = [phase EXCEPT ![id] = "sold"]
          /\ sale' = [sale EXCEPT ![id] = <<who, p>>]
    /\ UNCHANGED <<trusted, sealed, floor>>

Next ==
    \/ Trust
    \/ \E id \in AuctionIds, r \in Amounts : Post(id, r)
    \/ \E id \in AuctionIds : \E c \in Sealable : Seal(id, c)
    \/ \E ids \in SUBSET AuctionIds : CloseBidding(ids)
    \/ \E id \in AuctionIds : \E o \in Opening : Award(id, o)
    \/ \E id \in AuctionIds : Return(id) \/ Seize(id)

Spec == Init /\ [][Next]_sealedVars
=============================================================================
