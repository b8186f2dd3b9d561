------------------------------ MODULE Clearing ------------------------------
(***************************************************************************)
(* One clearing: openings arrive, one for each bidder, and the engine of   *)
(* Vickrey clears them.  What it must answer is stated over the set of     *)
(* bids, by a definition of the second price with no sort and no walk.     *)
(***************************************************************************)
EXTENDS Vickrey

CONSTANT Limits     \* what a bidder may be found able to pay

ASSUME LimitsAssumption == Limits \subseteq Nat

VARIABLES
    book,       \* the openings held, in order of arrival
    reserve,    \* the maker's hidden floor
    screen,     \* what the chain said about who can pay
    outcome     \* result of the last clearing, or NotYet

vars == <<book, reserve, screen, outcome>>

NotYet == [ok |-> FALSE, err |-> "NotYet"]

BidOf(b, amount, nonce) ==
    [commitment |-> Commit(amount, nonce, b), bidder |-> b, addr |-> b,
     amount |-> amount, nonce |-> nonce]

(* No chain reader, or any limits with any readings failed.                *)
Screens ==
    {NoScreen} \cup
    {Screen(limit, unread) : limit \in [Bidders -> Limits], unread \in SUBSET Bidders}

Init ==
    /\ book = <<>>
    /\ reserve \in Amounts
    /\ screen \in Screens
    /\ outcome = NotYet

RecordedOf(bids) == [i \in DOMAIN bids |-> bids[i].commitment]
BiddersOf(bids)  == {bids[i].bidder : i \in DOMAIN bids}

(* One more bid arrives.                                                   *)
Arrive(b, amount, nonce) ==
    /\ outcome = NotYet
    /\ b \notin BiddersOf(book)
    /\ book' = Append(book, BidOf(b, amount, nonce))
    /\ UNCHANGED <<reserve, screen, outcome>>

(* The enclave clears the book it holds.  After a refusal it may be asked  *)
(* again, perhaps with more bids: that is the book of another behaviour.   *)
ClearBook ==
    /\ outcome = NotYet
    /\ outcome' = ClearScreened(RecordedOf(book), book, reserve, screen)
    /\ UNCHANGED <<book, reserve, screen>>

Next ==
    \/ \E b \in Bidders, amount \in Amounts, nonce \in Nonces : Arrive(b, amount, nonce)
    \/ ClearBook

Spec == Init /\ [][Next]_vars

-----------------------------------------------------------------------------
Books == Range(book)

(* What b owes if it wins: the best of the bids it beats, never below the  *)
(* reserve.                                                                *)
Owed(bids, floor, b) ==
    Max({floor} \cup {x.amount : x \in {y \in bids : Before(b, y)}})

(* Who meets the reserve and can pay what it would owe.                    *)
Entitled(bids, floor, who) ==
    {b \in bids :
        /\ b.amount >= floor
        /\ ~who.on \/ b.bidder \in who.unread \/ who.limit[b.bidder] >= Owed(bids, floor, b)}

SecondPriceOf(bids, floor, who, out) ==
    IF Entitled(bids, floor, who) = {} THEN ~out.ok
    ELSE /\ out.ok
         /\ \E b \in Entitled(bids, floor, who) :
                /\ \A x \in Entitled(bids, floor, who) \ {b} : Before(b, x)
                /\ out.winner = b.bidder
                /\ out.price = Owed(bids, floor, b)
                /\ out.count = Cardinality(bids)

(* Clearing awards to the best-ranked bid among those that meet the        *)
(* reserve and can pay what they would owe, at the best price it beats,    *)
(* and to nobody when there is none.                                       *)
ClearsAtSecondPrice ==
    outcome # NotYet => SecondPriceOf(Books, reserve, screen, outcome)

(* The order in which bids arrived changes neither the winner, the price   *)
(* nor the digest: two enclaves holding the same set agree exactly.        *)
OrderIndependent ==
    outcome # NotYet =>
        \A s \in SetToSeqs(Books) :
            ClearScreened(RecordedOf(s), s, reserve, screen) = outcome

(* A clearing over a set from which anything was withheld is refused, on   *)
(* whichever side it was withheld.                                         *)
TrimmedSetRefused ==
    outcome # NotYet =>
        \A i \in DOMAIN book :
            LET trimmed == RemoveAt(book, i)
            IN  /\ ~ClearScreened(RecordedOf(book), trimmed, reserve, screen).ok
                /\ ~ClearScreened(RecordedOf(trimmed), book, reserve, screen).ok

(* Utility, to a bidder who values the lot at what it bid, of an outcome.  *)
Gain(b, out) == IF out.ok /\ out.winner = b.bidder THEN b.amount - out.price ELSE 0

GainFromBidding(i, amount) ==
    LET s == [book EXCEPT ![i] = BidOf(book[i].bidder, amount, book[i].nonce)]
    IN  Gain(book[i], ClearScreened(RecordedOf(s), s, reserve, screen))

(* Whoever can pay what it bid: anybody, as far as a desk that does not    *)
(* screen can tell.                                                        *)
Solvent(b) == ~screen.on \/ screen.limit[b.bidder] >= b.amount

NoReasonToShade(b) ==
    \A i \in DOMAIN book, amount \in Amounts :
        book[i] = b => GainFromBidding(i, amount) <= Gain(b, outcome)

(* "A bidder therefore has no reason to shade": in a book where everybody  *)
(* can pay what they bid, no other amount would have been worth more to    *)
(* anyone, screen or no screen.                                            *)
SolventBookNeverShades ==
    (outcome # NotYet /\ \A b \in Books : Solvent(b)) =>
        \A b \in Books : NoReasonToShade(b)

(* The same claim for one bidder: whoever can pay what it bid has no       *)
(* reason to shade, whatever the others can pay.  auction.go:10-17 makes   *)
(* it of the clearing rule and then says that the rule is screened; a      *)
(* screened clearing breaks it, because a bidder that cannot pay is passed *)
(* over when it ranks first and still sets the price when it ranks second. *)
SolventBidderNeverShades ==
    outcome # NotYet => \A b \in Books : Solvent(b) => NoReasonToShade(b)
=============================================================================
