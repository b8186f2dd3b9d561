---------------------------- MODULE VickreyProofs ----------------------------
(***************************************************************************)
(* The clearing engine, for every set of bidders, every book and every     *)
(* solvency screen.                                                        *)
(***************************************************************************)
EXTENDS Clearing, LibraryFacts

(* No two bids of a book carry the same commitment.                        *)
Distinct(bids) ==
    \A i, j \in DOMAIN bids : bids[i].commitment = bids[j].commitment => i = j

LEMMA BidsTyped ==
    ASSUME NEW bids \in Seq(Bid)
    PROVE  /\ Len(bids) \in Nat /\ DOMAIN bids = 1..Len(bids)
           /\ \A i \in 1..Len(bids) :
                /\ bids[i] \in Bid /\ bids[i].amount \in Amounts /\ bids[i].amount \in Nat
                /\ bids[i].commitment \in Nat /\ bids[i].bidder \in Names /\ bids[i].addr \in Bidders
<1>1. /\ Len(bids) \in Nat /\ DOMAIN bids = 1..Len(bids)
      /\ \A i \in 1..Len(bids) : bids[i] \in Bid
  BY LenProperties, ElementOfSeq
<1>2. \A b \in Bid : /\ b.amount \in Amounts /\ b.amount \in Nat
                     /\ b.commitment \in Nat /\ b.bidder \in Names /\ b.addr \in Bidders
  BY AmountsAssumption DEF Bid, Commitment
<1>. QED  BY <1>1, <1>2

(* The order a sort ranks by is total on bids whose commitments differ.    *)
LEMMA BeforeIsOrder ==
    ASSUME NEW a \in Bid, NEW b \in Bid, NEW c \in Bid
    PROVE  /\ ~Before(a, a)
           /\ Before(a, b) => ~Before(b, a)
           /\ Before(a, b) /\ Before(b, c) => Before(a, c)
           /\ a.commitment # b.commitment => Before(a, b) \/ Before(b, a)
           /\ Before(a, b) => a.amount >= b.amount
<1>1. \A x \in Bid : x.amount \in Nat /\ x.commitment \in Nat
  BY AmountsAssumption DEF Bid, Commitment
<1>. QED  BY <1>1 DEF Before

(***************************************************************************)
(* The ranking: as many bids are ahead of a bid as its rank says, so no    *)
(* two have the same rank and every rank is taken.                         *)
(***************************************************************************)
Rank(bids, i) == Cardinality(Ahead(bids, i)) + 1

LEMMA AheadIs ==
    ASSUME NEW bids \in Seq(Bid), Distinct(bids), NEW i \in 1..Len(bids)
    PROVE  Ahead(bids, i) = {j \in 1..Len(bids) : Before(bids[j], bids[i])}
<1>1. \A j \in 1..Len(bids) : j # i => Before(bids[j], bids[i]) \/ Before(bids[i], bids[j])
  BY BidsTyped, BeforeIsOrder DEF Distinct
<1>. QED  BY <1>1, BidsTyped DEF Ahead

LEMMA RankIs ==
    ASSUME NEW bids \in Seq(Bid), Distinct(bids), NEW i \in 1..Len(bids)
    PROVE  Rank(bids, i) \in 1..Len(bids)
<1>1. IsFiniteSet(1..Len(bids)) /\ Cardinality(1..Len(bids)) = Len(bids) /\ Len(bids) \in Nat
  BY BidsTyped, FS_Interval
<1>2. Ahead(bids, i) \subseteq (1..Len(bids)) \ {i}
  BY AheadIs, BidsTyped, BeforeIsOrder
<1>3. /\ IsFiniteSet((1..Len(bids)) \ {i})
      /\ Cardinality((1..Len(bids)) \ {i}) = Len(bids) - 1
  BY <1>1, FS_RemoveElement
<1>4. IsFiniteSet(Ahead(bids, i)) /\ Cardinality(Ahead(bids, i)) <= Len(bids) - 1
  BY <1>2, <1>3, FS_Subset
<1>5. Cardinality(Ahead(bids, i)) \in Nat
  BY <1>4, FS_CardinalityType
<1>. QED  BY <1>1, <1>4, <1>5 DEF Rank

LEMMA RankOrders ==
    ASSUME NEW bids \in Seq(Bid), Distinct(bids), NEW i \in 1..Len(bids), NEW j \in 1..Len(bids),
           Before(bids[i], bids[j])
    PROVE  Rank(bids, i) < Rank(bids, j)
<1>1. Ahead(bids, i) \subseteq Ahead(bids, j) /\ i \in Ahead(bids, j) /\ i \notin Ahead(bids, i)
  BY AheadIs, BidsTyped, BeforeIsOrder
<1>2. IsFiniteSet(1..Len(bids)) /\ Ahead(bids, j) \subseteq 1..Len(bids)
  <2>1. Len(bids) \in Int /\ DOMAIN bids = 1..Len(bids)  BY BidsTyped
  <2>. QED  BY <2>1, FS_Interval DEF Ahead
<1>3. IsFiniteSet(Ahead(bids, j))  BY <1>2, FS_Subset
<1>4. /\ Cardinality(Ahead(bids, i)) <= Cardinality(Ahead(bids, j))
      /\ Cardinality(Ahead(bids, i)) # Cardinality(Ahead(bids, j))
      /\ IsFiniteSet(Ahead(bids, i))
  BY <1>1, <1>3, FS_Subset
<1>5. Cardinality(Ahead(bids, i)) \in Nat /\ Cardinality(Ahead(bids, j)) \in Nat
  BY <1>3, <1>4, FS_CardinalityType
<1>. QED  BY <1>4, <1>5 DEF Rank

(* Every rank is some bid's, and only one's.                               *)
LEMMA RankTaken ==
    ASSUME NEW bids \in Seq(Bid), Distinct(bids)
    PROVE  /\ \A k \in 1..Len(bids) : \E i \in 1..Len(bids) : Rank(bids, i) = k
           /\ \A i, j \in 1..Len(bids) : Rank(bids, i) = Rank(bids, j) => i = j
<1> DEFINE n == Len(bids)
           f == [i \in 1..n |-> Rank(bids, i)]
<1>1. f \in [1..n -> 1..n]  BY RankIs
<1>2. \A i, j \in 1..n : i # j => Rank(bids, i) # Rank(bids, j)
  <2> SUFFICES ASSUME NEW i \in 1..n, NEW j \in 1..n, i # j
               PROVE  Rank(bids, i) # Rank(bids, j)
    OBVIOUS
  <2>1. Before(bids[i], bids[j]) \/ Before(bids[j], bids[i])
    BY BidsTyped, BeforeIsOrder DEF Distinct
  <2>2. Rank(bids, i) \in 1..n /\ Rank(bids, j) \in 1..n  BY RankIs
  <2>. QED  BY <2>1, <2>2, RankOrders, BidsTyped
<1>3. f \in Injection(1..n, 1..n)
  BY <1>1, <1>2 DEF Injection, IsInjective
<1>4. IsFiniteSet(1..n)  BY BidsTyped, FS_Interval
<1>5. f \in Surjection(1..n, 1..n)
  BY <1>3, <1>4, FS_Injection
<1>. QED  BY <1>2, <1>5 DEF Surjection

(* A ranking is a listing of the book, in order.                           *)
Lists(ranked, bids) ==
    /\ ranked \in Seq(Bid) /\ Len(ranked) = Len(bids)
    /\ Range(ranked) = Range(bids)
    /\ \A k, l \in 1..Len(ranked) : k < l => Before(ranked[k], ranked[l])

LEMMA RankedLists ==
    ASSUME NEW bids \in Seq(Bid), Distinct(bids)
    PROVE  Lists(Ranked(bids), bids)
<1> DEFINE n == Len(bids)
           p(k) == CHOOSE i \in DOMAIN bids : Cardinality(Ahead(bids, i)) = k - 1
           r == Ranked(bids)
<1>1. n \in Nat /\ DOMAIN bids = 1..n  BY BidsTyped
<1>2. \A i \in 1..n : Cardinality(Ahead(bids, i)) \in Int
  <2>1. ASSUME NEW i \in 1..n  PROVE IsFiniteSet(Ahead(bids, i))
    <3>1. IsFiniteSet(1..n) /\ Ahead(bids, i) \subseteq 1..n  BY <1>1, FS_Interval DEF Ahead
    <3>. QED  BY <3>1, FS_Subset
  <2>. QED  BY <2>1, FS_CardinalityType
<1>3. ASSUME NEW k \in 1..n  PROVE p(k) \in 1..n /\ Rank(bids, p(k)) = k
  <2>1. \E i \in 1..n : Cardinality(Ahead(bids, i)) = k - 1
    <3>1. PICK i \in 1..n : Rank(bids, i) = k  BY RankTaken
    <3>2. Cardinality(Ahead(bids, i)) = k - 1
      <4> DEFINE c == Cardinality(Ahead(bids, i))
      <4>1. c \in Int /\ c + 1 = k  BY <1>2, <3>1 DEF Rank
      <4> HIDE DEF c
      <4>2. c = k - 1  BY <4>1, <1>1
      <4>. QED  BY <4>2 DEF c
    <3>. QED  BY <3>2
  <2>2. p(k) \in 1..n /\ Cardinality(Ahead(bids, p(k))) = k - 1  BY <1>1, <2>1
  <2> HIDE DEF p
  <2>. QED  BY <1>1, <2>2 DEF Rank
<1>4. r = [k \in 1..n |-> bids[p(k)]]  BY <1>1 DEF Ranked
<1> HIDE DEF p, r
<1>5. r \in Seq(Bid) /\ Len(r) = n /\ DOMAIN r = 1..n
  <2>1. r \in [1..n -> Bid]  BY <1>3, <1>4, BidsTyped
  <2>. QED  BY <1>1, <2>1
<1>6. Range(r) = Range(bids)
  <2>1. Range(r) \subseteq Range(bids)  BY <1>1, <1>3, <1>4, <1>5 DEF Range
  <2>2. ASSUME NEW i \in 1..n  PROVE bids[i] \in Range(r)
    <3>1. Rank(bids, i) \in 1..n  BY RankIs
    <3>2. p(Rank(bids, i)) = i  BY <1>3, <3>1, RankTaken
    <3>3. r[Rank(bids, i)] = bids[i]  BY <1>4, <3>1, <3>2
    <3>. QED  BY <1>5, <3>1, <3>3 DEF Range
  <2>. QED  BY <1>1, <2>1, <2>2 DEF Range
<1>7. ASSUME NEW k \in 1..n, NEW l \in 1..n, k < l  PROVE Before(r[k], r[l])
  <2>1. p(k) \in 1..n /\ p(l) \in 1..n /\ Rank(bids, p(k)) = k /\ Rank(bids, p(l)) = l  BY <1>3
  <2>2. p(k) # p(l)  BY <1>7, <2>1
  <2>3. Before(bids[p(k)], bids[p(l)]) \/ Before(bids[p(l)], bids[p(k)])
    BY <2>1, <2>2, BidsTyped, BeforeIsOrder DEF Distinct
  <2>4. ~Before(bids[p(l)], bids[p(k)])  BY <1>1, <1>7, <2>1, RankOrders
  <2>. QED  BY <1>4, <2>3, <2>4
<1>. QED  BY <1>5, <1>6, <1>7 DEF Lists, r

-----------------------------------------------------------------------------
(***************************************************************************)
(* The walk.  The ranking descends, so what the next rank holds is the     *)
(* best of what a rank beats, and the first rank at which the walk can     *)
(* stop is the best-ranked bid of those entitled to the lot.               *)
(***************************************************************************)
(* The bids a rank beats are those further down.                           *)
LEMMA BeatenAreBelow ==
    ASSUME NEW bids \in Seq(Bid), NEW r, Lists(r, bids), NEW i \in 1..Len(r)
    PROVE  /\ \A y \in Range(bids) : Before(r[i], y) => \E k \in 1..Len(r) : k > i /\ y = r[k]
           /\ \A k \in 1..Len(r) : k > i => r[k] \in Range(bids) /\ Before(r[i], r[k])
           /\ \A k \in 1..Len(r) : k > i => r[k].amount <= r[i].amount
<1>1. /\ Len(r) \in Nat /\ DOMAIN r = 1..Len(r) /\ Range(r) = Range(bids)
      /\ \A k \in 1..Len(r) : r[k] \in Bid /\ r[k].amount \in Nat
  BY BidsTyped DEF Lists
<1>2. \A k \in 1..Len(r) : k > i => Before(r[i], r[k])
  BY <1>1 DEF Lists
<1>3. \A k \in 1..Len(r) : k < i => ~Before(r[i], r[k])
  BY <1>1, BeforeIsOrder DEF Lists
<1>4. ~Before(r[i], r[i])  BY <1>1, BeforeIsOrder
<1>5. ASSUME NEW y \in Range(bids), Before(r[i], y)
      PROVE  \E k \in 1..Len(r) : k > i /\ y = r[k]
  <2>1. PICK k \in 1..Len(r) : y = r[k]  BY <1>1 DEF Range
  <2>2. ~(k < i) /\ k # i  BY <1>3, <1>4, <1>5, <2>1
  <2>. QED  BY <2>1, <2>2
<1>6. \A k \in 1..Len(r) : r[k] \in Range(bids)  BY <1>1 DEF Range
<1>7. \A k \in 1..Len(r) : k > i => r[k].amount <= r[i].amount
  BY <1>1, <1>2, BeforeIsOrder
<1>. QED  BY <1>2, <1>5, <1>6, <1>7

(* What a rank owes is the maximum of the reserve and of what it beats.    *)
LEMMA PriceIsOwed ==
    ASSUME NEW bids \in Seq(Bid), NEW r, Lists(r, bids), NEW i \in 1..Len(r), NEW floor \in Nat
    PROVE  LET S == {floor} \cup {x.amount : x \in {y \in Range(bids) : Before(r[i], y)}}
           IN  /\ PriceAt(r, i, floor) = Owed(Range(bids), floor, r[i])
               /\ PriceAt(r, i, floor) \in S
               /\ \A s \in S : s \in Nat /\ s <= PriceAt(r, i, floor)
<1> DEFINE S == {floor} \cup {x.amount : x \in {y \in Range(bids) : Before(r[i], y)}}
           v == PriceAt(r, i, floor)
<1>1. /\ Len(r) \in Nat
      /\ \A k \in 1..Len(r) : r[k] \in Bid /\ r[k].amount \in Nat
  BY BidsTyped DEF Lists
<1>2. v \in S /\ v \in Nat
  <2>1. CASE i < Len(r) /\ r[i + 1].amount > floor
    <3>1. i + 1 \in 1..Len(r) /\ i + 1 > i  BY <1>1, <2>1
    <3>2. r[i + 1] \in {y \in Range(bids) : Before(r[i], y)}  BY <3>1, BeatenAreBelow
    <3>. QED  BY <1>1, <2>1, <3>1, <3>2 DEF PriceAt
  <2>2. CASE ~(i < Len(r) /\ r[i + 1].amount > floor)
    BY <2>2 DEF PriceAt
  <2>. QED  BY <2>1, <2>2
<1>3. floor <= v
  BY <1>1 DEF PriceAt
<1>4. ASSUME NEW y \in Range(bids), Before(r[i], y)
      PROVE  y.amount \in Nat /\ y.amount <= v
  <2>1. PICK k \in 1..Len(r) : k > i /\ y = r[k]  BY <1>4, BeatenAreBelow
  <2>2. i + 1 \in 1..Len(r) /\ i < Len(r)  BY <1>1, <2>1
  <2>3. r[k].amount <= r[i + 1].amount
    <3>1. CASE k = i + 1  BY <1>1, <2>2, <3>1
    <3>2. CASE k > i + 1  BY <2>2, <3>2, BeatenAreBelow
    <3>. QED  BY <1>1, <2>1, <3>1, <3>2
  <2>4. r[i + 1].amount <= v  BY <1>1, <2>2 DEF PriceAt
  <2>. QED  BY <1>1, <1>2, <2>1, <2>2, <2>3, <2>4
<1>5. \A s \in S : s \in Nat /\ s <= v  BY <1>3, <1>4
<1>6. Max(S) = v
  <2> HIDE DEF S, v
  <2>1. S \subseteq Int  BY <1>5
  <2>. QED  BY <1>2, <1>5, <2>1, MaximumIs
<1>7. Owed(Range(bids), floor, r[i]) = v
  BY <1>6 DEF Owed
<1>. QED  BY <1>2, <1>5, <1>7

(* What a bid owes: no less than the reserve or than any bid it beats, and *)
(* one of these; hence no more than it bid, if it bid the reserve.         *)
LEMMA OwedIs ==
    ASSUME NEW bids \in Seq(Bid), Distinct(bids), NEW floor \in Nat, NEW b \in Range(bids)
    PROVE  LET owed == Owed(Range(bids), floor, b)
           IN  /\ owed \in Nat /\ owed >= floor
               /\ \A y \in Range(bids) : Before(b, y) => owed >= y.amount
               /\ owed = floor \/ \E y \in Range(bids) : Before(b, y) /\ owed = y.amount
               /\ b.amount >= floor => owed <= b.amount
<1> DEFINE r == Ranked(bids)
<1>1. Lists(r, bids)  BY RankedLists
<1> HIDE DEF r
<1>2. PICK i \in 1..Len(r) : b = r[i]
  <2>1. Range(r) = Range(bids) /\ DOMAIN r = 1..Len(r)  BY <1>1, BidsTyped DEF Lists
  <2>. QED  BY <2>1 DEF Range
<1> DEFINE owed == Owed(Range(bids), floor, r[i])
           S == {floor} \cup {x.amount : x \in {y \in Range(bids) : Before(r[i], y)}}
<1>3. owed \in S /\ \A s \in S : s \in Nat /\ s <= owed
  BY <1>1, PriceIsOwed
<1> HIDE DEF owed
<1>4. /\ owed \in Nat /\ owed >= floor
      /\ \A y \in Range(bids) : Before(b, y) => owed >= y.amount
      /\ owed = floor \/ \E y \in Range(bids) : Before(b, y) /\ owed = y.amount
  BY <1>2, <1>3
<1>5. \A y \in Range(bids) : Before(b, y) => y.amount <= b.amount
  <2>1. \A k \in 1..Len(bids) : bids[k] \in Bid /\ DOMAIN bids = 1..Len(bids)  BY BidsTyped
  <2>2. Range(bids) \subseteq Bid  BY <2>1 DEF Range
  <2>. QED  BY <2>2, BeforeIsOrder
<1>6. b.amount >= floor => owed <= b.amount  BY <1>4, <1>5
<1>. QED  BY <1>2, <1>4, <1>6 DEF owed

(* The best-ranked of those entitled.                                      *)
Best(bids, floor, who, b) ==
    /\ b \in Entitled(bids, floor, who)
    /\ \A x \in Entitled(bids, floor, who) \ {b} : Before(b, x)

LEMMA StopsAtEntitled ==
    ASSUME NEW bids \in Seq(Bid), NEW r, Lists(r, bids), NEW floor \in Nat,
           NEW who, NEW i \in 1..Len(r)
    PROVE  i \in Stops(r, floor, who) <=> r[i] \in Entitled(Range(bids), floor, who)
<1>1. /\ Len(r) \in Nat /\ DOMAIN r = 1..Len(r) /\ r[i] \in Range(bids)
      /\ \A k \in 1..Len(r) : r[k] \in Bid /\ r[k].amount \in Nat
  <2>1. /\ Len(r) \in Nat /\ DOMAIN r = 1..Len(r)
        /\ \A k \in 1..Len(r) : r[k] \in Bid /\ r[k].amount \in Nat
    BY BidsTyped DEF Lists
  <2>2. r[i] \in Range(bids)  BY <2>1 DEF Lists, Range
  <2>. QED  BY <2>1, <2>2
<1>2. (\A j \in 1..i : r[j].amount >= floor) <=> r[i].amount >= floor
  <2>1. \A j \in 1..i : j \in 1..Len(r) /\ (j < i \/ j = i)  BY <1>1
  <2>2. \A j \in 1..i : r[j].amount >= r[i].amount  BY <1>1, <2>1, BeatenAreBelow
  <2>3. i \in 1..i  BY <1>1
  <2>. QED  BY <1>1, <2>1, <2>2, <2>3
<1> DEFINE price == PriceAt(r, i, floor)
<1>3. price = Owed(Range(bids), floor, r[i]) /\ price \in Nat
  BY PriceIsOwed
<1>4. CanPay(who, r[i].bidder, price) <=>
          (~who.on \/ r[i].bidder \in who.unread \/ who.limit[r[i].bidder] >= price)
  BY DEF CanPay
<1> HIDE DEF price
<1>. QED
  BY <1>1, <1>2, <1>3, <1>4 DEF Stops, Entitled, price

(* What clearing a book whose openings check out must answer: nothing when *)
(* nobody is entitled, and otherwise the best-ranked of those entitled, of *)
(* whom there is exactly one, at what it owes.                             *)
LEMMA ClearingIs ==
    ASSUME NEW bids \in Seq(Bid), Distinct(bids), bids # <<>>, NEW floor \in Nat,
           NEW who, \A i \in DOMAIN bids : Opens(bids[i]),
           NEW recorded, recorded # <<>>, MatchesRecorded(recorded, bids)
    PROVE  LET out == ClearScreened(recorded, bids, floor, who)
               all == Range(bids)
           IN  /\ Entitled(all, floor, who) = {} =>
                     out = Refused(IF who.on THEN "NoSolventBid" ELSE "ReserveUnmet")
               /\ Entitled(all, floor, who) # {} => \E b : Best(all, floor, who, b)
               /\ \A b : Best(all, floor, who, b) =>
                     out = Awarded(b.bidder, Owed(all, floor, b), recorded)
<1> DEFINE r == Ranked(bids)
           all == Range(bids)
           E == Entitled(all, floor, who)
           stops == Stops(r, floor, who)
           i == Min(stops)
           out == ClearScreened(recorded, bids, floor, who)
<1>1. out = Walk(recorded, r, floor, who)
  BY DEF ClearScreened
<1>2. Lists(r, bids)  BY RankedLists
<1> HIDE DEF r
<1>3. /\ Len(r) \in Nat /\ DOMAIN r = 1..Len(r) /\ Range(r) = all
      /\ \A k \in 1..Len(r) : r[k] \in Bid
  BY <1>2, BidsTyped DEF Lists
<1>4. \A k \in 1..Len(r) : k \in stops <=> r[k] \in E
  BY <1>2, StopsAtEntitled
<1>5. stops \subseteq 1..Len(r)  BY <1>3 DEF Stops
<1>6. \A b \in E : \E k \in 1..Len(r) : b = r[k]
  BY <1>3 DEF Entitled, Range
<1>7. E = {} <=> stops = {}  BY <1>4, <1>5, <1>6
<1> HIDE DEF stops, E
<1>8. ASSUME E # {}
      PROVE  /\ Best(all, floor, who, r[i])
             /\ out = Awarded(r[i].bidder, Owed(all, floor, r[i]), recorded)
  <2>1. stops # {} /\ stops \subseteq Nat  BY <1>5, <1>7, <1>8
  <2>2. i \in stops /\ \A k \in stops : i <= k  BY <2>1, LeastNatural
  <2> HIDE DEF i
  <2>3. i \in 1..Len(r) /\ r[i] \in E  BY <1>4, <1>5, <2>2
  <2>4. ASSUME NEW x \in E \ {r[i]}  PROVE Before(r[i], x)
    <3>1. PICK k \in 1..Len(r) : x = r[k]  BY <1>6
    <3>2. k \in stops /\ k # i  BY <1>4, <2>4, <3>1
    <3>3. i < k  BY <2>2, <2>3, <3>1, <3>2
    <3>. QED  BY <1>2, <2>3, <3>1, <3>3 DEF Lists
  <2>5. PriceAt(r, i, floor) = Owed(all, floor, r[i])
    BY <1>2, <2>3, PriceIsOwed
  <2>6. out = Awarded(r[i].bidder, PriceAt(r, i, floor), recorded)
    BY <1>1, <2>1 DEF Walk, stops, i
  <2>. QED  BY <2>3, <2>4, <2>5, <2>6 DEF Best, E
<1>9. ASSUME E = {}
      PROVE  out = Refused(IF who.on THEN "NoSolventBid" ELSE "ReserveUnmet")
  BY <1>1, <1>7, <1>9 DEF Walk, stops
<1>10. ASSUME NEW b, Best(all, floor, who, b)
       PROVE  out = Awarded(b.bidder, Owed(all, floor, b), recorded)
  <2>1. E # {} /\ b \in E /\ \A x \in E \ {b} : Before(b, x)  BY <1>10 DEF Best, E
  <2>2. Best(all, floor, who, r[i])  BY <1>8, <2>1
  <2> HIDE DEF i
  <2>3. r[i] \in E /\ \A x \in E \ {r[i]} : Before(r[i], x)  BY <2>2 DEF Best, E
  <2>4. b \in Bid /\ r[i] \in Bid  BY <1>3, <1>6, <2>1, <2>3
  <2>5. b = r[i]  BY <2>1, <2>3, <2>4, BeforeIsOrder
  <2>. QED  BY <1>8, <2>1, <2>5 DEF i
<1>. QED  BY <1>8, <1>9, <1>10 DEF E

-----------------------------------------------------------------------------
(***************************************************************************)
(* A book whose bidders are named by their addresses, as every bid sent by *)
(* the chain is: openings that check out, one for each bidder, so that no  *)
(* two commitments agree.                                                  *)
(***************************************************************************)
SealedBook(bids) ==
    /\ bids \in Seq(Bid)
    /\ \A i \in DOMAIN bids : Opens(bids[i]) /\ bids[i].addr = bids[i].bidder
    /\ \A i, j \in DOMAIN bids : bids[i].bidder = bids[j].bidder => i = j

LEMMA SealedIsDistinct ==
    ASSUME NEW bids, SealedBook(bids)
    PROVE  Distinct(bids)
<1> SUFFICES ASSUME NEW i \in DOMAIN bids, NEW j \in DOMAIN bids,
                    bids[i].commitment = bids[j].commitment
             PROVE  i = j
  BY DEF Distinct
<1> DEFINE opening(b) == [amount |-> b.amount, nonce |-> b.nonce, bidder |-> b.addr]
<1>1. bids[i] \in Bid /\ bids[j] \in Bid /\ Opens(bids[i]) /\ Opens(bids[j])
  BY BidsTyped DEF SealedBook
<1>2. opening(bids[i]) \in Opening /\ opening(bids[j]) \in Opening
  BY <1>1 DEF Bid, Opening
<1>3. Hash[opening(bids[i])] = Hash[opening(bids[j])]
  BY <1>1 DEF Opens, Commit
<1>4. opening(bids[i]) = opening(bids[j])
  BY <1>2, <1>3, HashAssumption
<1>5. bids[i].bidder = bids[j].bidder  BY <1>4 DEF SealedBook
<1>. QED  BY <1>5 DEF SealedBook

LEMMA RecordedIs ==
    ASSUME NEW bids \in Seq(Bid)
    PROVE  /\ RecordedOf(bids) \in Seq(Nat)
           /\ Len(RecordedOf(bids)) = Len(bids)
           /\ DOMAIN RecordedOf(bids) = 1..Len(bids)
           /\ \A i \in 1..Len(bids) : RecordedOf(bids)[i] = bids[i].commitment
           /\ RecordedOf(bids) = <<>> <=> bids = <<>>
           /\ MatchesRecorded(RecordedOf(bids), bids)
<1>1. RecordedOf(bids) \in [1..Len(bids) -> Nat] /\ Len(bids) \in Nat
  BY BidsTyped DEF RecordedOf
<1>2. RecordedOf(bids) \in Seq(Nat) /\ Len(RecordedOf(bids)) = Len(bids)
  BY <1>1
<1>3. RecordedOf(bids) = <<>> <=> bids = <<>>
  BY <1>2, EmptySeq
<1>4. MatchesRecorded(RecordedOf(bids), bids)
  BY DEF MatchesRecorded, RecordedOf
<1>. QED  BY <1>1, <1>2, <1>3, <1>4, BidsTyped DEF RecordedOf

(* As many bids as places, and every commitment counted once.              *)
LEMMA CountIs ==
    ASSUME NEW bids \in Seq(Bid), Distinct(bids)
    PROVE  /\ IsFiniteSet(Range(bids)) /\ Cardinality(Range(bids)) = Len(bids)
           /\ Digest(RecordedOf(bids)) = [c \in {b.commitment : b \in Range(bids)} |-> 1]
<1>1. Len(bids) \in Nat /\ DOMAIN bids = 1..Len(bids)  BY BidsTyped
<1>2. bids \in Surjection(1..Len(bids), Range(bids))
  BY <1>1 DEF Surjection, Range
<1>3. bids \in Injection(1..Len(bids), Range(bids))
  BY <1>1, <1>2 DEF Injection, IsInjective, Surjection, Distinct
<1>4. IsFiniteSet(1..Len(bids)) /\ Cardinality(1..Len(bids)) = Len(bids)
  BY <1>1, FS_Interval
<1>5. IsFiniteSet(Range(bids)) /\ Cardinality(Range(bids)) = Len(bids)
  BY <1>2, <1>3, <1>4, FS_Surjection
<1> DEFINE s == RecordedOf(bids)
<1>6. DOMAIN s = 1..Len(bids) /\ \A i \in 1..Len(bids) : s[i] = bids[i].commitment
  BY RecordedIs
<1> HIDE DEF s
<1>7. Range(s) = {b.commitment : b \in Range(bids)}
  BY <1>1, <1>6 DEF Range
<1>8. ASSUME NEW c \in Range(s)  PROVE Cardinality({i \in DOMAIN s : s[i] = c}) = 1
  <2>1. PICK i \in 1..Len(bids) : s[i] = c  BY <1>6 DEF Range
  <2>2. {k \in DOMAIN s : s[k] = c} = {i}
    BY <1>1, <1>6, <2>1 DEF Distinct
  <2>. QED  BY <2>2, FS_Singleton
<1>9. ToBag(s) = [c \in Range(s) |-> 1]
  BY <1>8 DEF ToBag
<1>. QED  BY <1>5, <1>7, <1>9 DEF Digest, s

(* Clearing a sealed book: what comes out is determined by the set of bids *)
(* and is the second price over it.                                        *)
LEMMA ClearingOfBook ==
    ASSUME NEW bids, SealedBook(bids), NEW floor \in Nat, NEW who
    PROVE  LET out == ClearScreened(RecordedOf(bids), bids, floor, who)
               all == Range(bids)
           IN  /\ bids = <<>> => out = Refused("NoBids") /\ all = {}
               /\ bids # <<>> /\ Entitled(all, floor, who) = {} =>
                     out = Refused(IF who.on THEN "NoSolventBid" ELSE "ReserveUnmet")
               /\ Entitled(all, floor, who) # {} => \E b : Best(all, floor, who, b)
               /\ \A b : Best(all, floor, who, b) =>
                     out = Awarded(b.bidder, Owed(all, floor, b), RecordedOf(bids))
<1>1. bids \in Seq(Bid) /\ Distinct(bids)  BY SealedIsDistinct DEF SealedBook
<1>2. CASE bids = <<>>
  <2>1. Range(bids) = {}  BY <1>2 DEF Range
  <2>2. Entitled(Range(bids), floor, who) = {}  BY <2>1 DEF Entitled
  <2>3. \A b : ~Best(Range(bids), floor, who, b)  BY <2>2 DEF Best
  <2>. QED  BY <1>2, <2>1, <2>2, <2>3 DEF ClearScreened
<1>3. CASE bids # <<>>
  <2> DEFINE recorded == RecordedOf(bids)
  <2>1. recorded # <<>> /\ MatchesRecorded(recorded, bids)  BY <1>1, <1>3, RecordedIs
  <2>2. \A i \in DOMAIN bids : Opens(bids[i])  BY DEF SealedBook
  <2> HIDE DEF recorded
  <2>. QED  BY <1>1, <1>3, <2>1, <2>2, ClearingIs DEF recorded
<1>. QED  BY <1>2, <1>3

LEMMA BookAtSecondPrice ==
    ASSUME NEW bids, SealedBook(bids), NEW floor \in Nat, NEW who
    PROVE  SecondPriceOf(Range(bids), floor, who,
                         ClearScreened(RecordedOf(bids), bids, floor, who))
<1> DEFINE out == ClearScreened(RecordedOf(bids), bids, floor, who)
           all == Range(bids)
<1>1. Cardinality(all) = Len(RecordedOf(bids))
  BY SealedIsDistinct, CountIs, RecordedIs DEF SealedBook
<1>2. CASE Entitled(all, floor, who) = {}
  <2>1. out = Refused("NoBids") \/ out = Refused(IF who.on THEN "NoSolventBid" ELSE "ReserveUnmet")
    BY <1>2, ClearingOfBook
  <2>2. ~out.ok  BY <2>1 DEF Refused
  <2>. QED  BY <1>2, <2>2 DEF SecondPriceOf
<1>3. CASE Entitled(all, floor, who) # {}
  <2>1. PICK b : Best(all, floor, who, b)  BY <1>3, ClearingOfBook
  <2>2. out = Awarded(b.bidder, Owed(all, floor, b), RecordedOf(bids))  BY <2>1, ClearingOfBook
  <2> HIDE DEF out
  <2>3. /\ out.ok /\ out.winner = b.bidder /\ out.price = Owed(all, floor, b)
        /\ out.count = Cardinality(all)
    BY <1>1, <2>2 DEF Awarded
  <2>. QED  BY <1>3, <2>1, <2>3 DEF SecondPriceOf, Best, out
<1>. QED  BY <1>2, <1>3

-----------------------------------------------------------------------------
(***************************************************************************)
(* The book one clearing works on.                                         *)
(***************************************************************************)
ClearingInv ==
    /\ SealedBook(book)
    /\ reserve \in Amounts
    /\ screen \in Screens
    /\ outcome \in {NotYet, ClearScreened(RecordedOf(book), book, reserve, screen)}

LEMMA AppendKeepsBook ==
    ASSUME NEW bids, SealedBook(bids), NEW new \in Bid, Opens(new),
           new.addr = new.bidder, new.bidder \notin BiddersOf(bids)
    PROVE  /\ SealedBook(Append(bids, new))
           /\ RecordedOf(Append(bids, new)) = Append(RecordedOf(bids), new.commitment)
<1> DEFINE s == Append(bids, new)
           n == Len(bids)
<1>1. /\ s \in Seq(Bid) /\ Len(s) = n + 1 /\ s[n + 1] = new
      /\ n \in Nat /\ DOMAIN s = 1..(n + 1) /\ DOMAIN bids = 1..n
      /\ \A i \in 1..n : s[i] = bids[i]
  BY AppendProperties, LenProperties DEF SealedBook
<1> HIDE DEF s
<1>2. \A i \in DOMAIN s : i \in 1..n \/ i = n + 1
  BY <1>1
<1>3. \A i \in 1..n : bids[i].bidder # new.bidder
  BY <1>1 DEF BiddersOf
<1>4. SealedBook(s)  BY <1>1, <1>2, <1>3 DEF SealedBook
<1>5. RecordedOf(s) = Append(RecordedOf(bids), new.commitment)
  <2> DEFINE r == RecordedOf(bids)
             q == RecordedOf(s)
             c == new.commitment
  <2>1. /\ r \in Seq(Nat) /\ Len(r) = n /\ \A i \in 1..n : r[i] = bids[i].commitment
        /\ q \in Seq(Nat) /\ Len(q) = n + 1 /\ \A i \in 1..(n + 1) : q[i] = s[i].commitment
        /\ c \in Nat
    BY <1>1, RecordedIs DEF SealedBook, Bid, Commitment
  <2> HIDE DEF r, q, c
  <2>2. /\ Append(r, c) \in Seq(Nat) /\ Len(Append(r, c)) = n + 1 /\ Append(r, c)[n + 1] = c
        /\ \A i \in 1..n : Append(r, c)[i] = r[i]
    BY <2>1, AppendProperties
  <2>3. \A i \in 1..(n + 1) : q[i] = Append(r, c)[i]
    <3>1. \A i \in 1..(n + 1) : i \in 1..n \/ i = n + 1  BY <1>1
    <3>2. q[n + 1] = c  BY <1>1, <2>1 DEF c
    <3>. QED  BY <1>1, <2>1, <2>2, <3>1, <3>2
  <2>4. q = Append(r, c)  BY <2>1, <2>2, <2>3, SeqEqual
  <2>. QED  BY <2>4 DEF q, r, c
<1>. QED  BY <1>4, <1>5 DEF s

LEMMA ArrivalKeepsBook ==
    ASSUME SealedBook(book), NEW b \in Bidders, NEW amount \in Amounts, NEW nonce \in Nonces,
           b \notin BiddersOf(book)
    PROVE  SealedBook(Append(book, BidOf(b, amount, nonce)))
<1> DEFINE new == BidOf(b, amount, nonce)
<1>1. new \in Bid /\ Opens(new) /\ new.bidder = b /\ new.addr = b
  <2>1. Commit(amount, nonce, b) \in Nat
    <3>1. [amount |-> amount, nonce |-> nonce, bidder |-> b] \in Opening  BY DEF Opening
    <3>. QED  BY <3>1, HashAssumption DEF Commit
  <2>. QED  BY <2>1, NamesAssumption DEF BidOf, Bid, Opens, Commitment
<1> HIDE DEF new
<1>2. SealedBook(Append(book, new))  BY <1>1, AppendKeepsBook
<1>. QED  BY <1>2 DEF new

LEMMA ClearingInvHolds == Spec => []ClearingInv
<1>1. Init => ClearingInv
  BY DEF Init, ClearingInv, SealedBook
<1>2. ClearingInv /\ [Next]_vars => ClearingInv'
  <2> SUFFICES ASSUME ClearingInv, [Next]_vars PROVE ClearingInv'  OBVIOUS
  <2>1. ASSUME NEW b \in Bidders, NEW amount \in Amounts, NEW nonce \in Nonces,
               Arrive(b, amount, nonce)
        PROVE  ClearingInv'
    <3>1. SealedBook(book')  BY <2>1, ArrivalKeepsBook DEF Arrive, ClearingInv
    <3>. QED  BY <2>1, <3>1 DEF Arrive, ClearingInv
  <2>2. CASE ClearBook  BY <2>2 DEF ClearBook, ClearingInv
  <2>3. CASE UNCHANGED vars  BY <2>3 DEF vars, ClearingInv
  <2>. QED  BY <2>1, <2>2, <2>3 DEF Next
<1>. QED  BY <1>1, <1>2, PTL DEF Spec

(* Clearing awards to the best-ranked bid among those that meet the        *)
(* reserve and can pay what they would owe, at the best price it beats,    *)
(* and to nobody when there is none: for every book and every screen.      *)
THEOREM SecondPriceCleared == Spec => []ClearsAtSecondPrice
<1>1. ClearingInv => ClearsAtSecondPrice
  BY BookAtSecondPrice, AmountsAssumption DEF ClearingInv, ClearsAtSecondPrice, Books
<1>. QED  BY <1>1, ClearingInvHolds, PTL

-----------------------------------------------------------------------------
(***************************************************************************)
(* The same bids in another order.                                         *)
(***************************************************************************)
LEMMA Relisted ==
    ASSUME NEW bids, SealedBook(bids), NEW s \in SetToSeqs(Range(bids))
    PROVE  SealedBook(s) /\ Range(s) = Range(bids) /\ Len(s) = Len(bids)
<1> DEFINE all == Range(bids)
           n == Len(bids)
<1>1. bids \in Seq(Bid) /\ Distinct(bids)  BY SealedIsDistinct DEF SealedBook
<1>2. n \in Nat /\ DOMAIN bids = 1..n /\ all \subseteq Bid  BY <1>1, BidsTyped DEF Range
<1>3. IsFiniteSet(all) /\ Cardinality(all) = n  BY <1>1, CountIs
<1>4. s \in [1..n -> all] /\ \A i, j \in 1..n : i # j => s[i] # s[j]
  BY <1>3 DEF SetToSeqs
<1>5. s \in Injection(1..n, all)
  BY <1>4 DEF Injection, IsInjective
<1>6. Cardinality(1..n) = n
  <2>1. \A m \in Nat : Cardinality(1..m) = m
    <3> SUFFICES ASSUME NEW m \in Nat  PROVE Cardinality(1..m) = m  OBVIOUS
    <3>1. 1 \in Int /\ m \in Int  OBVIOUS
    <3>2. Cardinality(1..m) = IF 1 > m THEN 0 ELSE m - 1 + 1  BY <3>1, FS_Interval
    <3>. QED  BY <3>2
  <2>. QED  BY <1>2, <2>1
<1>7. s \in Surjection(1..n, all)
  BY <1>3, <1>5, <1>6, FS_Injection
<1>8. Range(s) = all
  BY <1>4, <1>7 DEF Surjection, Range
<1>9. s \in Seq(Bid) /\ Len(s) = n
  <2>1. s \in [1..n -> Bid]  BY <1>2, <1>4
  <2>. QED  BY <1>2, <2>1
<1>10. ASSUME NEW b \in all  PROVE Opens(b) /\ b.addr = b.bidder
  BY <1>2 DEF Range, SealedBook
<1>11. ASSUME NEW b \in all, NEW c \in all, b.bidder = c.bidder  PROVE b = c
  BY <1>11 DEF Range, SealedBook
<1>. QED  BY <1>4, <1>8, <1>9, <1>10, <1>11 DEF SealedBook

LEMMA SameClearing ==
    ASSUME NEW bids, SealedBook(bids), NEW s, SealedBook(s),
           Range(s) = Range(bids), Len(s) = Len(bids), NEW floor \in Nat, NEW who
    PROVE  ClearScreened(RecordedOf(s), s, floor, who) =
               ClearScreened(RecordedOf(bids), bids, floor, who)
<1> DEFINE all == Range(bids)
<1>1. /\ bids \in Seq(Bid) /\ Distinct(bids) /\ s \in Seq(Bid) /\ Distinct(s)
  BY SealedIsDistinct DEF SealedBook
<1>2. s = <<>> <=> bids = <<>>
  BY <1>1, EmptySeq
<1>3. CASE Entitled(all, floor, who) = {}
  BY <1>2, <1>3, ClearingOfBook
<1>4. CASE Entitled(all, floor, who) # {}
  <2>1. PICK b : Best(all, floor, who, b)  BY <1>4, ClearingOfBook
  <2>2. /\ Len(RecordedOf(s)) = Len(RecordedOf(bids))
        /\ Digest(RecordedOf(s)) = Digest(RecordedOf(bids))
    BY <1>1, RecordedIs, CountIs
  <2>3. \A p : Awarded(b.bidder, p, RecordedOf(s)) = Awarded(b.bidder, p, RecordedOf(bids))
    BY <2>2 DEF Awarded
  <2>4. ClearScreened(RecordedOf(s), s, floor, who) =
            Awarded(b.bidder, Owed(all, floor, b), RecordedOf(s))
    BY <2>1, ClearingOfBook
  <2>5. ClearScreened(RecordedOf(bids), bids, floor, who) =
            Awarded(b.bidder, Owed(all, floor, b), RecordedOf(bids))
    BY <2>1, ClearingOfBook
  <2>. QED  BY <2>3, <2>4, <2>5
<1>. QED  BY <1>3, <1>4

(* The order of arrival changes neither winner, price nor digest: two      *)
(* enclaves that hold the same bids agree exactly.                         *)
THEOREM OrderNeverMatters == Spec => []OrderIndependent
<1>1. ClearingInv => OrderIndependent
  <2> SUFFICES ASSUME ClearingInv, outcome # NotYet, NEW s \in SetToSeqs(Books)
               PROVE  ClearScreened(RecordedOf(s), s, reserve, screen) = outcome
    BY DEF OrderIndependent
  <2>1. reserve \in Nat /\ SealedBook(book)
    BY AmountsAssumption DEF ClearingInv
  <2>2. SealedBook(s) /\ Range(s) = Range(book) /\ Len(s) = Len(book)
    BY <2>1, Relisted DEF Books
  <2>3. outcome = ClearScreened(RecordedOf(book), book, reserve, screen)
    BY DEF ClearingInv
  <2>. QED  BY <2>1, <2>2, <2>3, SameClearing
<1>. QED  BY <1>1, ClearingInvHolds, PTL

(***************************************************************************)
(* A set from which a commitment is missing has another digest.            *)
(***************************************************************************)
LEMMA Trimmed ==
    ASSUME NEW bids, SealedBook(bids), NEW i \in DOMAIN bids
    PROVE  /\ RemoveAt(bids, i) \in Seq(Bid)
           /\ \A j \in DOMAIN RemoveAt(bids, i) :
                 RemoveAt(bids, i)[j].commitment # bids[i].commitment
<1> DEFINE n == Len(bids)
           a == SubSeq(bids, 1, i - 1)
           b == SubSeq(bids, i + 1, n)
           c == a \o b
<1>1. /\ bids \in Seq(Bid) /\ Distinct(bids) /\ n \in Nat /\ DOMAIN bids = 1..n /\ i \in 1..n
      /\ \A k \in 1..n : bids[k] \in Bid
  BY SealedIsDistinct, BidsTyped DEF SealedBook
<1>2. /\ a \in Seq(Bid) /\ Len(a) = i - 1 /\ \A k \in 1..(i - 1) : a[k] = bids[k]
  <2>1. \A k \in 1..(i - 1) : bids[k] \in Bid  BY <1>1
  <2>2. /\ a \in Seq(Bid) /\ Len(a) = IF 1 <= i - 1 THEN i - 1 - 1 + 1 ELSE 0
        /\ \A k \in 1..(i - 1 - 1 + 1) : a[k] = bids[1 + k - 1]
    BY <1>1, <2>1, SubSeqProperties
  <2>. QED  BY <1>1, <2>2
<1>3. /\ b \in Seq(Bid) /\ Len(b) = n - i /\ \A k \in 1..(n - i) : b[k] = bids[i + k]
  <2>1. \A k \in (i + 1)..n : bids[k] \in Bid  BY <1>1
  <2>2. /\ b \in Seq(Bid) /\ Len(b) = IF i + 1 <= n THEN n - (i + 1) + 1 ELSE 0
        /\ \A k \in 1..(n - (i + 1) + 1) : b[k] = bids[i + 1 + k - 1]
    BY <1>1, <2>1, SubSeqProperties
  <2> HIDE DEF b
  <2>3. Len(b) = n - i /\ n - (i + 1) + 1 = n - i  BY <1>1, <2>2
  <2>4. \A k \in 1..(n - i) : i + 1 + k - 1 = i + k  BY <1>1
  <2>5. \A k \in 1..(n - i) : b[k] = bids[i + 1 + k - 1]  BY <2>2, <2>3
  <2>. QED  BY <2>2, <2>3, <2>4, <2>5
<1> HIDE DEF a, b
<1>4. /\ c \in Seq(Bid) /\ DOMAIN c = 1..(n - 1)
      /\ \A k \in 1..(n - 1) : c[k] = IF k <= i - 1 THEN a[k] ELSE b[k - (i - 1)]
  <2>1. /\ c \in Seq(Bid) /\ Len(c) = Len(a) + Len(b)
        /\ \A k \in 1..(Len(a) + Len(b)) : c[k] = IF k <= Len(a) THEN a[k] ELSE b[k - Len(a)]
    BY <1>2, <1>3, ConcatProperties
  <2> HIDE DEF c
  <2>2. DOMAIN c = 1..Len(c)  BY <2>1, LenProperties
  <2>. QED  BY <1>1, <1>2, <1>3, <2>1, <2>2
<1> HIDE DEF c
<1>5. \A k \in 1..(n - 1) : \E j \in 1..n : j # i /\ c[k] = bids[j]
  <2> SUFFICES ASSUME NEW k \in 1..(n - 1)  PROVE \E j \in 1..n : j # i /\ c[k] = bids[j]
    OBVIOUS
  <2>1. CASE k <= i - 1
    <3>1. k \in 1..(i - 1) /\ k \in 1..n /\ k # i  BY <1>1, <2>1
    <3>. QED  BY <1>2, <1>4, <2>1, <3>1
  <2>2. CASE ~(k <= i - 1)
    <3>1. k - (i - 1) \in 1..(n - i) /\ i + (k - (i - 1)) = k + 1 /\ k + 1 \in 1..n /\ k + 1 # i
      BY <1>1, <2>2
    <3>2. c[k] = bids[i + (k - (i - 1))]  BY <1>3, <1>4, <2>2, <3>1
    <3>. QED  BY <3>1, <3>2
  <2>. QED  BY <2>1, <2>2
<1>6. \A k \in DOMAIN c : c[k].commitment # bids[i].commitment
  <2> SUFFICES ASSUME NEW k \in 1..(n - 1)
               PROVE  c[k].commitment # bids[i].commitment
    BY <1>4
  <2>1. PICK j \in 1..n : j # i /\ c[k] = bids[j]  BY <1>5
  <2>2. bids[j].commitment # bids[i].commitment  BY <1>1, <2>1 DEF Distinct
  <2>. QED  BY <2>1, <2>2
<1>7. RemoveAt(bids, i) = c  BY DEF RemoveAt, a, b, c
<1>. QED  BY <1>4, <1>6, <1>7

LEMMA BagOver ==
    ASSUME NEW s
    PROVE  DOMAIN ToBag(s) = {s[i] : i \in DOMAIN s}
  BY DEF ToBag, Range

(* Leaving out one recorded commitment, or one opening, is refused.        *)
THEOREM TrimmingRefused == Spec => []TrimmedSetRefused
<1>1. ClearingInv => TrimmedSetRefused
  <2> SUFFICES ASSUME ClearingInv, NEW i \in DOMAIN book
               PROVE  /\ ~ClearScreened(RecordedOf(book), RemoveAt(book, i), reserve, screen).ok
                      /\ ~ClearScreened(RecordedOf(RemoveAt(book, i)), book, reserve, screen).ok
    BY DEF TrimmedSetRefused
  <2> DEFINE cut == RemoveAt(book, i)
             c == book[i].commitment
  <2>1. cut \in Seq(Bid) /\ \A j \in DOMAIN cut : cut[j].commitment # c
    BY Trimmed DEF ClearingInv
  <2> HIDE DEF cut
  <2>2. \A x : DOMAIN ToBag(RecordedOf(x)) = {x[j].commitment : j \in DOMAIN x}
    <3> SUFFICES ASSUME NEW x
                 PROVE  DOMAIN ToBag(RecordedOf(x)) = {x[j].commitment : j \in DOMAIN x}
      OBVIOUS
    <3> DEFINE s == RecordedOf(x)
    <3>1. DOMAIN s = DOMAIN x /\ \A j \in DOMAIN x : s[j] = x[j].commitment  BY DEF RecordedOf
    <3>2. DOMAIN ToBag(s) = {s[j] : j \in DOMAIN s}  BY BagOver
    <3> HIDE DEF s
    <3>3. {s[j] : j \in DOMAIN s} = {x[j].commitment : j \in DOMAIN x}  BY <3>1
    <3>. QED  BY <3>2, <3>3 DEF s
  <2>3. c \in {book[j].commitment : j \in DOMAIN book}  OBVIOUS
  <2>4. c \notin {cut[j].commitment : j \in DOMAIN cut}  BY <2>1
  <2>5. c \in DOMAIN ToBag(RecordedOf(book)) /\ c \notin DOMAIN ToBag(RecordedOf(cut))
    BY <2>2, <2>3, <2>4
  <2>6. ~MatchesRecorded(RecordedOf(book), cut) /\ ~MatchesRecorded(RecordedOf(cut), book)
    BY <2>5 DEF MatchesRecorded, RecordedOf
  <2>. QED  BY <2>6 DEF ClearScreened, Refused, cut
<1>. QED  BY <1>1, ClearingInvHolds, PTL

-----------------------------------------------------------------------------
(***************************************************************************)
(* Bidding another amount.                                                 *)
(***************************************************************************)
LEMMA Rebid ==
    ASSUME NEW bids, SealedBook(bids), NEW i \in DOMAIN bids, NEW amount \in Amounts
    PROVE  LET new == BidOf(bids[i].bidder, amount, bids[i].nonce)
               s == [bids EXCEPT ![i] = new]
           IN  /\ SealedBook(s)
               /\ new.bidder = bids[i].bidder /\ new \in Range(s)
               /\ \A x \in Range(s) : x # new => x \in Range(bids) /\ x # bids[i]
               /\ \A x \in Range(bids) : x # bids[i] => x \in Range(s) /\ x # new
<1> DEFINE new == BidOf(bids[i].bidder, amount, bids[i].nonce)
           s == [bids EXCEPT ![i] = new]
<1>1. /\ Len(bids) \in Nat /\ DOMAIN bids = 1..Len(bids)
      /\ \A k \in 1..Len(bids) : bids[k] \in Bid
  BY BidsTyped DEF SealedBook
<1>2. new \in Bid /\ Opens(new) /\ new.bidder = bids[i].bidder /\ new.addr = new.bidder
  <2>1. bids[i].bidder \in Bidders /\ bids[i].nonce \in Nonces
    BY <1>1 DEF Bid, SealedBook
  <2>2. Commit(amount, bids[i].nonce, bids[i].bidder) \in Nat
    <3>1. [amount |-> amount, nonce |-> bids[i].nonce, bidder |-> bids[i].bidder] \in Opening
      BY <2>1 DEF Opening
    <3>. QED  BY <3>1, HashAssumption DEF Commit
  <2>. QED  BY <2>1, <2>2, NamesAssumption DEF BidOf, Bid, Opens, Commitment
<1> HIDE DEF new
<1>3. /\ DOMAIN s = 1..Len(bids) /\ s[i] = new
      /\ \A k \in 1..Len(bids) : k # i => s[k] = bids[k]
  BY <1>1
<1>4. s \in Seq(Bid)
  <2>1. s \in [1..Len(bids) -> Bid]  BY <1>1, <1>2
  <2>. QED  BY <1>1, <2>1
<1> HIDE DEF s
<1>5. \A k \in 1..Len(bids) : /\ s[k] \in Bid /\ Opens(s[k]) /\ s[k].addr = s[k].bidder
                              /\ s[k].bidder = bids[k].bidder
  BY <1>1, <1>2, <1>3 DEF SealedBook
<1>6. SealedBook(s)
  BY <1>1, <1>3, <1>4, <1>5 DEF SealedBook
<1>7. \A k \in 1..Len(bids) : k # i => bids[k].bidder # bids[i].bidder
  BY <1>1 DEF SealedBook
<1>8. new \in Range(s)  BY <1>1, <1>3 DEF Range
<1>9. ASSUME NEW x \in Range(s), x # new  PROVE x \in Range(bids) /\ x # bids[i]
  <2>1. PICK k \in 1..Len(bids) : x = s[k]  BY <1>3 DEF Range
  <2>2. k # i /\ x = bids[k]  BY <1>3, <1>9, <2>1
  <2>. QED  BY <1>1, <1>7, <2>2 DEF Range
<1>10. ASSUME NEW x \in Range(bids), x # bids[i]  PROVE x \in Range(s) /\ x # new
  <2>1. PICK k \in 1..Len(bids) : x = bids[k]  BY <1>1 DEF Range
  <2>2. k # i /\ x = s[k]  BY <1>3, <1>10, <2>1
  <2>3. x \in Range(s)  BY <1>3, <2>2 DEF Range
  <2>4. x.bidder # new.bidder  BY <1>2, <1>7, <2>1, <2>2
  <2>. QED  BY <2>3, <2>4
<1>. QED  BY <1>2, <1>6, <1>8, <1>9, <1>10 DEF new, s

(* Whether who finds b able to pay what it bid.                            *)
CanPayItsBid(who, b) == ~who.on \/ who.limit[b.bidder] >= b.amount

AllScreens ==
    {NoScreen} \cup {Screen(limit, unread) : limit \in [Bidders -> Nat], unread \in SUBSET Bidders}

LEMMA ScreensAre == Screens \subseteq AllScreens
<1>1. [Bidders -> Limits] \subseteq [Bidders -> Nat]  BY LimitsAssumption
<1>. QED  BY <1>1 DEF Screens, AllScreens

(* Whoever can pay its bid can pay what it would owe, which is no more.    *)
LEMMA SolventIsEntitled ==
    ASSUME NEW bids, SealedBook(bids), NEW floor \in Nat, NEW who \in AllScreens,
           NEW b \in Range(bids), CanPayItsBid(who, b), b.amount >= floor
    PROVE  b \in Entitled(Range(bids), floor, who)
<1> DEFINE owed == Owed(Range(bids), floor, b)
<1>1. b.amount \in Nat /\ b.bidder \in Bidders
  <2>1. PICK i \in DOMAIN bids : b = bids[i]  BY DEF Range
  <2>2. b.amount \in Nat /\ b.addr \in Bidders  BY <2>1, BidsTyped DEF SealedBook
  <2>. QED  BY <2>1, <2>2 DEF SealedBook
<1>2. owed \in Nat /\ owed <= b.amount
  BY SealedIsDistinct, OwedIs DEF SealedBook
<1> HIDE DEF owed
<1>3. CASE who = NoScreen  BY <1>3 DEF Entitled, NoScreen
<1>4. ASSUME NEW limit \in [Bidders -> Nat], NEW unread \in SUBSET Bidders,
             who = Screen(limit, unread)
      PROVE  b \in Entitled(Range(bids), floor, who)
  <2>1. who.on /\ who.limit[b.bidder] \in Nat  BY <1>1, <1>4 DEF Screen
  <2>2. owed <= who.limit[b.bidder]  BY <1>1, <1>2, <2>1 DEF CanPayItsBid
  <2>. QED  BY <2>2 DEF Entitled, owed
<1>. QED  BY <1>3, <1>4 DEF AllScreens

(* An award is the best-ranked bid's, and that bid is its bidder's only    *)
(* one; the price is the best it beats, so no more than it bid.            *)
LEMMA AwardIs ==
    ASSUME NEW bids, SealedBook(bids), NEW floor \in Nat, NEW who,
           NEW b \in Range(bids)
    PROVE  LET out == ClearScreened(RecordedOf(bids), bids, floor, who)
               owed == Owed(Range(bids), floor, b)
           IN  /\ out.ok /\ out.winner = b.bidder =>
                     Best(Range(bids), floor, who, b) /\ out.price = owed /\ owed <= b.amount
               /\ Best(Range(bids), floor, who, b) =>
                     out.ok /\ out.winner = b.bidder /\ out.price = owed
<1> DEFINE out == ClearScreened(RecordedOf(bids), bids, floor, who)
           all == Range(bids)
<1>1. \A w : Best(all, floor, who, w) =>
          out.ok /\ out.winner = w.bidder /\ out.price = Owed(all, floor, w)
  <2> SUFFICES ASSUME NEW w, Best(all, floor, who, w)
               PROVE  out.ok /\ out.winner = w.bidder /\ out.price = Owed(all, floor, w)
    OBVIOUS
  <2>1. out = Awarded(w.bidder, Owed(all, floor, w), RecordedOf(bids))  BY ClearingOfBook
  <2> HIDE DEF out
  <2>. QED  BY <2>1 DEF Awarded
<1>2. ASSUME out.ok, out.winner = b.bidder
      PROVE  /\ Best(all, floor, who, b) /\ out.price = Owed(all, floor, b)
             /\ Owed(all, floor, b) <= b.amount
  <2>1. PICK w : Best(all, floor, who, w)
    <3>1. CASE Entitled(all, floor, who) = {}
      <4>1. out = Refused("NoBids") \/ out = Refused(IF who.on THEN "NoSolventBid" ELSE "ReserveUnmet")
        BY <3>1, ClearingOfBook
      <4>2. ~out.ok  BY <4>1 DEF Refused
      <4>. QED  BY <1>2, <4>2
    <3>. QED  BY <3>1, ClearingOfBook
  <2>2. w.bidder = b.bidder /\ w \in all /\ w.amount >= floor
    BY <1>1, <1>2, <2>1 DEF Best, Entitled
  <2>3. w = b  BY <2>2 DEF SealedBook, Range
  <2>4. Owed(all, floor, b) <= b.amount
    BY <2>2, <2>3, SealedIsDistinct, OwedIs DEF SealedBook
  <2>. QED  BY <1>1, <2>1, <2>3, <2>4
<1>. QED  BY <1>1, <1>2

LEMMA RebiddingGainsNothing ==
    ASSUME NEW bids, SealedBook(bids), NEW floor \in Nat, NEW who \in AllScreens,
           \A b \in Range(bids) : CanPayItsBid(who, b),
           NEW i \in DOMAIN bids, NEW amount \in Amounts
    PROVE  LET s == [bids EXCEPT ![i] = BidOf(bids[i].bidder, amount, bids[i].nonce)]
           IN  Gain(bids[i], ClearScreened(RecordedOf(s), s, floor, who)) <=
                   Gain(bids[i], ClearScreened(RecordedOf(bids), bids, floor, who))
<1> DEFINE b == bids[i]
           new == BidOf(bids[i].bidder, amount, bids[i].nonce)
           s == [bids EXCEPT ![i] = new]
           all == Range(bids)
           out == ClearScreened(RecordedOf(bids), bids, floor, who)
           out2 == ClearScreened(RecordedOf(s), s, floor, who)
           p == Owed(all, floor, b)
           p2 == Owed(Range(s), floor, new)
<1>1. /\ SealedBook(s) /\ new.bidder = b.bidder /\ new \in Range(s)
      /\ \A x \in Range(s) : x # new => x \in all /\ x # b
      /\ \A x \in all : x # b => x \in Range(s) /\ x # new
  BY Rebid
<1>2. b \in all  BY DEF Range
<1>3. \A x \in all : x.amount \in Nat /\ x \in Bid
  BY BidsTyped DEF SealedBook, Range
<1> HIDE DEF s, new, b, all
<1>4. /\ p \in Nat /\ p2 \in Nat /\ p2 >= floor
      /\ \A y \in Range(s) : Before(new, y) => p2 >= y.amount
      /\ p = floor \/ \E y \in all : Before(b, y) /\ p = y.amount
  BY <1>1, <1>2, SealedIsDistinct, OwedIs DEF SealedBook, all
<1>5. /\ out.ok /\ out.winner = b.bidder => out.price = p /\ p <= b.amount
      /\ Best(all, floor, who, b) => out.ok /\ out.winner = b.bidder /\ out.price = p
  BY <1>2, AwardIs DEF all
<1>6. out2.ok /\ out2.winner = b.bidder =>
          Best(Range(s), floor, who, new) /\ out2.price = p2
  BY <1>1, AwardIs
<1> HIDE DEF out, out2, p, p2
<1>7. Gain(b, out) \in Nat  BY <1>2, <1>3, <1>4, <1>5 DEF Gain
<1>8. CASE ~(out2.ok /\ out2.winner = b.bidder)
  <2>1. Gain(b, out2) = 0  BY <1>8 DEF Gain
  <2>. QED  BY <1>7, <2>1 DEF b, out, out2, s, new
<1>9. CASE out2.ok /\ out2.winner = b.bidder
  <2>1. Gain(b, out2) = b.amount - p2 /\ Best(Range(s), floor, who, new)
    BY <1>6, <1>9 DEF Gain
  <2>2. ASSUME NEW x \in all, x # b  PROVE x.amount <= p2
    <3>1. x \in Range(s) /\ x # new  BY <1>1, <2>2
    <3>2. CASE x.amount >= floor
      <4>1. CanPayItsBid(who, x)  BY DEF all
      <4>2. x \in Entitled(Range(s), floor, who)
        BY <1>1, <3>1, <3>2, <4>1, SolventIsEntitled
      <4>3. Before(new, x)  BY <2>1, <3>1, <4>2 DEF Best
      <4>. QED  BY <1>3, <1>4, <3>1, <4>3
    <3>3. CASE ~(x.amount >= floor)  BY <1>3, <1>4, <3>3
    <3>. QED  BY <3>2, <3>3
  <2>3. CASE b.amount <= p2
    <3>1. Gain(b, out2) <= 0 /\ Gain(b, out2) \in Int  BY <1>2, <1>3, <1>4, <2>1, <2>3
    <3>2. Gain(b, out2) <= Gain(b, out)  BY <1>7, <3>1
    <3>. QED  BY <3>2 DEF b, out, out2, s, new
  <2>4. CASE ~(b.amount <= p2)
    <3>1. \A x \in all : x # b => b.amount > x.amount
      BY <1>2, <1>3, <1>4, <2>2, <2>4
    <3>2. b.amount >= floor  BY <1>2, <1>3, <1>4, <2>4
    <3>3. b \in Entitled(all, floor, who)
      BY <1>2, <3>2, SolventIsEntitled DEF all
    <3>4. \A x \in Entitled(all, floor, who) \ {b} : Before(b, x)
      BY <3>1 DEF Entitled, Before
    <3>5. out.ok /\ out.winner = b.bidder /\ out.price = p
      BY <1>5, <3>3, <3>4 DEF Best
    <3>6. p <= p2
      <4>1. CASE p = floor  BY <1>4, <4>1
      <4>2. CASE \E y \in all : Before(b, y) /\ p = y.amount
        <5>1. PICK y \in all : Before(b, y) /\ p = y.amount  BY <4>2
        <5>2. y # b  BY <1>2, <1>3, <5>1, BeforeIsOrder
        <5>. QED  BY <2>2, <5>1, <5>2
      <4>. QED  BY <1>4, <4>1, <4>2
    <3>7. Gain(b, out) = b.amount - p  BY <3>5 DEF Gain
    <3>8. Gain(b, out2) <= Gain(b, out)  BY <1>2, <1>3, <1>4, <2>1, <3>6, <3>7
    <3>. QED  BY <3>8 DEF b, out, out2, s, new
  <2>. QED  BY <2>3, <2>4
<1>. QED  BY <1>8, <1>9

(* Where everybody can pay what it bid, no bidder of any book would have   *)
(* gained by bidding anything else, screened or not.                       *)
THEOREM NobodyShades == Spec => []SolventBookNeverShades
<1>1. ClearingInv => SolventBookNeverShades
  <2> SUFFICES ASSUME ClearingInv, outcome # NotYet, \A b \in Books : Solvent(b),
                      NEW i \in DOMAIN book, NEW amount \in Amounts
               PROVE  GainFromBidding(i, amount) <= Gain(book[i], outcome)
    BY DEF SolventBookNeverShades, NoReasonToShade
  <2>1. SealedBook(book) /\ reserve \in Nat /\ screen \in AllScreens
    BY ScreensAre, AmountsAssumption DEF ClearingInv
  <2>2. \A b \in Range(book) : CanPayItsBid(screen, b)
    BY DEF Solvent, CanPayItsBid, Books
  <2>3. outcome = ClearScreened(RecordedOf(book), book, reserve, screen)
    BY DEF ClearingInv
  <2>. QED  BY <2>1, <2>2, <2>3, RebiddingGainsNothing DEF GainFromBidding
<1>. QED  BY <1>1, ClearingInvHolds, PTL
=============================================================================
