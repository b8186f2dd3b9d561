-------------------------- MODULE TestSetupProofs --------------------------
(***************************************************************************)
(* test-setup for every number of symbols, tokens and tries: pairs.json    *)
(* names tokens that are there, one for each symbol, and "Setup complete!" *)
(* is said of tokens the contract can pull.                                *)
(***************************************************************************)
EXTENDS TestSetup, LibraryFacts

(* The run in hand: which token it is at, and what it has done before it.  *)
AllOf == {"record", "mint", "approve", "complete"}

Runs(n) == [at : {"idle", "deploy"} \cup AllOf, contract : Contracts \cup {0}, fresh : BOOLEAN,
            addrs : Seq(1..n), next : 1..Symbols]

OneToOne(addrs) == \A i, j \in DOMAIN addrs : addrs[i] = addrs[j] => i = j

RunOK(run, n) ==
    /\ run \in Runs(n) /\ OneToOne(run.addrs)
    /\ run.at = "deploy" => Len(run.addrs) = run.next - 1
    /\ run.at \in AllOf => Len(run.addrs) = Symbols
    /\ run.at \in {"deploy", "record", "mint"} => run.fresh = TRUE
    /\ run.at = "record" => run.next = 1

(* Tokens minted so far, by a run that deployed them.                      *)
MintedBefore(run) ==
    CASE run.at = "mint" -> 1..(run.next - 1)
      [] run.at \in {"approve", "complete"} /\ run.fresh = TRUE -> 1..Symbols
      [] OTHER -> {}

ApprovedBefore(run) ==
    CASE run.at = "approve" -> 1..(run.next - 1) [] run.at = "complete" -> 1..Symbols [] OTHER -> {}

ChainOK ==
    /\ tokens \in 0..MaxTokens /\ minted \in [1..MaxTokens -> Nat] /\ DOMAIN allowance = 1..MaxTokens

PairsOK(file, n) ==
    file # <<>> => \E addrs \in Seq(1..n) :
        Len(addrs) = Symbols /\ file = PairsOf(addrs) /\ OneToOne(addrs)

SetupInv ==
    /\ ChainOK /\ PairsOK(pairs, tokens) /\ RunOK(setup, tokens)
    /\ \A symbol \in MintedBefore(setup) : minted[setup.addrs[symbol]] > 0
    /\ \A symbol \in ApprovedBefore(setup) : setup.contract \in allowance[setup.addrs[symbol]]

(* A function on an initial segment is a sequence of that length.          *)
LEMMA SegmentIsSeq ==
    ASSUME NEW S, NEW k \in Nat, NEW f \in [1..k -> S]
    PROVE  f \in Seq(S) /\ Len(f) = k
<1>1. f \in Seq(S)  BY SeqDef
<1>2. Len(f) \in Nat /\ DOMAIN f = 1..Len(f) /\ DOMAIN f = 1..k  BY <1>1, LenProperties
<1>. QED  BY <1>1, <1>2

(* What a concatenation holds.                                             *)
LEMMA Joined ==
    ASSUME NEW S, NEW a \in Seq(S), NEW b \in Seq(S)
    PROVE  /\ a \o b \in Seq(S) /\ Len(a \o b) = Len(a) + Len(b)
           /\ \A i \in 1..(Len(a) + Len(b)) :
                  (a \o b)[i] = IF i <= Len(a) THEN a[i] ELSE b[i - Len(a)]
<1>1. a \o b \in Seq(S)  OBVIOUS
<1>2. Len(a \o b) = Len(a) + Len(b)  OBVIOUS
<1>3. \A i \in 1..(Len(a) + Len(b)) :
         (a \o b)[i] = IF i <= Len(a) THEN a[i] ELSE b[i - Len(a)]
  OBVIOUS
<1>. QED  BY <1>1, <1>2, <1>3

(* One element in front of the others.                                     *)
LEMMA InFront ==
    ASSUME NEW S, NEW first \in Seq(S), NEW s \in Seq(S), NEW t \in Seq(S), Len(first) = 1,
           Len(t) = Len(s) + 1, t[1] = first[1], \A i \in 1..Len(s) : s[i] = t[i + 1]
    PROVE  first \o s = t
<1>1. first \o s \in Seq(S) /\ Len(first \o s) = 1 + Len(s) /\ Len(s) \in Nat
  <2>1. first \o s \in Seq(S)  OBVIOUS
  <2>2. Len(first \o s) = Len(first) + Len(s)  BY Joined
  <2>3. Len(s) \in Nat  BY LenProperties
  <2>. QED  BY <2>1, <2>2, <2>3
<1>2. ASSUME NEW i \in 1..Len(first \o s)  PROVE (first \o s)[i] = t[i]
  <2>1. (first \o s)[i] = IF i <= 1 THEN first[i] ELSE s[i - 1]  BY <1>1
  <2>2. CASE i = 1  BY <2>1, <2>2
  <2>3. CASE i # 1
    <3>1. i - 1 \in 1..Len(s) /\ (i - 1) + 1 = i /\ ~(i <= 1)  BY <1>1, <2>3
    <3>. QED  BY <2>1, <3>1
  <2>. QED  BY <2>2, <2>3
<1>. QED  BY <1>1, <1>2, SeqEqual

(* What pairs.json was written from is read back from it.                  *)
LEMMA ReadBack ==
    ASSUME NEW n \in Nat, NEW addrs \in Seq(1..n), Len(addrs) = Symbols, pairs = PairsOf(addrs)
    PROVE  pairs # <<>> /\ addressesFromExistingPairs = addrs
<1> DEFINE k == Symbols - 1
           bases == [p \in 1..k |-> addrs[p + 1]]
<1>1. /\ k \in Nat \ {0} /\ Symbols = k + 1 /\ Symbols \in Nat
      /\ \A i \in 1..Symbols : addrs[i] \in 1..n
  BY SetupAssumption, ElementOfSeq
<1>2. pairs = [p \in 1..k |-> [base |-> addrs[p + 1], quote |-> addrs[1]]]
  BY DEF PairsOf
<1> HIDE DEF k
<1>3. pairs \in [1..k -> [base : 1..n, quote : 1..n]]  BY <1>1, <1>2
<1>4. /\ pairs \in Seq([base : 1..n, quote : 1..n]) /\ Len(pairs) = k
  BY <1>1, <1>3, SegmentIsSeq
<1>5. pairs[Len(pairs)].quote = addrs[1] /\ DOMAIN pairs = 1..k  BY <1>1, <1>2, <1>4
<1>6. bases \in [1..k -> 1..n]  BY <1>1
<1>7. bases \in Seq(1..n) /\ Len(bases) = k  BY <1>1, <1>6, SegmentIsSeq
<1>8. [p \in DOMAIN pairs |-> pairs[p].base] = bases  BY <1>1, <1>2, <1>5
<1>9. addressesFromExistingPairs = <<addrs[1]>> \o bases
  BY <1>5, <1>8 DEF addressesFromExistingPairs
<1>10. /\ Len(addrs) = Len(bases) + 1 /\ addrs[1] \in 1..n
       /\ \A i \in 1..Len(bases) : bases[i] = addrs[i + 1]
  BY <1>1, <1>7
<1> HIDE DEF bases
<1>11. <<addrs[1]>> \in Seq(1..n) /\ Len(<<addrs[1]>>) = 1 /\ <<addrs[1]>>[1] = addrs[1]
  BY <1>10
<1>13. <<addrs[1]>> \o bases = addrs  BY <1>7, <1>10, <1>11, InFront
<1>12. pairs # <<>>  BY <1>1, <1>4
<1>. QED  BY <1>9, <1>12, <1>13

LEMMA Idling ==
    ASSUME NEW n \in Nat
    PROVE  RunOK(NoSetup, n) /\ MintedBefore(NoSetup) = {} /\ ApprovedBefore(NoSetup) = {}
BY SetupAssumption DEF NoSetup, RunOK, Runs, OneToOne, MintedBefore, ApprovedBefore, AllOf

(* A run that goes on, field by field.                                     *)
At(run, at, next, addrs) ==
    [at |-> at, contract |-> run.contract, fresh |-> run.fresh, addrs |-> addrs, next |-> next]

LEMMA Fields ==
    ASSUME NEW n, NEW run \in Runs(n), NEW at, NEW next
    PROVE  /\ [run EXCEPT !.next = next] = At(run, run.at, next, run.addrs)
           /\ [run EXCEPT !.at = at] = At(run, at, run.next, run.addrs)
           /\ [run EXCEPT !.at = at, !.next = next] = At(run, at, next, run.addrs)
<1>1. [run EXCEPT !.next = next] = At(run, run.at, next, run.addrs)  BY DEF Runs, At
<1>2. [run EXCEPT !.at = at] = At(run, at, run.next, run.addrs)  BY DEF Runs, At
<1>3. [run EXCEPT !.at = at, !.next = next] = At(run, at, next, run.addrs)
  <2>1. ASSUME NEW r, r = [run EXCEPT !.at = at, !.next = next]  PROVE r = At(run, at, next, run.addrs)
    <3>1. r = At(r, r.at, r.next, r.addrs)  BY <2>1 DEF Runs, At
    <3>2. /\ r.at = at /\ r.next = next /\ r.addrs = run.addrs
          /\ r.contract = run.contract /\ r.fresh = run.fresh
      BY <2>1 DEF Runs
    <3>. QED  BY <3>1, <3>2 DEF At
  <2>. QED  BY <2>1
<1>. QED  BY <1>1, <1>2, <1>3

LEMMA Addressed ==
    ASSUME NEW run, NEW at, NEW next, NEW addrs, NEW longer
    PROVE  [At(run, at, next, addrs) EXCEPT !.addrs = longer] = At(run, at, next, longer)
BY DEF At

LEMMA Continues ==
    ASSUME NEW n, setup \in Runs(n), NEW after
    PROVE  /\ Continue(FALSE, after) = NoSetup
           /\ setup.next < Symbols =>
                 Continue(TRUE, after) = At(setup, setup.at, setup.next + 1, setup.addrs)
           /\ setup.next = Symbols => Continue(TRUE, after) = At(setup, after, 1, setup.addrs)
<1>1. [setup EXCEPT !.next = setup.next + 1] = At(setup, setup.at, setup.next + 1, setup.addrs)
  <2> DEFINE k == setup.next + 1
  <2> HIDE DEF k
  <2>1. [setup EXCEPT !.next = k] = At(setup, setup.at, k, setup.addrs)  BY Fields
  <2>. QED  BY <2>1 DEF k
<1>2. [setup EXCEPT !.at = after, !.next = 1] = At(setup, after, 1, setup.addrs)  BY Fields
<1>3. ~(Symbols < Symbols)  BY SetupAssumption
<1>. QED  BY <1>1, <1>2, <1>3 DEF Continue

(* While it deploys, or has just done, a run has minted nothing.           *)
LEMMA Deploys ==
    ASSUME NEW n, NEW run \in Runs(n), run.fresh = TRUE,
           NEW addrs \in Seq(1..n), OneToOne(addrs), NEW at, NEW next \in 1..Symbols,
           \/ at = "deploy" /\ Len(addrs) = next - 1
           \/ at = "record" /\ next = 1 /\ Len(addrs) = Symbols
    PROVE  /\ RunOK(At(run, at, next, addrs), n)
           /\ MintedBefore(At(run, at, next, addrs)) = {}
           /\ ApprovedBefore(At(run, at, next, addrs)) = {}
<1>1. At(run, at, next, addrs) \in Runs(n)  BY DEF Runs, At, AllOf
<1>. QED  BY <1>1 DEF RunOK, MintedBefore, ApprovedBefore, AllOf, At

(* With all its tokens a run may go on to any of its later parts.          *)
LEMMA GoesOn ==
    ASSUME NEW n, NEW run, RunOK(run, n), Len(run.addrs) = Symbols,
           NEW at \in AllOf \ {"record"}, NEW next \in 1..Symbols,
           at = "mint" => run.fresh = TRUE
    PROVE  RunOK(At(run, at, next, run.addrs), n)
<1>1. run \in Runs(n) /\ OneToOne(run.addrs)  BY DEF RunOK
<1>2. At(run, at, next, run.addrs) \in Runs(n)  BY <1>1 DEF Runs, At
<1>3. at \notin {"deploy", "record"}  BY DEF AllOf
<1>. QED  BY <1>1, <1>2, <1>3 DEF RunOK, At

(* More tokens leave a run, and pairs.json, what they were.                *)
LEMMA MoreTokens ==
    ASSUME NEW n \in Nat, NEW m \in Nat, n <= m
    PROVE  /\ \A run : RunOK(run, n) => RunOK(run, m)
           /\ \A file : PairsOK(file, n) => PairsOK(file, m)
<1>1. \A addrs \in Seq(1..n) : addrs \in Seq(1..m)
  <2>1. 1..n \subseteq 1..m  OBVIOUS
  <2>. QED  BY <2>1, SeqMonotonic
<1>2. \A run \in Runs(n) : run \in Runs(m)  BY <1>1 DEF Runs
<1>. QED  BY <1>1, <1>2 DEF RunOK, PairsOK

(* A run that stops says nothing any more, and leaves the rest as it is.   *)
LEMMA Stops ==
    ASSUME SetupInv, setup' = NoSetup, tokens' \in tokens..MaxTokens, ChainOK', pairs' = pairs
    PROVE  SetupInv'
<1>1. tokens \in Nat /\ tokens' \in Nat /\ tokens <= tokens'
  BY SetupAssumption DEF SetupInv, ChainOK
<1>2. PairsOK(pairs', tokens')  BY <1>1, MoreTokens DEF SetupInv
<1>. QED  BY <1>1, <1>2, Idling DEF SetupInv

LEMMA SetupStep ==
    ASSUME SetupInv, [TestSetupNext]_setupVars
    PROVE  SetupInv'
<1> USE SetupAssumption
<1>0. /\ tokens \in Nat /\ ChainOK /\ PairsOK(pairs, tokens) /\ RunOK(setup, tokens)
      /\ setup \in Runs(tokens)
  BY DEF SetupInv, ChainOK, RunOK
<1>1. CASE UNCHANGED setupVars
  BY <1>1 DEF setupVars, SetupInv, ChainOK, PairsOK, RunOK
<1>2. ASSUME NEW contract \in Contracts, StartSetup(contract)  PROVE SetupInv'
  <2>1. UNCHANGED <<tokens, minted, allowance, pairs>>  BY <1>2 DEF StartSetup
  <2>2. RunOK(setup', tokens) /\ MintedBefore(setup') = {} /\ ApprovedBefore(setup') = {}
    <3>1. CASE pairs = <<>>
      <4>1. setup' = [at |-> "deploy", contract |-> contract, fresh |-> TRUE, next |-> 1, addrs |-> <<>>]
        BY <1>2, <3>1 DEF StartSetup, readPopulatedPairs
      <4>. QED  BY <4>1 DEF RunOK, Runs, OneToOne, MintedBefore, ApprovedBefore, AllOf
    <3>2. CASE pairs # <<>>
      <4>1. PICK addrs \in Seq(1..tokens) :
               Len(addrs) = Symbols /\ pairs = PairsOf(addrs) /\ OneToOne(addrs)
        BY <1>0, <3>2 DEF PairsOK
      <4>2. addressesFromExistingPairs = addrs  BY <1>0, <4>1, ReadBack
      <4>3. setup' = [at |-> "approve", contract |-> contract, fresh |-> FALSE, next |-> 1, addrs |-> addrs]
        BY <1>2, <3>2, <4>2 DEF StartSetup, readPopulatedPairs
      <4>. QED  BY <4>1, <4>3 DEF RunOK, Runs, MintedBefore, ApprovedBefore, AllOf
    <3>. QED  BY <3>1, <3>2
  <2>. QED  BY <1>0, <2>1, <2>2 DEF SetupInv, ChainOK
<1>3. CASE DeployTestToken
  <2>1. PICK outcome \in TxOutcomes :
           /\ tokens + outcome[1] <= MaxTokens /\ tokens' = tokens + outcome[1]
           /\ setup' = IF outcome[2]
                         THEN [Continue(TRUE, "record") EXCEPT !.addrs = Append(@, tokens')]
                         ELSE NoSetup
           /\ setup.at = "deploy" /\ UNCHANGED <<minted, allowance, pairs>>
    BY <1>3 DEF DeployTestToken
  <2>2. outcome[1] \in Nat /\ outcome[2] \in BOOLEAN /\ (outcome[2] => outcome[1] > 0)
    BY DEF TxOutcomes
  <2>3. tokens' \in Nat /\ tokens' \in tokens..MaxTokens /\ ChainOK'
    BY <1>0, <2>1, <2>2 DEF ChainOK
  <2>4. CASE ~outcome[2]  BY <2>1, <2>3, <2>4, Stops
  <2>5. CASE outcome[2]
    <3> DEFINE addrs == Append(setup.addrs, tokens')
    <3>1. setup' = [Continue(TRUE, "record") EXCEPT !.addrs = Append(@, tokens')] /\ tokens' > tokens
      BY <1>0, <2>1, <2>2, <2>5
    <3>2. /\ setup.addrs \in Seq(1..tokens') /\ PairsOK(pairs', tokens') /\ setup \in Runs(tokens')
          /\ Len(setup.addrs) = setup.next - 1 /\ setup.fresh = TRUE
          /\ \A i \in 1..Len(setup.addrs) : setup.addrs[i] < tokens'
          /\ DOMAIN setup.addrs = 1..Len(setup.addrs)
      <4>1. RunOK(setup, tokens') /\ PairsOK(pairs, tokens')  BY <1>0, <2>3, MoreTokens
      <4>2. setup.addrs \in Seq(1..tokens)  BY <1>0 DEF Runs
      <4>3. \A i \in 1..Len(setup.addrs) : setup.addrs[i] \in 1..tokens  BY <4>2, ElementOfSeq
      <4>. QED  BY <1>0, <2>1, <2>3, <3>1, <4>1, <4>2, <4>3, LenProperties DEF RunOK, Runs
    <3>3. /\ addrs \in Seq(1..tokens') /\ Len(addrs) = setup.next /\ OneToOne(addrs)
      <4>1. tokens' \in 1..tokens'  BY <1>0, <2>3, <3>1
      <4>2. /\ addrs \in Seq(1..tokens') /\ Len(addrs) = Len(setup.addrs) + 1
            /\ \A i \in 1..Len(setup.addrs) : addrs[i] = setup.addrs[i]
            /\ addrs[Len(setup.addrs) + 1] = tokens'
        BY <3>2, <4>1, AppendProperties
      <4>3. DOMAIN addrs = 1..setup.next /\ setup.next \in Nat /\ Len(addrs) = setup.next
        BY <1>0, <3>2, <4>2, LenProperties DEF Runs
      <4>4. OneToOne(setup.addrs)  BY <1>0 DEF RunOK
      <4>5. ASSUME NEW i \in 1..setup.next, NEW j \in 1..setup.next, addrs[i] = addrs[j]  PROVE i = j
        <5>1. Len(setup.addrs) \in Nat /\ setup.next = Len(setup.addrs) + 1  BY <3>2, <4>2, <4>3
        <5>2. \A k \in 1..Len(setup.addrs) : setup.addrs[k] # tokens'
          <6> SUFFICES ASSUME NEW k \in 1..Len(setup.addrs)  PROVE setup.addrs[k] # tokens'
            OBVIOUS
          <6>1. setup.addrs[k] < tokens' /\ tokens' \in Nat  BY <2>3, <3>2
          <6>. QED  BY <6>1
        <5>3. CASE i # setup.next /\ j # setup.next
          <6>1. i \in 1..Len(setup.addrs) /\ j \in 1..Len(setup.addrs)  BY <5>1, <5>3
          <6>. QED  BY <3>2, <4>2, <4>4, <4>5, <6>1 DEF OneToOne
        <5>4. CASE i = setup.next /\ j # setup.next
          <6>1. j \in 1..Len(setup.addrs)  BY <5>1, <5>4
          <6>. QED  BY <4>2, <4>5, <5>1, <5>2, <5>4, <6>1
        <5>5. CASE i # setup.next /\ j = setup.next
          <6>1. i \in 1..Len(setup.addrs)  BY <5>1, <5>5
          <6>. QED  BY <4>2, <4>5, <5>1, <5>2, <5>5, <6>1
        <5>. QED  BY <5>3, <5>4, <5>5
      <4>6. OneToOne(addrs)  BY <4>3, <4>5 DEF OneToOne
      <4>. QED  BY <4>2, <4>3, <4>6
    <3> HIDE DEF addrs
    <3>4. \/ /\ setup.next < Symbols
             /\ setup' = At(setup, "deploy", setup.next + 1, addrs)
          \/ /\ setup.next = Symbols
             /\ setup' = At(setup, "record", 1, addrs)
      <4>1. setup.next \in 1..Symbols /\ setup \in Runs(tokens)  BY <1>0 DEF Runs
      <4>2. ASSUME NEW at, NEW next, Continue(TRUE, "record") = At(setup, at, next, setup.addrs)
            PROVE  setup' = At(setup, at, next, addrs)
        <5>1. [At(setup, at, next, setup.addrs) EXCEPT !.addrs = addrs] = At(setup, at, next, addrs)
          BY Addressed
        <5>2. At(setup, at, next, setup.addrs).addrs = setup.addrs  BY DEF At
        <5>. QED  BY <3>1, <4>2, <5>1, <5>2 DEF addrs
      <4>3. CASE setup.next < Symbols  BY <2>1, <4>1, <4>2, <4>3, Continues
      <4>4. CASE setup.next = Symbols  BY <2>1, <4>1, <4>2, <4>4, Continues
      <4>. QED  BY <4>1, <4>3, <4>4
    <3>5. RunOK(setup', tokens') /\ MintedBefore(setup') = {} /\ ApprovedBefore(setup') = {}
      <4>1. setup.next \in 1..Symbols /\ 1 \in 1..Symbols  BY <1>0 DEF Runs
      <4>2. CASE setup.next < Symbols
        <5> DEFINE next == setup.next + 1
        <5>1. next \in 1..Symbols /\ Len(addrs) = next - 1  BY <3>3, <4>1, <4>2
        <5>2. setup' = At(setup, "deploy", next, addrs)  BY <3>4, <4>1, <4>2
        <5> HIDE DEF next
        <5>. QED  BY <3>2, <3>3, <5>1, <5>2, Deploys
      <4>3. CASE setup.next = Symbols
        <5>1. setup' = At(setup, "record", 1, addrs)  BY <3>4, <4>1, <4>3
        <5>. QED  BY <3>2, <3>3, <4>1, <4>3, <5>1, Deploys
      <4>4. setup.next < Symbols \/ setup.next = Symbols  BY <4>1
      <4>. QED  BY <4>2, <4>3, <4>4, Zenon
    <3>. QED  BY <2>3, <3>2, <3>5 DEF SetupInv
  <2>. QED  BY <2>2, <2>4, <2>5
<1>4. CASE WritePairs
  <2>1. PICK written \in BOOLEAN :
           /\ pairs' = IF written THEN PairsOf(setup.addrs) ELSE <<>>
           /\ setup' = IF written THEN [setup EXCEPT !.at = "mint"] ELSE NoSetup
           /\ setup.at = "record" /\ UNCHANGED <<tokens, minted, allowance>>
    BY <1>4 DEF WritePairs
  <2>2. ChainOK'  BY <1>0, <2>1 DEF ChainOK
  <2>3. CASE written
    <3>1. PairsOK(pairs', tokens)
      BY <1>0, <2>1, <2>3 DEF PairsOK, RunOK, Runs, AllOf
    <3>2. RunOK(setup', tokens) /\ MintedBefore(setup') = {} /\ ApprovedBefore(setup') = {}
      <4>1. /\ setup' \in Runs(tokens) /\ setup'.at = "mint" /\ setup'.next = 1
            /\ setup'.addrs = setup.addrs /\ setup'.fresh = TRUE /\ Len(setup.addrs) = Symbols
        BY <1>0, <2>1, <2>3 DEF RunOK, Runs, AllOf
      <4>2. 1..(setup'.next - 1) = {}  BY <4>1
      <4>3. OneToOne(setup'.addrs)  BY <1>0, <4>1 DEF RunOK
      <4>. QED  BY <4>1, <4>2, <4>3 DEF RunOK, AllOf, MintedBefore, ApprovedBefore
    <3>. QED  BY <2>1, <2>2, <3>1, <3>2 DEF SetupInv
  <2>4. CASE ~written
    BY <1>0, <2>1, <2>2, <2>4, Idling DEF SetupInv, PairsOK
  <2>. QED  BY <2>3, <2>4
<1>5. CASE MintERC20
  <2>1. PICK outcome \in TxOutcomes :
           /\ minted' = [minted EXCEPT ![Token] = @ + outcome[1]]
           /\ setup' = Continue(outcome[2], "approve")
           /\ setup.at = "mint" /\ UNCHANGED <<tokens, allowance, pairs>>
    BY <1>5 DEF MintERC20
  <2>2. outcome[1] \in Nat /\ outcome[2] \in BOOLEAN /\ (outcome[2] => outcome[1] > 0)
    BY DEF TxOutcomes
  <2>3. /\ \A i \in 1..Symbols : setup.addrs[i] \in 1..tokens
        /\ setup.next \in 1..Symbols /\ setup.addrs \in Seq(1..tokens) /\ Len(setup.addrs) = Symbols
    BY <1>0, <2>1, ElementOfSeq DEF RunOK, Runs, AllOf
  <2>4. Token \in 1..MaxTokens /\ Token = setup.addrs[setup.next]
    BY <1>0, <2>3 DEF Token, ChainOK
  <2>5. /\ minted' \in [1..MaxTokens -> Nat] /\ minted'[Token] = minted[Token] + outcome[1]
        /\ \A t \in 1..MaxTokens : minted'[t] >= minted[t]
    <3> DEFINE count == outcome[1]
    <3>1. count \in Nat /\ minted \in [1..MaxTokens -> Nat] /\ minted[Token] \in Nat
      BY <1>0, <2>2, <2>4 DEF ChainOK
    <3>2. minted' = [minted EXCEPT ![Token] = @ + count]  BY <2>1
    <3> HIDE DEF count
    <3>3. minted' \in [1..MaxTokens -> Nat] /\ minted'[Token] = minted[Token] + count
      BY <2>4, <3>1, <3>2
    <3>4. ASSUME NEW t \in 1..MaxTokens  PROVE minted'[t] >= minted[t]
      <4>1. minted[t] \in Nat  BY <3>1
      <4>2. CASE t = Token  BY <3>1, <3>3, <4>2
      <4>3. CASE t # Token
        <5>1. minted'[t] = minted[t]  BY <3>1, <3>2, <4>3
        <5>. QED  BY <4>1, <5>1
      <4>. QED  BY <4>2, <4>3
    <3>. QED  BY <3>3, <3>4 DEF count
  <2>6. ChainOK'  BY <1>0, <2>1, <2>5 DEF ChainOK
  <2>7. CASE ~outcome[2]
    <3>1. setup' = NoSetup  BY <2>1, <2>7 DEF Continue
    <3>2. tokens' \in tokens..MaxTokens  BY <1>0, <2>1 DEF ChainOK
    <3>. QED  BY <2>1, <2>6, <3>1, <3>2, Stops
  <2>8. CASE outcome[2]
    <3>1. \A symbol \in 1..setup.next : minted'[setup.addrs[symbol]] > 0
      <4> SUFFICES ASSUME NEW symbol \in 1..setup.next  PROVE minted'[setup.addrs[symbol]] > 0
        OBVIOUS
      <4>1. symbol \in 1..Symbols /\ setup.addrs[symbol] \in 1..MaxTokens
        BY <1>0, <2>3 DEF ChainOK
      <4>2. CASE symbol = setup.next
        <5>1. minted[Token] \in Nat  BY <1>0, <2>4 DEF ChainOK
        <5>. QED  BY <2>2, <2>4, <2>5, <2>8, <4>2, <5>1
      <4>3. CASE symbol # setup.next
        <5>1. symbol \in 1..(setup.next - 1)  BY <2>3, <4>3
        <5>2. minted[setup.addrs[symbol]] > 0  BY <2>1, <5>1 DEF SetupInv, MintedBefore
        <5>3. minted[setup.addrs[symbol]] \in Nat /\ minted'[setup.addrs[symbol]] \in Nat
          BY <1>0, <2>5, <4>1 DEF ChainOK
        <5>. QED  BY <2>5, <4>1, <5>2, <5>3
      <4>. QED  BY <4>2, <4>3
    <3>2. CASE setup.next < Symbols
      <4>1. setup' = At(setup, "mint", setup.next + 1, setup.addrs)
        BY <1>0, <2>1, <2>8, <3>2, Continues
      <4>2. /\ RunOK(setup', tokens) /\ setup'.at = "mint" /\ setup'.next - 1 = setup.next
            /\ setup'.addrs = setup.addrs
        <5>1. setup.fresh = TRUE /\ setup.next + 1 \in 1..Symbols  BY <1>0, <2>1, <2>3, <3>2 DEF RunOK
        <5>2. RunOK(setup', tokens)  BY <1>0, <2>3, <4>1, <5>1, GoesOn DEF AllOf
        <5>. QED  BY <2>3, <4>1, <5>2 DEF At
      <4>3. MintedBefore(setup') = 1..setup.next /\ ApprovedBefore(setup') = {}
        BY <4>2 DEF MintedBefore, ApprovedBefore
      <4>. QED  BY <1>0, <2>1, <2>6, <3>1, <4>2, <4>3 DEF SetupInv
    <3>3. CASE setup.next = Symbols
      <4>1. setup' = At(setup, "approve", 1, setup.addrs)
        BY <1>0, <2>1, <2>8, <3>3, Continues
      <4>2. /\ RunOK(setup', tokens) /\ setup'.at = "approve" /\ setup'.next - 1 = 0
            /\ setup'.addrs = setup.addrs /\ setup'.fresh = TRUE
        <5>0. 1 \in 1..Symbols  OBVIOUS
        <5>1. setup.fresh = TRUE  BY <1>0, <2>1 DEF RunOK
        <5>2. RunOK(setup', tokens)  BY <1>0, <2>3, <4>1, <5>0, GoesOn DEF AllOf
        <5>. QED  BY <4>1, <5>1, <5>2 DEF At
      <4>3. MintedBefore(setup') = 1..setup.next /\ ApprovedBefore(setup') = {}
        BY <3>3, <4>2 DEF MintedBefore, ApprovedBefore
      <4>. QED  BY <1>0, <2>1, <2>6, <3>1, <4>2, <4>3 DEF SetupInv
    <3>. QED  BY <2>3, <3>2, <3>3
  <2>. QED  BY <2>2, <2>7, <2>8
<1>6. CASE ApproveERC20
  <2>1. PICK outcome \in TxOutcomes :
           /\ allowance' = IF outcome[1] = 0 THEN allowance
                           ELSE [allowance EXCEPT ![Token] = @ \cup {setup.contract}]
           /\ setup' = Continue(outcome[2], "complete")
           /\ setup.at = "approve" /\ UNCHANGED <<tokens, minted, pairs>>
    BY <1>6 DEF ApproveERC20
  <2>2. outcome[1] \in Nat /\ outcome[2] \in BOOLEAN /\ (outcome[2] => outcome[1] > 0)
    BY DEF TxOutcomes
  <2>3. /\ \A i \in 1..Symbols : setup.addrs[i] \in 1..tokens
        /\ setup.next \in 1..Symbols /\ setup.addrs \in Seq(1..tokens) /\ Len(setup.addrs) = Symbols
    BY <1>0, <2>1, ElementOfSeq DEF RunOK, Runs, AllOf
  <2>4. Token \in 1..MaxTokens /\ Token = setup.addrs[setup.next]
    BY <1>0, <2>3 DEF Token, ChainOK
  <2>5. /\ DOMAIN allowance' = 1..MaxTokens
        /\ \A t \in 1..MaxTokens : allowance[t] \subseteq allowance'[t]
        /\ outcome[2] => setup.contract \in allowance'[Token]
    BY <1>0, <2>1, <2>2, <2>4 DEF ChainOK
  <2>6. ChainOK'  BY <1>0, <2>1, <2>5 DEF ChainOK
  <2>7. CASE ~outcome[2]
    <3>1. setup' = NoSetup  BY <2>1, <2>7 DEF Continue
    <3>2. tokens' \in tokens..MaxTokens  BY <1>0, <2>1 DEF ChainOK
    <3>. QED  BY <2>1, <2>6, <3>1, <3>2, Stops
  <2>8. CASE outcome[2]
    <3>1. \A symbol \in 1..setup.next : setup.contract \in allowance'[setup.addrs[symbol]]
      <4> SUFFICES ASSUME NEW symbol \in 1..setup.next
                   PROVE  setup.contract \in allowance'[setup.addrs[symbol]]
        OBVIOUS
      <4>1. symbol \in 1..Symbols /\ setup.addrs[symbol] \in 1..MaxTokens
        BY <1>0, <2>3 DEF ChainOK
      <4>2. CASE symbol = setup.next  BY <2>4, <2>5, <2>8, <4>2
      <4>3. CASE symbol # setup.next
        <5>1. symbol \in 1..(setup.next - 1)  BY <2>3, <4>3
        <5>2. setup.contract \in allowance[setup.addrs[symbol]]
          BY <2>1, <5>1 DEF SetupInv, ApprovedBefore
        <5>. QED  BY <2>5, <4>1, <5>2
      <4>. QED  BY <4>2, <4>3
    <3>2. /\ setup'.contract = setup.contract /\ setup'.addrs = setup.addrs
          /\ setup'.fresh = setup.fresh /\ RunOK(setup', tokens)
          /\ \/ setup'.at = "approve" /\ setup'.next - 1 = setup.next
             \/ setup'.at = "complete" /\ setup.next = Symbols
      <4>1. CASE setup.next < Symbols
        <5>1. setup' = At(setup, "approve", setup.next + 1, setup.addrs)
          BY <1>0, <2>1, <2>8, <4>1, Continues
        <5>2. setup.next + 1 \in 1..Symbols  BY <2>3, <4>1
        <5>3. RunOK(setup', tokens)
          BY <1>0, <2>3, <5>1, <5>2, GoesOn DEF AllOf
        <5>. QED  BY <2>3, <5>1, <5>3 DEF At
      <4>2. CASE setup.next = Symbols
        <5>0. 1 \in 1..Symbols  OBVIOUS
        <5>1. setup' = At(setup, "complete", 1, setup.addrs)
          BY <1>0, <2>1, <2>8, <4>2, Continues
        <5>2. RunOK(setup', tokens)
          BY <1>0, <2>3, <5>0, <5>1, GoesOn DEF AllOf
        <5>. QED  BY <4>2, <5>1, <5>2 DEF At
      <4>. QED  BY <2>3, <4>1, <4>2
    <3>3. MintedBefore(setup') = MintedBefore(setup)
      BY <2>1, <3>2 DEF MintedBefore
    <3>4. ApprovedBefore(setup') = 1..setup.next
      BY <3>2 DEF ApprovedBefore
    <3>. QED  BY <1>0, <2>1, <2>6, <3>1, <3>2, <3>3, <3>4 DEF SetupInv
  <2>. QED  BY <2>2, <2>7, <2>8
<1>7. CASE EndSetup
  <2>1. setup' = NoSetup /\ UNCHANGED <<tokens, minted, allowance, pairs>>  BY <1>7 DEF EndSetup
  <2>2. ChainOK' /\ tokens' \in tokens..MaxTokens  BY <1>0, <2>1 DEF ChainOK
  <2>. QED  BY <2>1, <2>2, Stops
<1>. QED  BY <1>1, <1>2, <1>3, <1>4, <1>5, <1>6, <1>7 DEF TestSetupNext

LEMMA SetupAlways == TestSetupSpec => []SetupInv
<1>1. TestSetupInit => SetupInv
  <2> SUFFICES ASSUME TestSetupInit PROVE SetupInv  OBVIOUS
  <2>1. ChainOK  BY SetupAssumption DEF TestSetupInit, ChainOK
  <2>2. PairsOK(pairs, tokens) /\ setup = NoSetup /\ tokens \in Nat  BY DEF TestSetupInit, PairsOK
  <2>. QED  BY <2>1, <2>2, Idling DEF SetupInv
<1>. QED  BY <1>1, SetupStep, PTL DEF TestSetupSpec

(* Whatever earlier runs abandoned and however often transactions are      *)
(* repeated, a populated pairs.json names tokens that are there, one for   *)
(* each symbol, and so does the run in hand.                               *)
THEOREM PairsCorrect == TestSetupSpec => []PairsNameTokens
<1>1. SetupInv => PairsNameTokens
  <2> SUFFICES ASSUME SetupInv PROVE PairsNameTokens  OBVIOUS
  <2>1. tokens \in Nat /\ RunOK(setup, tokens)  BY SetupAssumption DEF SetupInv, ChainOK
  <2>2. ASSUME NEW addrs \in Seq(1..tokens), OneToOne(addrs)  PROVE Distinct(addrs)
    <3>1. \A i \in DOMAIN addrs : addrs[i] \in 1..tokens  BY ElementOfSeq, LenProperties
    <3>. QED  BY <2>2, <3>1 DEF Distinct, OneToOne
  <2>3. Distinct(setup.addrs)  BY <2>1, <2>2 DEF RunOK, Runs
  <2>4. ASSUME pairs # <<>>
        PROVE  /\ Distinct(addressesFromExistingPairs)
               /\ pairs = PairsOf(addressesFromExistingPairs)
    <3>1. PICK addrs \in Seq(1..tokens) :
             Len(addrs) = Symbols /\ pairs = PairsOf(addrs) /\ OneToOne(addrs)
      BY <2>4 DEF SetupInv, PairsOK
    <3>2. addressesFromExistingPairs = addrs  BY <2>1, <3>1, ReadBack
    <3>. QED  BY <2>2, <3>1, <3>2
  <2>. QED  BY <2>3, <2>4 DEF PairsNameTokens, readPopulatedPairs
<1>. QED  BY <1>1, SetupAlways, PTL

(* "Setup complete!" is said only when the contract of this run can pull   *)
(* every token, and, where this run deployed them, after it minted each.   *)
THEOREM KeepsWord == TestSetupSpec => []SetupKeepsWord
<1>1. SetupInv => SetupKeepsWord
  <2> SUFFICES ASSUME SetupInv, setup.at = "complete", NEW symbol \in 1..Symbols
               PROVE  /\ setup.contract \in allowance[setup.addrs[symbol]]
                      /\ setup.fresh => minted[setup.addrs[symbol]] > 0
    BY DEF SetupKeepsWord
  <2>1. ApprovedBefore(setup) = 1..Symbols  BY DEF ApprovedBefore
  <2>2. ASSUME setup.fresh PROVE MintedBefore(setup) = 1..Symbols
    <3>1. setup.fresh = TRUE  BY <2>2 DEF SetupInv, RunOK, Runs
    <3>. QED  BY <3>1 DEF MintedBefore
  <2>. QED  BY <2>1, <2>2 DEF SetupInv
<1>. QED  BY <1>1, SetupAlways, PTL
=============================================================================
