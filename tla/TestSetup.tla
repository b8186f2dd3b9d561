----------------------------- MODULE TestSetup -----------------------------
(***************************************************************************)
(* test-setup: the tokens a desk is tried out with.  It deploys them,      *)
(* records them in pairs.json, mints, and approves the contract; a second  *)
(* run finds the recorded tokens and only approves, for a contract that    *)
(* may be another one.  Transactions go through the retry loop of erc20.go,*)
(* which takes some errors to mean that nothing was sent when it was.      *)
(*                                                                         *)
(* The first token is the quote of every pair, each of the others the base *)
(* of one.  Amounts are counts of the mintAmount and approveAmount the     *)
(* program uses.  Left out: gas prices, pauses between transactions, and   *)
(* test-tokens.env, which nothing reads back.                              *)
(***************************************************************************)
EXTENDS Integers, Sequences

CONSTANTS
    Symbols,      \* how many tokens there are
    MaxTokens,    \* bound on tokens deployed, by every run and retry
    Contracts,    \* what -instructionSender may be given
    MaxAttempts   \* txMaxAttempts

ASSUME SetupAssumption == Symbols \in Nat \ {0, 1} /\ MaxTokens \in Nat /\ MaxAttempts \in Nat \ {0}

VARIABLES
    tokens,       \* tokens on chain, at addresses 1..tokens
    minted,       \* what the deployer holds of each, in mintAmounts
    allowance,    \* the contracts each token is approved for
    pairs,        \* pairs.json, <<>> unless populated
    setup         \* the run in hand

setupVars == <<tokens, minted, allowance, pairs, setup>>

NoSetup == [at |-> "idle", contract |-> 0, fresh |-> FALSE, addrs |-> <<>>, next |-> 1]

TestSetupInit ==
    /\ tokens = 0 /\ minted = [t \in 1..MaxTokens |-> 0]
    /\ allowance = [t \in 1..MaxTokens |-> {}]
    /\ pairs = <<>> /\ setup = NoSetup

(* faulty: an answer that the transaction is known already counts as sent *)
TxOutcomesKnownIsSent == (0..MaxAttempts) \X BOOLEAN

(* What a transaction that is tried again may have come to: how many times *)
(* it was executed, and whether the loop and the wait after it saw a       *)
(* success.  A try that "already known" or a 429 made it give up on may    *)
(* have been taken all the same, and the next one goes out under the next  *)
(* nonce; one that a bumped retry replaced, or that is not mined in two    *)
(* minutes, is an error and may be executed later.                         *)
TxOutcomes == {outcome \in (0..MaxAttempts) \X BOOLEAN : outcome[2] => outcome[1] > 0}

-----------------------------------------------------------------------------
readPopulatedPairs == pairs # <<>>

(* A pair's quote replaces that of the pair before it.                     *)
addressesFromExistingPairs ==
    <<pairs[Len(pairs)].quote>> \o [p \in DOMAIN pairs |-> pairs[p].base]

PairsOf(addrs) == [p \in 1..(Symbols - 1) |-> [base |-> addrs[p + 1], quote |-> addrs[1]]]

(* faulty: approval is skipped with the rest *)
StartSetupUnapproved(contract) ==
    /\ setup.at = "idle"
    /\ setup' = [at |-> IF readPopulatedPairs THEN "complete" ELSE "deploy", contract |-> contract,
                 fresh |-> ~readPopulatedPairs, next |-> 1,
                 addrs |-> IF readPopulatedPairs THEN addressesFromExistingPairs ELSE <<>>]
    /\ UNCHANGED <<tokens, minted, allowance, pairs>>

StartSetup(contract) ==
    /\ setup.at = "idle"
    /\ setup' = [at |-> IF readPopulatedPairs THEN "approve" ELSE "deploy", contract |-> contract,
                 fresh |-> ~readPopulatedPairs, next |-> 1,
                 addrs |-> IF readPopulatedPairs THEN addressesFromExistingPairs ELSE <<>>]
    /\ UNCHANGED <<tokens, minted, allowance, pairs>>

(* The run goes on with the next symbol, or after the last with the next   *)
(* part; a failure ends it.                                                *)
Continue(ok, after) ==
    CASE ~ok -> NoSetup
      [] ok /\ setup.next < Symbols -> [setup EXCEPT !.next = @ + 1]
      [] OTHER -> [setup EXCEPT !.at = after, !.next = 1]

(* The address is the receipt's, of the last transaction signed.           *)
DeployTestToken ==
    /\ setup.at = "deploy"
    /\ \E outcome \in TxOutcomes :
          /\ tokens + outcome[1] <= MaxTokens
          /\ tokens' = tokens + outcome[1]
          /\ setup' = IF outcome[2]
                        THEN [Continue(TRUE, "record") EXCEPT !.addrs = Append(@, tokens')]
                        ELSE NoSetup
    /\ UNCHANGED <<minted, allowance, pairs>>

(* pairs.json is written before anything is minted.  Cut short, it does    *)
(* not parse.                                                              *)
WritePairs ==
    /\ setup.at = "record"
    /\ \E written \in BOOLEAN :
          /\ pairs' = IF written THEN PairsOf(setup.addrs) ELSE <<>>
          /\ setup' = IF written THEN [setup EXCEPT !.at = "mint"] ELSE NoSetup
    /\ UNCHANGED <<tokens, minted, allowance>>

Token == setup.addrs[setup.next]

MintERC20 ==
    /\ setup.at = "mint"
    /\ \E outcome \in TxOutcomes :
          /\ minted' = [minted EXCEPT ![Token] = @ + outcome[1]]
          /\ setup' = Continue(outcome[2], "approve")
    /\ UNCHANGED <<tokens, allowance, pairs>>

ApproveERC20 ==
    /\ setup.at = "approve"
    /\ \E outcome \in TxOutcomes :
          /\ allowance' = IF outcome[1] = 0 THEN allowance
                          ELSE [allowance EXCEPT ![Token] = @ \cup {setup.contract}]
          /\ setup' = Continue(outcome[2], "complete")
    /\ UNCHANGED <<tokens, minted, pairs>>

(* "Setup complete!", or the process is killed.                            *)
EndSetup ==
    /\ setup.at # "idle"
    /\ setup' = NoSetup
    /\ UNCHANGED <<tokens, minted, allowance, pairs>>

TestSetupNext ==
    \/ \E contract \in Contracts : StartSetup(contract)
    \/ DeployTestToken \/ WritePairs \/ MintERC20 \/ ApproveERC20 \/ EndSetup

TestSetupSpec == TestSetupInit /\ [][TestSetupNext]_setupVars

-----------------------------------------------------------------------------
(* Whatever earlier runs deployed and abandoned, and however often a       *)
(* transaction was repeated, the tokens a run goes on with are deployed,   *)
(* one for each symbol, and a populated pairs.json names such tokens, with *)
(* the one quote in every pair.                                            *)
Distinct(addrs) == \A i, j \in DOMAIN addrs :
                      addrs[i] \in 1..tokens /\ (addrs[i] = addrs[j] => i = j)
PairsNameTokens ==
    /\ Distinct(setup.addrs)
    /\ readPopulatedPairs =>
           /\ Distinct(addressesFromExistingPairs)
           /\ pairs = PairsOf(addressesFromExistingPairs)

(* "Setup complete!" (test-setup/main.go:186) is said when every token it  *)
(* names can be pulled by the contract this run was given, also when the   *)
(* tokens come from a run for another contract; and, when this run         *)
(* deployed them, when the deployer holds some of each.  (A run that finds *)
(* pairs.json populated does not mint, even where the run that wrote it    *)
(* died before minting.)                                                   *)
SetupKeepsWord ==
    setup.at = "complete" =>
        \A symbol \in 1..Symbols :
            /\ setup.contract \in allowance[setup.addrs[symbol]]
            /\ setup.fresh => minted[setup.addrs[symbol]] > 0
=============================================================================
