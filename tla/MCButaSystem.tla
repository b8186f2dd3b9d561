---------------------------- MODULE MCButaSystem ----------------------------
(***************************************************************************)
(* ButaSystem on small instances.  Everybody has approved what they hold,  *)
(* and in most of them the desk is set up: the registry knows the machine  *)
(* that runs, and the contract trusts it.                                  *)
(***************************************************************************)
EXTENDS ButaSystem

CONSTANTS
    First,          \* the machine the desk starts with
    MaxAmount,      \* bound on amounts
    OpenBalance     \* what every user starts with, of every token

MCAmounts == 0..MaxAmount
MCHash == [o \in [amount : 0..MaxAmount, nonce : Nonces, bidder : Users] |->
              (IF o.bidder = "ann" THEN 1 ELSE IF o.bidder = "bob" THEN 2 ELSE 3) * 10 + o.amount]
MCInitialBalance == [t \in Tokens |-> [u \in Users |-> OpenBalance]]

(* Machine First is up and trusted; the others have not started.           *)
ReadyInit ==
    /\ EmptyDesk
    /\ extensionId = 1
    /\ teeAddress = First
    /\ allowance = Holdings
    /\ registry = [m \in Machines |-> IF m = First THEN "production" ELSE "none"]
    /\ life = [m \in Machines |-> IF m = First THEN "up" ELSE "new"]
    /\ book = [m \in Machines |-> <<>>]
    /\ next = [m \in Machines |-> 0]
    /\ answers = {}

(* The auction itself, on one machine that keeps running.                  *)
AuctionNext == AuctionStep \/ Delivery \/ Relay
AuctionSpec == ReadyInit /\ [][AuctionNext]_vars
FairAuctionSpec == AuctionSpec /\ Fairness

(* Funds and allowances that move at any time.                             *)
FundsNext == AuctionNext \/ TokenStep
FundsSpec == ReadyInit /\ [][FundsNext]_vars

(* The whole life of a deployment: machines that start, stop, and are      *)
(* registered, paused and rotated in at any time; until the contract is    *)
(* pointed at one of them, anybody's result settles.                       *)
DeployedInit ==
    /\ EmptyDesk
    /\ extensionId = 0
    /\ teeAddress = Nobody
    /\ allowance = Holdings
    /\ registry = [m \in Machines |-> "none"]
    /\ TEE!EnclaveInit

LifeNext == AuctionNext \/ RelayUnsigned({"ann", Nobody}, {MaxInstructions + 1}) \/ MachineStep \/ AdminStep
LifeSpec == DeployedInit /\ [][LifeNext]_vars
=============================================================================
