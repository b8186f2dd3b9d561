----------------------------- MODULE MCVickrey -----------------------------
(***************************************************************************)
(* Every book of a small instance of Clearing.                             *)
(***************************************************************************)
EXTENDS Clearing

CONSTANT MaxAmount      \* bound on amounts, reserves and spending limits

MCAmounts == 0..MaxAmount

(* A hash whose byte order is the bidders': as they arrive in any order,   *)
(* ties are broken both with and against the order of arrival.             *)
MCHash == [o \in [amount : 0..MaxAmount, nonce : Nonces, bidder : Bidders] |->
              (o.nonce * 10 + o.bidder) * 10 + o.amount]
=============================================================================
