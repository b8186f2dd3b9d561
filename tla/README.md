# Buta in TLA+

Buta is a sealed-bid desk. A maker escrows a lot in a contract; bidders record commitments on
the chain and send the matching amounts, encrypted, to an enclave (a TEE machine); after the
deadline the enclave computes a second-price clearing and signs it; anybody relays the signed
result, and the contract moves the payment and the lot. This directory holds the TLA+ modules
that model that system, the TLC configurations that check them, and the theorems about them
with their proofs.

1. [The system](#1-the-system): components, state, operations, what is hard
2. [The modules](#2-the-modules) and how they correspond to the code
3. [The runs](#3-the-runs): questions, bounds, fairness
4. [Where code and documents disagree](#4-where-code-and-documents-disagree)
5. [The proofs](#5-the-proofs)
6. [What is not modelled](#6-what-is-not-modelled)
7. [Plan](#7-plan)

## 1. The system

| Component | Source | State it keeps | Operations |
|---|---|---|---|
| Clearing engine | `pkg/auction/auction.go` | none | `Commit`, `Opens`, `matchesRecorded`, `digest`, `ClearScreened` |
| Contract | `contracts/ButaInstructionSender.sol` | auctions, commitment sets, who bid, used action ids, trusted machine, extension id | `setExtensionId`, `setTeeAddress`, `postRfq`, `commitBid`, `requestClearing`, `reclaimLot`, `relayClearing` |
| Tokens | `contracts/TestToken.sol` | balances, allowances | `approve`, `transfer`, `transferFrom`, `mint` |
| Enclave | `internal/extension/rfq.go` | the book, in memory; a sequence number | `POST_RFQ`, `COMMIT_BID`, `CLEAR_AUCTION`, three reads |
| Chain bridge, routing | `onchain.go`, `extension.go`, `utils.go` | none | decodes an instruction, picks the handler, packs the result |
| Solvency screen | `solvency.go` | none (reads the chain) | whether a bidder could pay a price |
| Registry, delivery | Flare's contracts, external | machines and their status; instructions | draws a machine, delivers, checks that a machine answers |
| Browser desk | `frontend/src/pages/Desk.tsx`, `lib/*.ts` | local records of seals and clearings | post, bid, settle, reclaim; countdown; verification |
| API proxy | `frontend/api/_forward.js`, `api/tee/` | counters by address, kept answers | throttle, forward, keep |
| Deployment scripts | `scripts/pre-build.sh`, `post-build.sh`, `rotate.mjs`, `retire-machine.mjs` over `tools/cmd/*` | `extension.env` | deploy, register, trust, retire |
| Machine registration | `tools/pkg/fccutils`, `tools/cmd/register-tee` | a state file; the registry's records | the steps `r`, `R`, `a`, `p`, and resuming them |
| Deployment validation | `tools/pkg/validate`, `tools/cmd/verify-deploy` | none | six steps of checks over chain, file and process |
| Test tokens | `tools/cmd/test-setup`, `tools/pkg/utils/erc20.go` | `pairs.json` | deploy, record, mint, approve, with retries |

The desk submits transactions. `postRfq`, `commitBid` and `requestClearing` each end in an
instruction to *one* machine, which the registry draws among those in production. Delivery is
nobody's guarantee: an instruction is delivered late, out of order, several times (the node
submits one under several tags) or never. The enclave answers a clearing with a signed result,
which the contract can only rebuild, and so only accept, when it has the four words of a
`threshold` submission. The enclave's book is volatile: a restart is another machine with an
empty book and other keys.

What is hard, and what would make it correct:

* **Two records of one set.** Contract and enclave each record the commitments of an auction.
  They differ as soon as a bid is lost, late, sealed to another key, malformed, or drawn to
  another machine. Correct: the contract settles only an outcome over all it recorded.
* **Repetition.** A clearing reaches the enclave several times, on both sides of other
  deliveries, and the answer that settles may be any of them. Correct: one outcome; nothing
  comes back into an auction that has forgotten its amounts.
* **Names and numbers.** The enclave compares bidders as strings and checks them as addresses; its
  own numbering is a `uint64` that goes round. Correct: an opening fits the address its string
  stands for; no auction is replaced before the numbering has gone round.
* **A check made once.** Only `requestClearing` compares block and deadline; `CLEAR_AUCTION`
  and `relayClearing` rely on it. Correct: nothing clears while it takes bids.
* **One escrow account.** All lots sit in one balance, which anybody can add to; reclaim and
  settlement race for them. Correct: a lot leaves once, to its maker or to its winner, and always
  can.
* **Before there is an enclave.** `_recover` gives `address(0)` for a malformed signature, which is
  what `teeAddress` is until `setTeeAddress`; auctions can be posted by then. Correct: from that
  call on, whatever was closed before, the contract sells only what the enclave awarded.
* **Crash and rotation.** Books and keys disappear; the trusted machine changes during an
  auction. Correct: no wrong settlement, and the lot can still be reclaimed.
* **Scripts that die.** A deployment is some fifteen transactions, spread over five programs that
  hand each other results through captured output and files, and the machine they set up can restart
  between any two. Correct: a file names what is really there; a script's last word is true; nothing
  takes a working desk down but retiring by hand the machine that serves; running the script again
  repairs what is left.
* **Answers kept.** The proxy answers from memory while calls to the enclave overlap. Correct:
  what it relays has an age limit, whatever order the calls return in.
* **The screened walk.** A bidder that cannot pay is passed over, price by price. Correct: the
  right winner and price, whatever the arrival order; no reason to bid anything but the truth.

## 2. The modules

```
Clearing ── MCVickrey
   │
Vickrey ──── Enclave ──────┐
   │                       ├── ButaSystem ──implements── SealedAuction
   │         ButaContract ─┘                                  │
   └──────────────────────────────────────────────────────────┘
Enclave + Forward ── MCEnclave          Deployment ── VerifyDeploy ─┐
                                                                    ├── MCDeployment
                                                      TestSetup ────┘
```

* **`Vickrey`**: the clearing engine as operators. `ClearScreened` refuses or walks the ranking
  (`Ranked`, `PriceAt`, `CanPay`, `Stops`) as `auction.go` does; the walk's loop is the least rank
  at which it stops. Go's sort is modelled by its result: a bid's rank (`Ranked`) is the number of
  bids that come before it (`Ahead`). keccak256 is an injective function `Hash` whose values are
  ordered like bytes; the digest of a sorted set is the multiset.
* **`Clearing`**: one clearing. Openings arrive in any order, one for each bidder (`Arrive`, as
  `COMMIT_BID` appends them), under any reserve and screen, and `ClearBook` hands them to the
  engine. Its properties compare the answer with a definition of the second price over the *set* of
  bids, with no sort and no walk.
* **`ButaContract`**: one action per transaction; a transaction that reverts is no step. The three
  records of who bid (`commitments`, `committed`, `hasBid`) are separate variables, as in the
  source. `CanPull` and `Moved` are the two halves of a `transferFrom` by the desk.
  `SendInstruction` needs the extension id and a machine in production, as the registry does.
  `RelayClearing` takes any result: `Authorised` is the contract's checks, with `signer` standing
  for what `_recover` yields: a machine, or `Nobody` (`address(0)`) for a malformed signature.
  `Transfer` goes to any account, the contract's own included.
* **`Enclave`**: the book of each machine and its handlers. A handler holds the lock from its first
  read to its last write (in `COMMIT_BID` decryption and checks of the request come before it, and
  read no book), so each is one action. `life` is `new`, `up`, `gone`: a restart is another machine.
  `answers` collects the results that left, and never shrinks: an answer can be relayed at any later
  time. `EnclaveSpec` is an enclave alone on the direct route (`processDirect`): every decodable
  request, in any order, any number of times. A bidder is a string (`Names`), and `HexToAddress`
  gives the address it stands for: commitments, signatures and readings of funds go by address,
  invitations and earlier bids by string, as in `rfq.go:328` and `346`. The store's numbering is
  modulo `Words`, and goes round.
* **`ButaSystem`**: both, and what lies between. `Deliver` may take any instruction at any time and
  any number of times; `Relay` any answer. `Presented` is the contract rebuilding the signed
  payload. `RelayUnsigned` is a result somebody makes up under a malformed signature, on any terms;
  it settles while `teeAddress` is unset. `ScreensFor` reads `balance` and `allowance` at the moment
  of clearing, with any set of readings failing, or no screen at all. `SealedBid` lets a bidder
  commit to an opening, or to nothing any opening produces; what it names is checked as in
  `verifyBidSig`.
* **`SealedAuction`**: what the desk promises, with no chain, enclave or message: bids until the
  deadline; then an award, once, at the second price over *everything* that was sealed, or the lot
  back. It promises this once the desk is pointed at an enclave (`trusted`, set by `Trust` for
  good); an auction open before that may be closed by anybody (`Seize`), which is all the code
  ensures. `ButaSystem` instantiates it as `Promise`, with a refinement mapping (`PhaseOf`,
  `SaleOf`, ...) that only reads the contract and the reserve sent with `POST_RFQ`.
* **`Forward`**: one instance of the proxy. A handler runs alone until it awaits the enclave, so a
  request is `Refuse`, `AnswerKept` or `Fetch`, and a call in flight comes back in `Return` or is
  given up in `Unreachable`, with any number of other requests in between. Answers are told apart by
  the moment the enclave gave them (`Upstream`). `accepted` is a history variable, for the property
  about the throttle.
* **`Deployment`**: `op` is the script in hand and the step it is at; a step is one transaction or
  one write, and `Die` can come before any of them. `StartNode` is the machine starting under
  another identity, at any moment. The registry on chain is external, modelled from the calls made
  to it: `extensions` (id is the place, with the setup done and the governance set), `machines` with
  their status, `open` the attestation challenges still good. `env` is `extension.env`, which can be
  cut short; `saved` is `register-tee.state`, which can fail to be written or removed. `Done`,
  `SkipStep` and `Attest`/`Check` are `RegisterNode`'s bookkeeping: what comes from this run and
  what from the file. `RetireMachine` is `retire-machine.mjs`: a machine whose URL does not answer
  counts as dead, and `--force` overrides. `rotate.mjs` calls it (`Retire`), and an operator may, on
  any machine (`RetireByHand`).
* **`VerifyDeploy`**: `verify-deploy` decides nothing and changes nothing, so a report is an
  operator of the chain, of the file and of the process (`host`), one definition per check,
  evaluated in every state the scripts can leave and for every content of the file, which may also
  be there and not open: D7 then skips, where V4 and E1 fail. `unread` are the extensions whose
  sender R7 fails to read and passes over.
* **`TestSetup`**: a run over the symbols. `TxOutcomes` is what `sendERC20Tx` may come to: how
  often a transaction was executed and whether the loop saw a success.
* **`MC...`** modules give constants values and narrow the environment for TLC.
* **`LibraryFacts`, `...Proofs`**: see section 5.

Operators that carry the comment `faulty` stand before the definition they resemble. They are
versions of it with a plausible mistake; nothing refers to them. `PROJECT.json` pairs each with a
property, and substituting it must break that property.

## 3. The runs

| Configuration | Question | Instance, distinct states |
|---|---|---|
| `MCVickrey` | Does the walk award at the second price, in any arrival order, never over a trimmed set, and is truth the best bid when all can pay? | 3 bidders in every order of arrival, amounts, reserves and limits 0..2, any readings failing: 294 000 |
| `MCVickreyShade` | Is it also for a solvent bidder beside an insolvent one? (no: section 4) | as `MCVickrey`, until refuted |
| `MCButaContract` | Types, agreement of the three records, finality, frozen set; whole life of an auction from deployment | 1 auction, 2 users, 3 blocks: 299 000 |
| `MCButaContractPair` | Escrow, one sale per result, every auction closes, whatever is paid in to the contract | 2 auctions, 2 tokens: 294 000 |
| `MCEnclave` | Every order and repetition of requests to one enclave, on both numbering paths; and the proxy: how old can an answer be, how many requests get through | 1 machine, 2 bidders under 3 names, 3 auction ids; 2 callers, 2 calls in flight, 4 units of time: 119 000 |
| `MCEnclaveRepeat` | Is a second clearing refused? (no: section 4) | as `MCEnclave`, until refuted |
| `MCButaSystem` | Does the whole keep the promise with losses, reordering, repetition, malformed bids; does a settleable clearing settle? | 1 auction, 1 machine, 5 instructions: 74 000 |
| `MCButaSystemLife` | The same with two machines that start, stop, are registered, paused, rotated, and with made-up results before one is trusted; deadline and single outcome | 1 auction, 2 machines, 4 instructions: 721 000 |
| `MCButaSystemFunds` | The promise with the screen on and funds moving throughout | 1 auction, 4 instructions: 63 000 |
| `MCButaSystemSet` | Is every signed clearing over the contract's set? (no: section 4) | 1 auction, until refuted |
| `MCDeployment` | Do the scripts, dying and run again over restarts, keep files, reports and desks true; does rotation converge; does `test-setup` keep its word | 2 contracts, 2 extensions, 2 machines; 3 symbols, 5 tokens, 2 attempts: 640 000 |
| `MCDeploymentResume` | Is the last line of a resumed `register-tee` true? (no: section 4) | as `MCDeployment`, until refuted |

**Bounds.** `MaxRfqs` auctions, `MaxBlock` blocks (deadlines stop one block short of it, so that
each can pass), `MaxInstructions` sent. Two bidders and a maker are enough for a withheld bid to
change the price, the winner, or both; three in `MCVickrey` so that the walk can pass one over and
still have a price below. One nonce is enough there: one bidder has one bid, and `MCHash` puts the
hashes of equal amounts in the bidders' order, so that ties go with and against the order of
arrival. Two auctions suffice for one to be paid from the other's escrow and for a result to be
replayed on a second. `MaxInstructions` is the post, each bid, and two clearings where repetition is
the question (`MCButaSystem`), one less where screens or machines are. Two machines are one and its
replacement. `Words` is the number of values of a `uint64` auction id: three in `MCEnclave`, 0, 1
and 2, so that the store's numbering goes round and comes to an auction that is there. `Twice` is
the address with two names. `PostIds` and `BidIds` keep to the ids the question is about, and
`MaxResults` is a first answer and a second. Amounts are 0 to `MaxAmount`: 0 is a bid, and what a
forgotten bid becomes. `Lots` and `Payments` have one size each, equal to what the users hold in
`MCButaContract`, so that a user who pays the contract has nothing left to post; `PaidIn` is the
token the two auctions of `MCButaContractPair` are paid in, which one of them may also sell. In
`MCButaSystemLife` what a caller makes up names a bidder or `address(0)` as the winner, under an
action id no instruction has.

`MaxSenders`, `MaxExtensions` and `MaxMachines` bound what scripts and restarts add. Two of each are
the one a run died over and the one the next run uses; two machines are the one a script read and
the one that replaced it. `RetiredByHand` is the first machine: it can be the one that serves, or a
stray beside its replacement. `RegisteredByHand` is the second contract, whose pre-build may have
died before or after it named an extension of its own. `Epochs` has three members so that two signing policies can be in sync
and out of it. In `TestSetup`, three symbols are two pairs with one quote, `MaxTokens` leaves room
for two abandoned tokens, and two attempts are a repeated transaction. In `Forward` every limit of
the source is 1 or 2, so that each is reached and passed; `MaxTime` lets an answer expire with a
call in flight.

`MCEnclave` and `MCDeployment` each hold two components that share no state. A state of one tells
nothing of the other, so these runs take the union of the two sets of behaviours, not the product:
whichever part moves first moves alone. What they check of a part is checked of all of that part's
behaviours.

Runs that start from `ReadyInit` have setup and approvals behind them; `MCButaContract` and
`MCButaSystemLife` include setup (the latter with allowances given). `CHECK_DEADLOCK FALSE`
everywhere: with bounded blocks and instructions a desk with nothing left to do stops.

**Fairness.** `EveryAuctionCloses` assumes that blocks are produced and that a maker whose reclaim
stays enabled eventually makes it; nothing of enclaves or relayers, which is the point of
`reclaimLot`. `FullSetSettles` assumes that the `threshold` delivery of each `CLEAR_AUCTION` happens
once, at least, while its machine runs (the node retries its queue) and that somebody relays what
can settle (the desk offers it to everyone). Nothing is assumed of `POST_RFQ` or `COMMIT_BID`: they
may be lost, and `Settleable` says what must have arrived. Weak fairness suffices because that
delivery, and a relay that can succeed, stay possible until they happen or the auction closes.
`RotationConverges` assumes that a script goes on or ends, weakly: every wait in the scripts has a
limit, after which it dies. It assumes strongly that `rotate.mjs` is started again and again: other
scripts may run in between, so it is not always possible to start it. That no script is disturbed
from some time on is a hypothesis of the property (`Setback`), as is a deployment whose set up was
completed once and whose answering machine nobody retired (`Prepared`): a paused machine cannot be
registered again, so only a restart helps then.

## 4. Where code and documents disagree

* `auction.go:10-17` says the clearing rule, with its screen, leaves a bidder no reason to shade.
  A bidder passed over as insolvent when first still sets the price when second; the bidder above it does
  better bidding below it (`MCVickreyShade`). Where all can pay, the claim holds
  (`SolventBookNeverShades`).
* `clearings.ts:7-9` and `Desk.tsx:159` say that a second clearing request is answered "already
  cleared"; `rfq.go:396-402` answers it with the first outcome (`MCEnclaveRepeat`). `FullSetSettles`
  depends on the code's behaviour: refuse the repetition, and an `end` delivery that comes first
  makes the auction unsettleable.
* `rfq.go:27` says the clearing set is whatever the contract recorded. It is what the enclave
  recorded; a clearing that overtakes a bid is signed over less (`MCButaSystemSet`). It cannot
  settle, because the contract compares digests (`KeepsPromise`).
* `registration.go:26` says the state is saved "so registration can resume after failures". Resumed
  after the node restarted, a run fetches the proof of the old machine's check, puts *that* machine into
  production, and `register-tee/main.go:72` reports the new one as registered (`MCDeploymentResume`).
  Begun without a state file the report is always true (`FreshReport`, proved).

Found by reading while modelling, outside what a run decides:

* `ButaInstructionSender.sol:55` calls `teeAddress` "the only authorised signer of clearings", and
  `relayClearing`'s comment says that "the signature must recover to the registered TEE address".
  Until one is registered it is `address(0)`, which a malformed signature recovers to (`sol:370`,
  `380`), and nothing reads `teeAddressSet`. The properties of the system speak of the time after;
  the model has the time before (`RelayUnsigned`).
* `rfq.go:336` says "One bid per address, which is what the CONTRACT enforces". The comparison is of
  lower-cased strings, and `HexToAddress` takes a string with and without `0x` for one address: on
  the direct route one address can have two bids (`OpeningsMatchRecorded` says what does hold). On
  the on-chain route every address is written in one way.
* `rfq.go:228-229` says that a later simulated post "cannot collide with a real one". After id
  2^64-1, which a caller of the direct route can give, the sequence goes round and does
  (`PostedNeverReplaced` holds until then).
* R7 reports "instruction sender is unique across registered extensions" also when some of them
  could not be read (`checks.go:478-480`); `CleanReport` says what such a report leaves open.
* `retire-machine.mjs:13` says that it "refuses to pause a machine that is currently answering". One
  whose URL does not answer at that moment is paused, though its tunnel alone may be down
  (`HealthyStays` excepts that one command).
* `edgecase-scenarios.md` expects `verify-deploy` before the first build to give "appropriate FAILs
  for missing config". Without the file only the services step fails (S2); the others skip their
  checks of it.
* The same document expects every check to pass after a full setup. S5 warns once the proxy holds
  its port, and S9, V6, T10 and E3 are skipped where `EXT_PROXY_URL` is unset.
* An `extension.env` cut short after its first line passes `-step register`: R2 and R7 are left out
  without a sender, not failed. `-step deploy` fails it (D7), which is what `CleanReport` rests on.
* S10 passes without a key whenever `LOCAL_MODE` is neither unset, `true` nor `false`.
* R7 looks for contracts from id 0, where public ids start at `0x10000`: the first 65 536 calls find
  nothing.
* Once its machine is in production, running `post-build.sh` again stops at `register-tee`, whose
  last step reverts, and never reaches `setExtensionId` after it; if that failed the first time, it
  has to be called by hand.
* `rotate.mjs:79` trusts the machine it read at the start, and the `post-build.sh` it calls
  registers the one that answers by then (`rotate.mjs:133`). After a restart in between, the
  rotation ends with a machine nobody trusts, or fails; the next one repairs it
  (`RotationConverges`).
* `test-setup` mints only when it deployed the tokens itself (`main.go:105-114`): if the run that
  wrote `pairs.json` died before minting, no later run mints. `SetupKeepsWord` says so.
* `test-types-server` expects decoders that `pkg/types/register.go:21` does not register.
* `Desk.tsx:564` says that approving the bid is enough. It is for one auction; two that share an
  allowance and are both won leave the second to revert. `system_funds` contains this case: nothing
  is sold wrongly.
* `Desk.tsx:660-661` forgets a kept clearing once the relay is mined, also if it reverted, though
  `clearings.ts:2` keeps them until settled. The enclave gives it again (`FirstClearingStands`).

## 5. The proofs

Proved with TLAPS for all values of the constants that satisfy the modules' assumptions (accounts
are distinct, admins are users, lots, payments, amounts and approvals are naturals, bounds are
naturals, the hash is injective). They are named next to the constants and evaluated by TLC in the
runs. Every invariant that a passing run checks, and every action property and the refinement, is a
theorem; only liveness is left to TLC.

| Theorem | Module | Property |
|---|---|---|
| `NoEarlyClearing` | `ButaSystemProofs` | `Spec => []ClearedAfterDeadline` |
| `OneOutcome` | `ButaSystemProofs` | `Spec => []OneOutcomePerAuction` |
| `DeskKeepsPromise` | `ButaSystemProofs` | `Spec => KeepsPromise` (refinement of `SealedAuction`) |
| `SecondPriceCleared` | `VickreyProofs` | `Clearing!Spec => []ClearsAtSecondPrice` |
| `OrderNeverMatters` | `VickreyProofs` | `Clearing!Spec => []OrderIndependent` |
| `TrimmingRefused` | `VickreyProofs` | `Clearing!Spec => []TrimmedSetRefused` |
| `NobodyShades` | `VickreyProofs` | `Clearing!Spec => []SolventBookNeverShades` |
| `ContractTyped` | `ButaContractProofs` | `ContractSpec => []ContractTypeOK` |
| `ClosedStays` | `ButaContractProofs` | `ContractSpec => ClosedIsFinal` |
| `SetFixed` | `ButaContractProofs` | `ContractSpec => SetFixedAtDeadline` |
| `OneSeal` | `ButaContractProofs` | `ContractSpec => []OneSealPerBidder` |
| `OneSale` | `ButaContractProofs` | `ContractSpec => []OneSalePerResult` |
| `EscrowIsBacked` | `ButaContractProofs` | `ContractSpec => []EscrowBacked` |
| `EnclaveTyped` | `EnclaveProofs` | `EnclaveSpec => []EnclaveTypeOK` |
| `OpeningsMatch` | `EnclaveProofs` | `EnclaveSpec => []OpeningsMatchRecorded` |
| `ClearedForgets` | `EnclaveProofs` | `EnclaveSpec => []ClearedHoldsNoAmount` |
| `NeverReplaced` | `EnclaveProofs` | `EnclaveSpec => PostedNeverReplaced` |
| `FirstStands` | `EnclaveProofs` | `EnclaveSpec => FirstClearingStands` |
| `DeploymentTyped` | `DeploymentProofs` | `DeploymentSpec => []DeploymentTypeOK` |
| `EnvCorrect` | `DeploymentProofs` | `DeploymentSpec => []EnvNamesContractsExtension` |
| `FreshReport` | `DeploymentProofs` | `DeploymentSpec => []FreshReportIsTrue` |
| `StaysHealthy` | `DeploymentProofs` | `DeploymentSpec => HealthyStays` |
| `CleanMeansReady` | `DeploymentProofs` | `DeploymentSpec => []CleanReport` |
| `PreBuildPassesEver` | `DeploymentProofs` | `DeploymentSpec => []PreBuildVerifies` |
| `PairsCorrect` | `TestSetupProofs` | `TestSetupSpec => []PairsNameTokens` |
| `KeepsWord` | `TestSetupProofs` | `TestSetupSpec => []SetupKeepsWord` |
| `Fresh` | `ForwardProofs` | `ForwardSpec => []AnswersAreFresh` |
| `Allowance` | `ForwardProofs` | `ForwardSpec => []AllowanceHolds` |

`Spec` and `ContractSpec` start from deployment, nothing approved. The runs use narrower
environments, from later states; the theorems cover every step of theirs. `EnclaveSpec` takes every
decodable request, any lot, any screen and any way of writing addresses, where the run takes few.
`DeploymentSpec` has any command strings and signer sets. `Clearing` has any set of bidders, finite
or not, and books of any length.

`LibraryFacts` holds what the proofs need of sequences, of the smallest of a set of naturals, and of
sums over a finite set (`SumFunctionOnSet` is a fold): the value at a member can be taken out or
changed, a sum over two parts is the sum of both, and sums are monotone. The induction theorems of
the library take an operator as parameter, which no installed backend can instantiate, so facts that
need induction are proved from a smallest counterexample (`WFMin` over `<` on the naturals).

*The engine.* Bids of different bidders have different commitments, because the hash is injective,
so `Before` orders a book totally and `Ahead` counts distinct ranks: the ranking is a bijection and
sorted (this is the part that would be an induction over a sort). The price owed at a rank is the
best of the bids that rank beats, and the first rank that meets the reserve and can pay is the best
member of `Entitled`; so `ClearScreened` is `SecondPriceOf`, in both directions, which determines
the outcome from the set alone. `OrderNeverMatters` follows with the equality of the two bags,
`TrimmingRefused` from their different sizes. For `NobodyShades`, a bidder that changes its bid
leaves everyone else's, so what it would owe by winning is the best of the others, or the reserve:
at least its value when it lost, and what it paid when it won.

*No early clearing.* The property speaks of answers, and of sales once there is an enclave;
neither's steps look at the deadline, so it is not inductive. `DeadlineInv` adds the missing link:
every `CLEAR_AUCTION` ever sent names an auction whose deadline has passed. `EveryStep` says what a
step does to the chain (`ChainStep`: blocks and auctions go forward, deadlines stay, at most one
instruction is sent, a sale under an enclave needs an answer); `OverStaysOver` that a passed
deadline stays passed; `AnswerStep` that an answer needs an instruction. The fact then travels from
the instruction to the answer and to the sale.

*One outcome.* `Inv` adds routing and memory. `RoutingInv`: an auction has one `POST_RFQ`, to one
machine. `BookInv`: a machine holds only what was sent to it. `OutcomeInv`: a machine that signed a
clearing, and still runs, holds the auction as cleared with that outcome. So the answers for an
auction have one signer (`OneMachine`), whose later answers repeat the first; and if it stopped, its
key is gone with its book. Without the last conjunct a second clearing could recompute; without the
first two, another machine could clear its own part of the set.

*The promise.* `KeepsPromise` is a refinement: `PromiseInv` and the invariants above make every step
one of `SealedAuction` or a stutter. A relay under a malformed signature settles only while there is
no enclave, which is the promise's `Seize`; the signature of an answer is never `Nobody`. Its parts
follow a number on its way. `BodiesInv` and `OnlyPost`: an auction has one `POST_RFQ`, which carries
the reserve the promise calls its floor. `HeldInv` (`IsHeld`): what a machine holds of an uncleared
auction is under that reserve, and its openings open what it recorded, each bidder once.
`AnsweredInv` (`IsClearing`): every answer that cleared, whenever it is relayed, is the second price
over *some* sealed book whose digest it carries: here the engine's theorem is used, through an
instance of `VickreyProofs`. `SetInv`: the contract's clearing set has no repetition. At a relay the
digests are equal, so the book is the contract's set, nothing was left out, and the award is the
promise's (`FairIsAward`). Without the digest the answer is fair over whatever reached the machine,
which is not enough; `AuthorisedAnySet` shows it in a run. The other steps map one to one
(`PostIsPost`, `BidIsSeal`, `ReclaimIsReturn`, `BlockClosesBidding`); everything enclaves do alone
is a stutter (`LeftAlone`).

*The contract.* `TypeInv` adds to the types that instructions form a sequence and that there are at
most `MaxRfqs` auctions; `Payment` is the lemma that a covered transfer leaves no account negative.
`AuctionStays` summarises what any transaction does to auctions and clearing sets (`AuctionsStay`,
`SetsGrow`), from which finality, the frozen set and, with finiteness of the recorded sets
(`SealInv`), one commitment per bidder follow. For one sale per result, `SaleInv` adds that an open
auction has no winner: a reclaim closes without a sale, and a relay adds one unused action id and at
most one sold auction (`SellsAtMostOne`; none when the winner is `address(0)`), so the ids stay at
least as many. `EscrowBacked` is inductive with the types: a post adds one lot to the balance and
one member to the sum over the open auctions, a settlement or reclaim takes one from both, and any
other payment only adds to the contract's balance, because the contract is no user and approves
nobody.

*The enclave.* `RfqOK` is what the handlers keep of one auction, and `NewRfqOK`, `BidOK` and
`CloseOK` show it of the three records they write; `Continues` is what an auction may become.
`BookInv` adds to it that, until the sequence has gone round, no id in a book is above it: without
this, a post the store numbers could land on an auction that is there. That the sequence has gone
round can be seen in the book, as id 0 is given only then (`WentRound`). `PostWrites`,
`CommitWrites` and `ClearWrites` reduce every handler to `Writes`, one auction of one machine, from
which the invariant and `PostedNeverReplaced` follow without another look at the handlers.
`AnswerInv` ties the answers to the book: a machine that cleared, and runs, keeps that outcome until
then.

*The scripts.* `TypeInv` is the types with `OpOK`: which scripts reach which label, and what they
know there. `EnvInv` says of a `pre-build.sh` under way what `EnvNamesContractsExtension` says of
the file it will leave: its contract names no extension yet, then one, its first, with a piece of
the setup at each label; and every id a contract has taken is its first extension, which no later
registration can change (`Grows`). `FreshInv`: a machine that served has done so for good, and a run
that began without a state file asks for the result of the check it made itself. `ServingInv`, for
`HealthyStays`: no contract trusts a machine younger than the one a post-build or rotation in
progress began with, so `Trust` changes nothing on a working desk; and no machine that has served is
younger than the one of any cosigned check still known, in hand or in the state file, so
`ToProduction` has no second machine to add while the youngest serves.

*The reports.* For `CleanReport`, no failure means that the file was opened (V4 fails where D7
skips), and with a passing R7 that the file's extension is the only member of `Naming` that could be
read; when none was passed over `FindExtension` then finds it. Types are enough, so it holds in
states no script would leave too. `PreBuildVerifies` rests on `EnvInv` and on a complete file being
on disk (`EnvExists`).

*The tokens.* `SetupInv` says what a run has behind it at each label (`MintedBefore`,
`ApprovedBefore`), that its tokens are distinct, and that a populated file was written from such
tokens; `ReadBack` that they are read from it again. A success means at least one execution
(`TxOutcomes`), and a repeated one adds only tokens, amounts or approvals.

*The proxy.* A call in flight is never older than the timeout (`CallOK`), so an answer was at most
that old when it was kept (`KeptOK`); a hit adds less than the time it is kept. For the throttle,
`AllowanceInv` splits a caller's last window at the start of its bucket (`Counts`): what was let
through since is at most the bucket's counter and the allowance, what was let through before it, by
the bucket before, at most the allowance again. A caller without a bucket, or with one that has run
out, has had at most one allowance in the window (`CountsAnew`), which is why a sweep may only take
out buckets that have run out.

*Only model-checked.* Liveness (`EveryAuctionCloses`, `FullSetSettles`, `RotationConverges`): the
prover has no `ENABLED` or fairness. Nothing here needs a recursive operator; `LibraryFacts` proves
what it needs of the library's folds.

## 6. What is not modelled

`PROJECT.json` lists every part. Left out of what is modelled: gas and fees; events; `mint` in the
desk's system (it is `InitialBalance`; `TestSetup` has it); tokens that call back or charge; widths
of integers in the contract (`uint256`) and of decoded values (those beyond `uint64` are refused
before a handler runs); the three read-only handlers; size caps; the several readings of one screen,
which the model takes at one moment; the other instances of the proxy's platform. What the enclave's
book promises after its own sequence has gone round is not claimed: auctions are then replaced. Of
the scripts: the parsers of `extension.env` in the shell scripts and in `ext-config.mjs` (the file
is the two values its lines give); the control of `sendERC20Tx`'s loop (only what it may come to);
URLs, signatures of the governance set, polling intervals, `register-tee -i`, the documents
`rotate.mjs` rewrites.

Parts that are not modelled, and why:

* **The desk's steps between transactions, and its local records.** A wallet's transaction may come
  at any moment in `ButaSystem`, so its behaviours include every order the page can produce. Seals
  and clearings live in one browser's storage and are read by the page alone: losing one loses its
  owner a check or a convenience, never a state of the contract or the enclave. The hazards there
  (two tabs replacing a seal, a record dropped after a reverted relay) are listed without a property
  of their own.
* **Operator drivers** (`reclaim-stranded`, `settle-from-browser`, `onchain-loop`, `seed` and
  others): single uses of operations modelled here. **`audit-deploy`**, `health`: they print what
  they read and decide nothing.
* **Tunnel keeper and URL rewriting**: they change where a machine is reached, which nothing here reads.
* **Decoders and the types server**: stateless functions from payloads to text.
* **Chain utilities**: key loading, dialling and generated bindings. What matters of them,
  deployments, waits that run out and the retry loop, is in `Deployment` and `TestSetup`.
* **Presentation, configuration, containers, tests, documents**: no behaviour of their own.

## 7. Plan

Done, in this order: `Vickrey`, `ButaContract`, `Enclave`, `ButaSystem`, `SealedAuction`,
`Deployment`, `VerifyDeploy`, `TestSetup`, `Forward`; the runs of section 3; the theorems of section
5.

What would be next, in order of what it would add:

1. What liveness rests on, as invariants that can be proved: that a relay of a full set stays
   possible until the auction closes, that a reclaim stays possible after its delay, and that a
   rotation's steps are refused only after one of the setbacks.
2. A composition of `Deployment` with `ButaSystem`: a rotation under open auctions, where
   `ButaSystem` now lets its effects come in any order.
3. The desk's records: that a bid recorded on the chain keeps its opening in one browser, over tabs
   and reloads.
