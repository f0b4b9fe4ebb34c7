# Verification of the Erbie consensus

Erbie is a proof-of-stake chain built on go-ethereum.  What it adds is a
consensus of elected validators (Istanbul BFT, with changes of its own), a
fallback that produces empty blocks by a vote of all stakers when the validators
do not agree in time, and a ledger of stakes that decides who may validate.
This project models that part in TLA+, checks it with TLC and proves the
properties that matter most with TLAPS.  Paths below are relative to `src/`.

## 1. The system

### Parts, their state and their operations

| Part | Code | State | Operations | Module |
|---|---|---|---|---|
| IBFT core | `consensus/istanbul/ibft/core` | `state`, `current` (view, proposal, message sets, lock), `waitingForRoundChange`, `roundChangeSet`, `commitHeight` | one event loop: requests, four kinds of message, timeouts, final commits | `IbftCore` |
| Backlog | `ibft/core/backlog.go` | a priority queue per sender | store, process, post back | `Backlog` |
| Validator set | `consensus/istanbul/validator` | ordered validators, proposer | F, quorum, proposer of a round | `ValidatorSet`, `ProposerRotation` |
| Backend | `consensus/istanbul/backend` | `commitCh`, `proposedBlockHash`, `badBlocks`, message caches, snapshots | Seal, Commit, Verify, LastProposal, Start, Stop, gossip, votes | `Sealing`; Commit, LastProposal and restarts in `IbftCore` |
| IBFT engine | `ibft/engine/engine.go` | none | verify headers and seals; coefficients and rewards at the end of a block | the latter in `Staking`, difficulties in `EmptyBlock` |
| QBFT | `consensus/istanbul/qbft` | as IBFT, with prepared certificates | as IBFT, with justifications | `QbftCore` |
| Empty-block voting | `miner/certify.go`, `signatureProcess.go`, `proof_state.go`, `worker.go` | votes by height, vote index and round, `isEmpty`, timers, channels | emptyLoop, collect a vote, assemble an empty block | `EmptyBlock`, `Miner` |
| Worker | `miner/worker.go` | pending tasks, `running`, `isEmpty` | new work, seal, write the result | `Sealing` |
| Miner | `miner/miner.go` | `canStart`, `shouldStart`, `emptyBlockNumber`, `doneEmptyTimer` | start and stop the worker for the user, the downloader and an empty block | `Miner` |
| Staking ledger | `core/vm/evm.go`, `core/evm.go`, `core/state/statedb.go`, `core/types/*_account.go`, `*_extension.go` | balances, pledges (four records of each), coefficients, list of validators | pledge, cancel, revoke, punish, recover, reward | `Staking` |
| Random selection | `core/types/validator_account.go` | none | eleven validators from the list and a hash | not modelled, see section 7 |
| Chain | `core/blockchain.go` | canonical chain, bad blocks | insert, fork choice, `verifyEmptyVote` | `EmptyBlock`; an environment of the others |
| Rest of go-ethereum | `eth`, `p2p`, `les`, `trie`, `rpc`, `cmd`, ... | | | not modelled, see section 7 |

### How they interact

The worker prepares a block and calls `Seal`; after the block's timestamp `Seal`
posts a `RequestEvent` to the core.  The core of the proposer broadcasts a
PRE-PREPARE; the validators answer with PREPARE, lock on the block when a quorum
of PREPAREs or COMMITs is there, send COMMIT, and with a quorum of COMMITs call
`backend.Commit`.  The block returns to `Seal` and the worker when this node
proposed it, and goes to the block fetcher otherwise; the chain's new head posts
a `FinalCommittedEvent`, upon which the core starts the next height.  A round
that times out leads to ROUND CHANGE messages; F+1 of them pull a waiting
validator along, a quorum of them starts the round.  Messages that come too
early wait in the backlog.  If a height takes too long the `emptyLoop` of the
worker collects signed votes of stakers and, with more than half of the stake,
appends an empty block, past the core.  While it does, the miner's `update` loop
stops the worker and the engine, as it does for the downloader, and starts them
again afterwards.

### What makes it hard

* Every validator runs one event loop, and the loops interleave; messages are
  lost, repeated, delayed and reordered.
* Timeouts race with late COMMITs, so that validators meet a height in different
  rounds with different locks.
* `commitHeight` allows a core **one COMMIT per height**, over all rounds.  It is
  an addition to IBFT and what agreement rests on; it also means that a height can
  get stuck until the empty-block vote.
* A restart forgets the lock and `commitHeight`.
* A committed block may fail to execute, and then counts as bad and unlocks.
* The quorum is 2F+1 with F = ceil(N/3) - 1: at some N two quorums do not meet.
* A round changes without its state: `catchUpRound` keeps the old proposer and
  state until the round starts.
* The tokens of one pledge are recorded in four places, and a call may fail after
  it has changed some of them.
* The backlog relies on the order of its priorities, which are floats.
* A Seal, its successor, the core and a restart share `proposedBlockHash` and
  `commitCh` without one lock around them.
* Three loops of the miner wait for each other at channels of capacity 1, and four
  flags decide together whether the worker runs.
* Empty blocks are made by anybody with enough votes, several at a height, beside
  normal blocks, and outweigh them.
* QBFT keeps no lock: what a later round may propose is decided by the messages
  that its proposer happens to have.

`hazards` in `PROJECT.json` lists every one of these at its line, with the
properties that would catch it going wrong, or the reason why there is none.

## 2. Modules

**`ValidatorSet`** has F, the quorum, `calcSeed` and the selectors of proposers as
operators on a sequence of validators (the order of the sorted set).

**`IbftCore`** is the consensus of all validators.  The variables are the fields
of `core` and `roundState`, indexed by validator.  Each handler (`handleRequest`,
`handlePreprepare`, `handlePrepare`, `handleCommit`, `handleRoundChange`,
`handleTimeoutMsg`, `handleFinalCommitted`) is one action, since one goroutine
runs them; what it calls (`sendCommit`, `catchUpRound`, `startNewRound`, ...) is
an operator of the same name that is part of the action.
`insertBlock`, `importBlock` and `Restart` are the chain and the process around it.
`msgs` is the set of all messages ever sent: handling any of them at any time,
again or never, is loss, delay, reordering and duplication at once, and covers
the backlog and the queue of requests as well (a future message is one that is
handled later).  A block is a record of number, author and a payload; a digest
is the block itself.  Validators outside `Started` are never up.

Inside a handler the model drops what no later step can read: PREPAREs recorded
in the Prepared state, COMMITs in the Committed state, ROUND CHANGEs to a round
already entered.  The error path of `backend.Commit` cannot be taken
(`CommitHeader` fails only for seals of a wrong length).  The validators fetch
blocks from their peers if they are in `Importing`, a bound.  The change to QBFT at a
height (`handleFinalCommitted`) is left out.  `PutAddr` and the
PRE-PREPAREs without a proposal that feed it belong to empty-block voting.

**`Ledger`** is what consensus promises: chains that only grow, one block at a
time, and never differ at a height that both have.  `IbftCore` implements it with
`chain` as the refinement mapping.

**`Backlog`** is one core's queue for one sender: `checkMessage` in all its
answers, `storeBacklog`, `processBacklog` at the end of every `setState`, and
`handleBacklogEvent` for the events that it posts from goroutines, which come
back when the core has moved on.  `toPriority` keeps the rounding of the
conversion to `float32`, for sums (`weight`) below 2^54.  The rest of the core is any step it could make; the
sender may leave or join the validators with each height.

**`ProposerRotation`** follows the proposers of rounds and heights while the
validator set changes with each height and blocks may be empty (no author) or have
been proposed first in an earlier round (a locked block keeps its author).

**`Staking`** is the pledge ledger in the state database.  The transactions of type
3, 4 and 5 (`Pledge`, `Cancel`, `RecoverValidatorCoefficient`) are one action each,
with the checks of `EVM.Call` and `HandleCSBT` and everything they call in the
state database; a call that is refused before it touches the state only sets
`failed`.  `FinalizeAndAssemble` ends a block: an empty block (`emptyBlock`) slashes
the elected validators of the parent block and restores the voters, a normal one
(`normalBlock`) restores those it rewards, double signers keep one point, and
rewards are shared out with the rounding of the code.  Which validators are
elected, vote, are rewarded and found evil is free.  The list of validators is a
function from its members to balance and proxy; its order and address ranges, gas,
plain transfers, the minting of CSBTs and the deflation of the reward are left
out.  A pledge without an entry is a pledge of 0, which no entry can be.

**`Sealing`** is one node from the worker to the engine.  `submitTask` is taskLoop
with a task, `seal` the goroutines that `Seal` leaves behind, each waiting for
its time (`sealTime`), for `sealMu` (`sealLock`), or at `commitCh` or its stop channel
(`sealReceive`, `sealStop`).  The end of a Seal is three steps, as in the code: it leaves the
`select`, sends its result (`sealSend`), and clears `proposedBlockHash` and gives `sealMu`
back (`sealClear`), so that the core may still read the hash of a Seal that no longer
listens.  `Commit` and `sendCommit` are `backend.Commit` before and
at the send to `commitCh`, which may block the core's event loop; `Stop` holds
`coreMu` until the loop has ended, and `Start` makes a new `commitCh`.  Which blocks
the validators agree on is free (`Decide`), and so is their import.

**`Miner`** is the `update` loop, with `worker.stop` (which waits for the core),
`worker.start` (which sends to `startCh`) and the token for `resetEmptyCh` as places
where it waits; the part of `emptyLoop` that asks for the stop and ends the phase;
and `newWorkLoop` with a new head.  The user, the downloader and the arrival of blocks
are free.

**`EmptyBlock`** has the stakers of the chain: `emptyTimeout` begins a phase, `vote`
sends a staker's vote for the height after its head, `gatherVote` is
`GatherOtherPeerSignature` with the pool of votes, `commitEmptyWork` assembles a block
when the weight is above the target, and `importBlock` is fork choice by total
difficulty with reorganisation.  A chain is a sequence of blocks, a block is normal or
carries its votes.  The error paths of `commitEmptyWork` (its `Prepare` or `Finalize`
failing) are left out.

**`QbftCore`** is the QBFT core in the same style as `IbftCore`: handlers are actions,
messages are never taken out of `msgs`.  ROUND-CHANGEs carry the prepared round and
block, PRE-PREPAREs their justification, and `isJustified` looks at exactly what the
code looks at.

**`IbftCoreProofs`** (types, commits and chains of `IbftCore`) and **`RoundProofs`** on
top of it (rounds and locks, and agreement), **`CorePartsProofs`** (`Backlog`,
`ProposerRotation`, `Sealing` and `Miner`), **`QbftStepProofs`** (types and steps of
`QbftCore`) and **`QbftProofs`** on top of it, **`StakingProofs`** and
**`EmptyBlockProofs`** hold the theorems, **`SumTheorems`** the lemmas on sums that those
on stakes and votes rest on.
**`MC...`** hold the values that the configurations give to the constants.

## 3. Runs

All but `rotation` say `CHECK_DEADLOCK FALSE`: with bounded heights, rounds, calls
and blocks the system comes to rest.  Every bound is a constant whose comment
says `bound`.

| Run | Question | Instance |
|---|---|---|
| `ibft_rounds` | do the lock and the one COMMIT per height survive a round change in every interleaving, and agreement a committed block that fails to execute? (`TypeOK`, `CommitOnce`, `CommitStaysLocked`, `LockHasQuorum`, `Agreement`, `ViewsGrow`)  Does a handler meet a state or a lock without the proposal it is about to use? (`ProposalAtHand`)  Do timeouts, weak certificates and catching up put a validator in a round that no quorum asked for, or leave it waiting with a quorum at hand? (`RoundHasQuorum`, `QuorumStartsRound`) | 4 validators of which 3 are up, rounds 0 and 1, a block from the proposer of each, the first of which is bad |
| `ibft_restart` | two blocks sealed for one view, and a validator that restarts at any point: does anybody prepare both, do two validators commit different ones? (`Agreement`, `PrepareOnce`) | one round, two blocks of one proposer that differ in a payload only (symmetry), one validator may restart again and again |
| `ibft_heights` | do the chains implement the ledger over two heights, although the proposer seals two blocks for the first, with late commits and import from peers?  And is every height for which one block is proposed committed by every validator that is up, although one is down? (`ImplementsLedger`, `EveryHeightCommitted`) | two heights, one round each, so no timeouts; two blocks at the first height and one at the second; one validator imports |
| `backlog_order` | is every stored message handled or old, and does one that could be handled wait only where `float32` does not tell it from one that cannot? (`NothingLost`, `NoCurrentWaits`) | heights 33554 and 33555 and rounds up to 99, where `float32` rounds to even numbers and then to multiples of 4, and messages of a view, a ROUND CHANGE included, get the same priority |
| `rotation` | do N rounds have N proposers, and does the author of a block, proposed in this round or again after an earlier one, give way (or stay, under Sticky)? (`EveryoneGetsATurn`, `AuthorMovesOn`) | both policies, every order of every set of up to four validators |
| `staking` | after any sequence of pledges, cancellations, recoveries and blocks: are tokens conserved, do the four records of a pledge agree, can every pledge be taken back, have listed validators weight and different proxies? (`TypeOK`, `TokensConserved`, `RecordsAgree`, `ListMatchesPledges`, `PledgesAreWhole`, `SeatedHaveWeight`, `ProxiesDistinct`) | three accounts, one of them a genesis validator, two blocks of two calls; bases 2 and 4, full coefficient 3, a reward of 5 whose shares are rounded |
| `sealing` | with Seals that are stopped and begun anew, restarts of the engine and empty phases: is the hash that Commit compares with that of a Seal that listens, unless it was told to stop or has its block already, does a committed block get to the chain unless its Seal was told to stop, does the core's event loop get past `commitCh`? (`SealingTypeOK`, `HashHasOwner`, `NoBlockLost`, `LoopGoesOn`) | two heights, two blocks of this node's worker, and blocks of others |
| `mining` | user, downloader, empty phases and new heads in any order: does mining that was interrupted resume, is the event that undoes a stop of the worker always still to come, does an empty phase end with its height, does `newWorkLoop` get through a new head unless `update` waits for it at `startCh` or is in a Stop of the engine that does not return? (`MinerTypeOK`, `StopIsUndone`, `MiningResumes`, `EmptyPhaseEnds`, `HeadsHandled`) | three blocks |
| `empty_block` | does every empty block in a chain carry votes of more than half of the weight for its own height, each once, and does only a branch with an empty block of its own, or one long enough to outweigh an empty block, take a block off a chain? (`TypeOK`, `EmptyBlocksVoted`, `OnlyEmptyBlocksUndo`) | two stakers of equal weight (symmetry), two heights, an empty block twice as heavy as a normal one |
| `qbft_rounds` | once a quorum has sent COMMITs, can another block be prepared or committed in a later round?  Does a ROUND-CHANGE tell of a block that a quorum has prepared, in no earlier round than its sender has committed in? (`TypeOK`, `Agreement`, `CommittedStays`, `PreparedTold`) | three validators with a quorum of two, one height, two rounds with a block from the proposer of each |

Why the bounds are enough.  With four validators F is 1, the weak certificate 2,
the quorum 3 and two quorums share two validators: these are the smallest numbers
that all differ.  With three validators up every quorum is all of them, which is
the hardest case for progress; agreement among more, and any number of
validators, rounds, heights and restarts, is proved.  Two rounds are enough for
a lock to be carried over; that rounds skip each other in any number is covered by
the proofs.  In `staking` two
calls in a block and two blocks let a validator with stakers leave and come back, be
punished in between and pay its fine, and let two validators want the same proxy;
the amounts include 0, one below `StakerBase`, and the bases themselves.  In
`sealing` two blocks of the worker give a Seal, the one that replaces it and a
foreign decision, two heights a block left in `commitCh` by the height before.  In
`mining` three blocks let both channels of capacity 1 be full with one more sender
waiting.  In `empty_block` two stakers of equal weight need each other's vote (one of
two is not more than half), and a fork of a normal and an empty block needs one
height, its overtaking two.  The difficulty of an empty block is 2 instead of 24:
then one empty block weighs as much as the two normal ones that fit, and the rule
for equally heavy chains comes into play; any larger one is covered by the proof.  In `qbft_rounds` two of three (`Ceil2Nby3Block` at 0)
is the smallest quorum that leaves somebody out and overlaps with every other.

### Runs that end in a violation

| Run | Said | Done |
|---|---|---|
| `staking_failed_call` | Call "reverses the state in case of an execution error" (`core/vm/evm.go:309`) | an error of `HandleCSBT` returns without `RevertToSnapshot`: when the validator's proxy is taken, the pledge has been booked although the call fails |
| `qbft_new_sequence` | "if round equals to 0, it means to starts a new sequence" (`qbft/core/core.go:114`), and a ROUND-CHANGE counts when its "sequence matches our current sequence" (`qbft/core/backlog.go:53`) | `startNewRound` with a round above 0 begins a new sequence when the chain already has the block, and then clears only lower rounds: ROUND-CHANGEs of the old sequence count in the new one |

### Other statements that do not hold

These are defined in the modules, and the instances in the MC modules reproduce
them; no configuration is kept for them.

| Property | Said | Done | Instance |
|---|---|---|---|
| `OnlyProposerProposes` (`IbftCore`) | "If I'm the proposer and I have the same sequence with the proposal" (`preprepare.go:33`) | after `catchUpRound` (`core.go:415`) the proposer of the old round proposes in the new one; the others refuse the message | `FourValidators`, `OneBlock`, two rounds |
| `CommittedByCeil2Nby3` (`IbftCore`) | "core should have 2F+1 before Ceil2Nby3Block and Ceil(2N/3) after" (`prepare_test.go:229`) | `QuorumSize` (`core.go:496`) is 2F+1 whatever `Ceil2Nby3Block` is: 3 of 6 | `SixValidators`, `OneBlock`, one round |
| `QuorumStartsRound` (`IbftCore`) with F = 0 | "We've received 2f+1/Ceil(2N/3) ROUND CHANGE messages, start a new round immediately" (`roundchange.go:115`) | the weak certificate has the size of the quorum and its branch comes first: a waiting core does not start the round | `ThreeValidators`, `NoBlock`, two rounds |
| `PreprepareGoesFirst` (`Backlog`) | "msgPreprepare > msgCommit > msgPrepare" (`backlog.go:29`) | from height 16778 on, `float32` (`backlog.go:194`) cannot tell the priorities of a view apart, and their order is left to the heap | `OfTheProposer` at heights 40000 and 40001 |
| `StartTakesEffect` (`Miner`) | a test expects mining after Stop and Start, past a DoneEvent (`miner_test.go:165`) | the DoneEvent that starts the worker leaves `canStart` false and ends the subscription (`miner.go:170`): a later Stop and Start do not start it; only the end of an earlier empty phase sets `canStart` again | as `mining` |
| `HeadsAlwaysHandled` (`Miner`) | | with `startCh` and `resetEmptyCh` full, `update` waits for `newWorkLoop`, `newWorkLoop` for `emptyLoop`, and `emptyLoop`, posting its event, for `update`; and `update` in a Stop that does not return holds `coreMu`, which `newWorkLoop` takes in `NewChainHead`: the two circles that `HeadsHandled` leaves open | as `mining` |
| `NoPanic` (`QbftCore`) | | a proposer with a quorum of ROUND-CHANGEs and no pending request dereferences nil (`qbft/core/roundchange.go:153`) | as `qbft_rounds` |

Further observations, from runs of variants:

* `Sealing`: an engine that is being stopped need not come to a stop.  The event
  loop may wait at a full `commitCh` (`backend.go:270`) with no Seal left to drain it,
  and `Stop` waits for the loop, holding `coreMu`.  The next Seal would drain it, but
  the new head that brings one has to pass `NewChainHead`, which takes `coreMu`: this is
  the second circle of `HeadsHandled`.  `LoopGoesOn` excepts the time of a
  Stop, and that of an empty phase, in which no Seal begins.
* `Miner`: `doneEmptyTimer` may start the worker in the middle of a sync, and a token
  left in `resetEmptyCh` may end a phase that has just begun.
* `EmptyBlock`: that a chain without normal blocks goes on is not guaranteed.  Votes
  counted before the collector's own phase are refused as duplicates when they are
  repeated, and no result is posted for them (`signatureProcess.go:88`); and after a
  reorganisation to a shorter, heavier chain a node may wait with its worker stopped
  and no phase.  Two stakers may both collect a majority for a height.  An empty
  block (difficulty 24) outweighs 23 normal ones.
* `QbftCore`: over two heights `Agreement` does not hold either, as a consequence of
  what `qbft_new_sequence` shows: `isJustified` looks neither at the sequence nor at
  the round of the messages, so an unprepared ROUND-CHANGE of the old sequence helps to
  justify a new block in round 1 of the next one.  And a request that comes in a
  round above 0 (`request.go:44`) is sent without justification, is refused by
  everybody, and keeps the justified PRE-PREPARE from being sent.

## 4. Fairness

`ibft_heights` (`EveryHeightCommitted`) assumes that as long as some event loop has an
event to handle, or a committed block is to be inserted, one of these steps is taken:
each validator has its own goroutines and events stay in their queues, so the code
guarantees more.  It is enough, as the steps that change anything are finitely many.  A message
stays in `msgs`, so fairness of the loop stands for its delivery.  The property is
about heights for which the proposer broadcasts one block; with two, three validators
may prepare different ones, and only a round change gets further.  Nothing is
assumed of restarts, nor of the import from peers: every validator that is up
gets to the block by its own votes.  The run has no
round changes: with them progress is **not** a property of this core alone,
because of the one COMMIT per height; the empty-block vote is what ends such a
height.

`sealing` (`LoopGoesOn`): the goroutines run, and a Seal that has left its `select` gets
to its end; some Seal gets `sealMu`; a `select` with
a block at hand takes it now and then; the worker's timer resubmits work while it
runs; emptyLoop finishes what it has begun.  Agreement, imports, Start and Stop owe
nothing.

`mining` (`MiningResumes`, `EmptyPhaseEnds`, `HeadsHandled`): weak fairness of every
step of the three loops, and of the one-second timers, with one exception: the Stop of an
engine that runs waits for the core's event loop and **need not return** (see `Sealing`
above); the Stop of an engine that is off returns at once.  Strong fairness of three
steps: a `select` chooses among its ready cases at random, so neither emptyLoop's event,
at `update`, nor the token in `resetEmptyCh`, at emptyLoop, is passed over for ever, and
Go's mutexes hand over to a starving waiter, so
`NewChainHead` gets `coreMu` although `Stop` takes it again and again.  The user, the
downloader, the condition of `emptyTimer` and new blocks owe nothing.

## 5. Proofs

All for every value of the constants, under the assumptions named in the modules:
a non-empty validator set without duplicates that does not contain the zero
address (`ValSetAssumption`), prices and bases as in the code's constants
(`StakingAssumption`: the largest fine is not above `StakerBase`), proposals with a number and an author
(`ProposalsAssumption`), bounds that are numbers.

* **`TypeCorrect`**, **`ProposalsAtHand`** - `TypeOK` and `ProposalAtHand`.  The two are
  inductive together (`Inv1`): that a locked core holds the locked proposal is needed
  for the type of what it proposes again.
* **`CommitsOnce`**, **`AgreementHolds`** (the latter in `RoundProofs`) - `CommitOnce` and
  `Agreement`.  The inductive invariant
  `Inv2` adds to `Inv1`: `commitHeight` is at least the height of each COMMIT sent
  (so the check in `sendCommit` is a check of the past); every message's digest has
  the number of its view; each COMMIT counted in a round state was sent for its
  proposal in its view; and every block on its way to a chain, in it or found bad
  has a *certificate*, a quorum of COMMITs of one round.  Two certificates of a
  height share more validators than have restarted, one of them sent both COMMITs,
  and by `CommitOnce` they are the same.  The lock plays no part in this argument:
  agreement rests on `commitHeight` alone.
* **`QuorumsOverlap`** - two quorums share a validator unless N is 2, 3 or 6.
* **`LedgerRefined`** (`RoundProofs`) - the initial states and steps of `IbftCore` are those of
  `Ledger` or stutter, if fewer validators can restart than quorums overlap
  (`Inv3`: `Inv2`, and the i-th block of a chain has number i).
* **`ViewsOnlyGrow`** - the action property `ViewsGrow`.
* **`LocksHaveQuorum`**, **`CommitsStayLocked`**, **`PreparesOnce`** (`RoundProofs`) -
  `LockHasQuorum`, `CommitStaysLocked`, `PrepareOnce`.  The invariant `LockInv` says that
  what is counted in a round state was sent in its view, that a core is not behind the
  PREPAREs and COMMITs it has sent, and that a core whose COMMIT of the height is out is
  locked on its block.  The first makes a lock rest on a quorum, the second makes the
  check of the state in `handlePreprepare` a check of the past.
* **`RoundsHaveQuorum`**, **`QuorumsStartRounds`** (`RoundProofs`) -
  `RoundHasQuorum`: each ROUND CHANGE in a set was sent, and each round above 0 that
  is entered had a quorum in the set (`AskInv`).  `QuorumStartsRound`, **if F > 0**: a
  core has fewer than a quorum of askers for every later round, and for the one it
  waits for (`FewInv`); each message adds one, and the quorum differs from the weak certificate.
* **`BacklogLosesNothing`**, **`CurrentGoesFirst`**, **`NoneWaitsWhileExact`**
  (`CorePartsProofs`) - `NothingLost` without conditions; `NoCurrentWaits` for all sums
  below 2^54, that is for heights up to 10^13 (`InRange`); and that nothing current waits at
  all while `float32` is exact (`ExactPriorities`: heights up to 16776, rounds up to 99).  A
  current message weighs less than a future one in every view and state
  (`CurrentBeforeFuture`), and the conversion is monotone (`Float32Monotone`, across the
  powers of two at which its steps double), so the queue never contradicts the weights;
  what processBacklog leaves has the same priority as the future message it stops at.
  Until the next `processBacklog` only `catchUpRound` moves the view, which makes nothing
  current.
* **`TurnsDiffer`** - `EveryoneGetsATurn` for both policies and any number of
  validators: the seed grows by one with the round and remainders of different
  numbers less than N apart differ.
* **`AuthorsMoveOn`** - `AuthorMovesOn`, from the same invariant `RInv`: the turns are what
  `CalcProposer` gives for the rounds so far.
* **`SealingTypes`**, **`HashIsOwned`**, **`NothingIsLost`** (`CorePartsProofs`) -
  `SealingTypeOK`, `HashHasOwner` and `NoBlockLost` for any blocks and heights.  None is inductive alone; `SealingInv`
  adds where everything stands: the core is at most one height ahead of the chain
  (`Ahead`); a block of the worker is decided at one height, and stands on the head
  as long as that height is the next (`Names`); what is in `commitCh` or was returned
  by Seal was decided (`InChannel`, `Results`); one Seal at most has `sealMu`
  (`OneOwner`); and the block that the event loop is sending is the one just committed,
  not in the channel yet, its Seal listening or stopped (`AtSend`).  A Seal that is past its
  `select` was stopped, or its block is committed: that keeps the hash from naming a Seal
  that left without either.
* **`MinerTypes`**, **`StopsAreUndone`** (`CorePartsProofs`) - `MinerTypeOK` and
  `StopIsUndone` of `Miner`, for any number of blocks: the safety half of `MiningResumes`.  The invariant `MinerInv` adds that `update`, in the
  middle of a call, has left the mark of its event (`InCall`); that while `canStart` is
  false the worker is off, with a sync or the timer to lift it (`Waits`); and that the
  block waited for is at most the next (`Near`).  It needs `update` to be subscribed:
  after a DoneEvent the claim is false, see `StartTakesEffect` above.
* **`QbftTypes`** (`QbftStepProofs`) - `TypeOK` of `QbftCore` over **any number of sequences**.  The
  invariant `WellTyped` adds the shape of every message sent, and that a core past
  AcceptRequest has a PRE-PREPARE (`CoreTyped`): what it prepares is a block.  That
  `preprepareSent` is not ahead of the round is the part that could fail: a proposer
  with it ahead would never send the PRE-PREPARE of the rounds in between.
* **`JustificationsSuffice`**, **`QbftAgreement`**, **`RoundChangesTellPrepared`** (`QbftProofs`) -
  `CommittedStays`, `Agreement` and `PreparedTold` for any validators, blocks and
  number of rounds, **within one sequence whose quorums overlap** (`OneSequence`; over
  two sequences `Agreement` fails, see above; `CeilQuorumsOverlap`: the quorum of
  ceil(2N/3) always overlaps).  `CommittedStays` speaks of COMMITs that a quorum has
  sent, which a later step can bring about; the inductive `Safe` speaks of those a
  quorum has sent *or may still send* (`MayCommit`: the validators whose round is not
  past r yet), a set that no step enlarges.  A validator that asked for a later round
  is in it only through its COMMIT, and then its ROUND-CHANGE tells of a block
  prepared at least that late (`RoundChangesTell`).  So the quorum that justifies a
  PRE-PREPARE meets `MayCommit` in a message that rules out "nothing prepared"; and the
  highest prepared block it shows was prepared in round r, where there is one block only
  (`Once`, `CommitsPrepared`), or later, where `Safe` holds already (`JustifiedSafe`).
* **`PledgesStayWhole`**, **`SeatsHaveWeight`**, **`ProxiesStayDistinct`**
  (`StakingProofs`) - `PledgesAreWhole`, `SeatedHaveWeight`, `ProxiesDistinct`.  The
  inductive invariant `IInv` adds that the two entries of a pledge are equal (a revocation removes what the validator's
  list says from what the staker's list says) and that coefficients stay in range
  (so that a fine is at most `StakerBase`).
* **`TokensStay`**, **`RecordsStayInStep`**, **`ListStaysInStep`**, **`NothingNegative`**
  (`StakingProofs`) - `TokensConserved`, `RecordsAgree`, `ListMatchesPledges` and `TypeOK`,
  for any accounts and amounts.  They hold together only (`LedgerInv`, on top of
  `IInv`): that `SubPledgedBalance` does not go below zero needs the pledged balance to
  be the sum of the entries (`PledgesAddUp`), which a revocation keeps because it pays
  each staker its entry (`RefundsPaid`, `RefundsTaken`).  Rewards are the
  hard step: the shares of an owner's pool, rounded down one by one, add up to at most
  the pool (`SharesFit`), so that charging the owner with their sum
  does not take it below zero and makes no token (`RewardsAddUp`).
* **`VotesStandBehind`**, **`VotesCountOnce`** (`EmptyBlockProofs`) - `EmptyBlocksVoted` and
  `TypeOK`, for any stakers, pledges and coefficients.  `CountedGiven` closes the gap
  between the moments at which votes are summed up: what a pool or a block under
  assembly counts for a height was given for that height.  So the votes given are
  at least those counted, weight by weight (`MoreVotes`), and votes are never taken back
  (`VotedLasts`).
* **`ReorgsHaveACause`** (`EmptyBlockProofs`) - `OnlyEmptyBlocksUndo`, for every
  difficulty of empty blocks above 1.  If all blocks of the new branch that differ from
  the old chain are normal, the new chain is lighter unless it is longer
  by more than the difficulty less one (`Lighter`, `ReorgNeeds`).
  The last case is real: a long enough branch of normal blocks outweighs one with an
  empty block.

What `RoundProofs` and `QbftProofs` need to know of cardinalities is stated apart from
the protocol (`Counting`; `QuorumLaws`: quorums are monotone, two of them meet, different
senders are counted).  The lemmas on handlers assume it and never speak of finite sets;
`CountingHolds` and `QuorumLawsHold` derive it from the library's theorems at the end.

`SumTheorems` proves what the sums rest on.  `SumFunction` of the community modules takes
elements out in an order nobody knows; that the order does not matter (`SumTakes`), and
with it linearity, monotonicity, updates at one point and the exchange of two sums,
follow by induction over the size of the domain.  The library's induction theorems take
an operator, which the provers cannot instantiate; `SetInduction` says the same of a
set of numbers, from the well-foundedness of `<`, and stays within first-order logic.

Only model-checked:

* liveness (`EveryHeightCommitted`, `LoopGoesOn`, `MiningResumes`, `EmptyPhaseEnds`,
  `HeadsHandled`), which with ENABLED and fairness is out of the prover's reach;
* QBFT's safety beyond one sequence, where it does not hold.

## 6. What could come next

* The goroutines of `certify.go` with their channels (`signatureResultCh`, `purge`,
  `requestEmpty`) beside `Miner`, for deadlock; `IbftCore` with empty blocks, for
  progress across rounds.
* `verifyCommittedSeals` against what the core produces.

## 7. Not modelled

* Signatures, hashes and encodings: a message has the sender it names, a digest is
  its block.
* Timers' lengths: a timeout may happen at any time.
* Failures of `Verify` other than a bad block, and a validator set that cannot be
  computed (`startNewRound` returns early).
* In `IbftCore` all heights have the same validators; `Backlog` and
  `ProposerRotation` let them change.
* Snapshots and votes for validators (`backend/snapshot.go`): votes are cast through
  the API only, and the validators of a height are not taken from the snapshot but
  drawn from the staking list (`backend.go:387`).
* The draw itself (`Random11ValidatorFromPool`) is arithmetic on hashes and address
  ranges; the models let the validators be any.
* Verification of headers and committed seals (a header needs more than F seals, while
  the core gathers 2F+1 COMMITs).
* The goroutines of `certify.go`, forwarding of votes between peers, and the data races
  on the maps of votes and of online validators.
* The CSBT ledger, whose operations are single assignments.
* The EVM, tries, databases, transaction pool, peer-to-peer, light client, RPC,
  commands, wallets and the engines Clique and Ethash, which are go-ethereum's.  They
  are by far the largest part of the repository: what is modelled is the part that
  Erbie adds or changes, and it is a small share of the lines.
