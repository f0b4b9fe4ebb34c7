------------------------------ MODULE Staking ------------------------------
(***************************************************************************)
(* The pledge ledger of the state database: what a transaction of type 3    *)
(* (pledge), 4 (cancel a pledge) and 5 (buy the coefficient back) and a     *)
(* plain transfer do to the accounts and to the validator list (EVM.Call,   *)
(* HandleCSBT, StateDB), and what the end of a block does to coefficients   *)
(* and balances (Engine.FinalizeAndAssemble).                               *)
(*                                                                          *)
(* The same tokens are recorded four times: in the staker's list of         *)
(* pledges, in the validator's list of stakers, in the validator's pledged  *)
(* balance and in its entry of the validator list.  Gas is left out.        *)
(***************************************************************************)
EXTENDS Integers, FiniteSets, Functions

CONSTANTS
  Accounts,
  NoProxy,            \* the empty address
  Proxies,            \* the proxy addresses a pledge may name, NoProxy among them
  Amounts,            \* the values a transaction may have
  GenesisFunds,       \* [Accounts -> Nat], the balances of the genesis allocation
  GenesisPledge,      \* [genesis validators -> Nat]
  StakerBase,         \* types.StakerBase, 350 ERB
  ValidatorBase,      \* types.ValidatorBase, 35000 ERB
  FullCoefficient,    \* VALIDATOR_COEFFICIENT, 70
  EmptyBlockPenalty,  \* the 20 points an empty block costs
  PointPrice,         \* what a lost point costs, 0.1 ERB
  CancelInterval,     \* types.CancelDayPledgedInterval
  BlockReward,        \* GetRewardAmount of a period
  ValidatorPercent,   \* types.PercentageValidatorReward, 7
  MaxBlock,           \* bound: the number of blocks
  BlockCalls          \* bound: the calls of a block, its gas limit in the code

ASSUME StakingAssumption ==
  /\ IsFiniteSet(Accounts) /\ NoProxy \notin Accounts /\ NoProxy \in Proxies
  /\ Amounts \subseteq Nat
  /\ StakerBase \in Nat \ {0} /\ ValidatorBase \in Nat /\ ValidatorBase >= StakerBase
  /\ FullCoefficient \in Nat \ {0} /\ EmptyBlockPenalty \in Nat /\ PointPrice \in Nat
  /\ PointPrice * (FullCoefficient - 1) <= StakerBase
  /\ CancelInterval \in Nat /\ BlockReward \in Nat /\ ValidatorPercent \in 0 .. 100
  /\ MaxBlock \in Nat /\ BlockCalls \in Nat
  /\ DOMAIN GenesisPledge \subseteq Accounts /\ DOMAIN GenesisFunds = Accounts
  /\ \A a \in Accounts : GenesisFunds[a] \in Nat
  /\ \A v \in DOMAIN GenesisPledge :
       GenesisPledge[v] \in Nat /\ GenesisPledge[v] >= ValidatorBase
                                /\ GenesisPledge[v] <= GenesisFunds[v]

VARIABLES
  balance,      \* Balance of an account
  pledged,      \* Worm.PledgedBalance: what all stakers pledged to an account
  stakerExt,    \* Worm.StakerExtension: [staker][validator], 0 without an entry
  since,        \* the block number of that entry, 0 without an entry
  validatorExt, \* Worm.ValidatorExtension: [validator][staker]
  proxyOf,      \* Worm.ValidatorProxy
  coefficient,  \* Worm.Coefficient
  validators,   \* the validator list: its members' [balance, proxy]
  zeroAddress,  \* the balance of the zero address
  minted,       \* all block rewards so far
  block,        \* the number of the block being assembled
  parent,       \* the validators of the parent block's state
  signatories,  \* the validators of all earlier blocks' states
  calls,        \* the number of calls in the block being assembled
  failed        \* the last call returned an error

ledger == <<balance, pledged, stakerExt, since, validatorExt, proxyOf, coefficient,
            validators, zeroAddress>>
chain  == <<minted, block, parent, signatories>>
vars   == <<ledger, chain, calls, failed>>

-----------------------------------------------------------------------------
\* The validator list.

without(vl, v) == Restrict(vl, DOMAIN vl \ {v})

SetValidatorAmount(vl, v, amount, proxy) ==
  [a \in DOMAIN vl \cup {v} |->
     IF a = v THEN [balance |-> amount, proxy |-> proxy] ELSE vl[a]]

\* Mutant: an entry stays until nothing is left of it.
removeValidatorAtZero(vl, v, amount) ==
  IF v \notin DOMAIN vl THEN vl
  ELSE IF vl[v].balance - amount <= 0 THEN without(vl, v)
  ELSE SetValidatorAmount(vl, v, vl[v].balance - amount, vl[v].proxy)

RemoveValidator(vl, v, amount) ==
  IF v \notin DOMAIN vl THEN vl
  ELSE IF vl[v].balance - amount < ValidatorBase THEN without(vl, v)
  ELSE SetValidatorAmount(vl, v, vl[v].balance - amount, vl[v].proxy)

\* Mutant: only the members' addresses are compared.
existAddress(vl, proxy) == proxy \in DOMAIN vl

Exist(vl, proxy) == \E v \in DOMAIN vl : v = proxy \/ vl[v].proxy = proxy

-----------------------------------------------------------------------------
\* Coefficients.

\* Mutant: the floor is 0.
subCoefficientToZero(coe, points) == IF coe >= points THEN coe - points ELSE 0

SubCoefficient(coe, points) == IF coe - points >= 1 THEN coe - points ELSE 1

punishment(coe) == IF coe = 0 THEN 0 ELSE (FullCoefficient - coe) * PointPrice

-----------------------------------------------------------------------------
\* A call that changes the state takes its place in the block.
count == calls < BlockCalls /\ calls' = calls + 1

\* An error that is returned before the state is touched.
refuse == failed' = TRUE /\ UNCHANGED <<ledger, chain, calls>>

\* Mutant: the pledged balance is the staker's, not the validator's.
stakerPledgeOwn(from, to, amount, proxy) ==
  /\ balance' = [balance EXCEPT ![from] = @ - amount]
  /\ stakerExt' = [stakerExt EXCEPT ![from][to] = @ + amount]
  /\ since' = [since EXCEPT ![from][to] = block]
  /\ pledged' = [pledged EXCEPT ![from] = @ + amount]
  /\ proxyOf' = [proxyOf EXCEPT ![to] = IF from = to THEN proxy ELSE @]
  /\ validatorExt' = [validatorExt EXCEPT ![to][from] = @ + amount]

StakerPledge(from, to, amount, proxy) ==
  /\ balance' = [balance EXCEPT ![from] = @ - amount]
  /\ stakerExt' = [stakerExt EXCEPT ![from][to] = @ + amount]
  /\ since' = [since EXCEPT ![from][to] = block]
  /\ pledged' = [pledged EXCEPT ![to] = @ + amount]
  /\ proxyOf' = [proxyOf EXCEPT ![to] = IF from = to THEN proxy ELSE @]
  /\ validatorExt' = [validatorExt EXCEPT ![to][from] = @ + amount]

\* The validator leaves the list and returns with all that is pledged to it,
\* unless that is too little or its proxy is taken; the latter is an error.
ResetMinerBecome(v) ==
  LET rest == without(validators, v)
      taken == proxyOf'[v] # NoProxy /\ Exist(rest, proxyOf'[v])
      seated == pledged'[v] >= ValidatorBase /\ ~taken
  IN  /\ failed' = (pledged'[v] >= ValidatorBase /\ taken)
      /\ validators' = IF seated THEN SetValidatorAmount(rest, v, pledged'[v], proxyOf'[v])
                       ELSE rest
      /\ coefficient' = [coefficient EXCEPT ![v] =
                           IF seated /\ @ = 0 THEN FullCoefficient ELSE @]

\* Mutant: without CanTransfer.
mayPledgeUnfunded(from, to, value) == stakerExt[from][to] >= StakerBase \/ value >= StakerBase

mayPledge(from, to, value) ==
  /\ stakerExt[from][to] >= StakerBase \/ value >= StakerBase
  /\ balance[from] >= value

\* Type 3.  An error of ResetMinerBecome leaves Call without a revert.
Pledge(from, to, value, proxy) ==
  \/ ~mayPledge(from, to, value) /\ refuse
  \/ /\ mayPledge(from, to, value) /\ count
     /\ StakerPledge(from, to, value, proxy)
     /\ ResetMinerBecome(to)
     /\ UNCHANGED <<zeroAddress, chain>>

-----------------------------------------------------------------------------
\* Mutant: what is left of the pledge is not compared with StakerBase.
mayCancelDownTo1(from, to, value) ==
  /\ stakerExt[from][to] >= value
  /\ block - since[from][to] >= CancelInterval
  /\ from = to => value >= punishment(coefficient[to])

mayCancel(from, to, value) ==
  /\ stakerExt[from][to] = value \/ stakerExt[from][to] - value >= StakerBase
  /\ block - since[from][to] >= CancelInterval
  /\ from = to => value >= punishment(coefficient[to])

\* The entries of the pledge lose amount; an entry with no more than that goes.
lessBy(entry, amount) == IF entry > amount THEN entry - amount ELSE 0

\* A validator that takes back all of its own pledge sends its stakers' home
\* (RevocateAllStakers); points it lost are paid for out of the pledge.
NewCancelStakerPledge(from, to, amount) ==
  LET all == from = to /\ stakerExt[from][to] = amount
      fine == IF from = to THEN punishment(coefficient[to]) ELSE 0
      back == [a \in Accounts |-> IF a = from THEN amount
                                  ELSE IF all THEN validatorExt[to][a] ELSE 0]
  IN  /\ balance' = [a \in Accounts |-> balance[a] + back[a] - (IF a = from THEN fine ELSE 0)]
      /\ zeroAddress' = zeroAddress + fine
      /\ coefficient' = [coefficient EXCEPT ![to] = IF fine > 0 THEN FullCoefficient ELSE @]
      /\ stakerExt' = [a \in Accounts |->
                         [stakerExt[a] EXCEPT ![to] = lessBy(@, back[a])]]
      /\ since' = [a \in Accounts |->
                     [since[a] EXCEPT ![to] = IF stakerExt'[a][to] = 0 THEN 0 ELSE @]]
      /\ validatorExt' = [validatorExt EXCEPT ![to] =
                            [a \in Accounts |-> lessBy(validatorExt[to][a], back[a])]]
      /\ pledged' = [pledged EXCEPT ![to] = @ - SumFunction(back)]
      /\ validators' = RemoveValidator(validators, to, SumFunction(back))

\* Type 4.
Cancel(from, to, value) ==
  \/ ~mayCancel(from, to, value) /\ refuse
  \/ /\ mayCancel(from, to, value) /\ count
     /\ NewCancelStakerPledge(from, to, value)
     /\ failed' = FALSE
     /\ UNCHANGED <<proxyOf, chain>>

\* Type 5.
RecoverValidatorCoefficient(a) ==
  LET price == punishment(coefficient[a])
      may == pledged[a] > 0 /\ coefficient[a] # 0 /\ balance[a] >= price
  IN  \/ ~may /\ refuse
      \/ /\ may /\ count
         /\ balance' = [balance EXCEPT ![a] = @ - price]
         /\ zeroAddress' = zeroAddress + price
         /\ coefficient' = [coefficient EXCEPT ![a] = FullCoefficient]
         /\ failed' = FALSE
         /\ UNCHANGED <<pledged, stakerExt, since, validatorExt, proxyOf, validators, chain>>

-----------------------------------------------------------------------------
\* The end of a block.

\* What the staker a gets of the reward of the validator v.
stakerReward(v, a) ==
  LET pool == (BlockReward * (100 - ValidatorPercent)) \div 100
      others == SumFunction(validatorExt[v]) - validatorExt[v][v]
  IN  IF a = v \/ validatorExt[v][a] = 0 THEN 0
      ELSE (pool * validatorExt[v][a]) \div others

\* Mutant: a validator with stakers pays out the whole pool, not what was
\* given after rounding.
distributeWholePool(rewarded) ==
  balance' = [a \in Accounts |->
    balance[a]
    + SumFunction([v \in rewarded |-> stakerReward(v, a)])
    + (IF a \notin rewarded THEN 0
       ELSE IF \A s \in Accounts \ {a} : validatorExt[a][s] = 0 THEN BlockReward
       ELSE BlockReward - (BlockReward * (100 - ValidatorPercent)) \div 100)]

\* CreateNFTByOfficial16 pays the validators, who then pay their stakers.
DistributeRewardsToStakers(rewarded) ==
  balance' = [a \in Accounts |->
    balance[a]
    + SumFunction([v \in rewarded |-> stakerReward(v, a)])
    + (IF a \in rewarded
       THEN BlockReward - SumFunction([s \in Accounts |-> stakerReward(a, s)]) ELSE 0)]

\* The slashed lose points, the restored have them all back, and validators
\* found to have signed twice keep one.
coefficientsAfter(slashed, restored, evil) ==
  LET voted == [a \in Accounts |->
        IF a \in restored THEN FullCoefficient
        ELSE IF a \in slashed THEN SubCoefficient(coefficient[a], EmptyBlockPenalty)
        ELSE coefficient[a]]
  IN  [a \in Accounts |-> IF a \in evil THEN SubCoefficient(voted[a], FullCoefficient)
                          ELSE voted[a]]

FinalizeAndAssemble(slashed, restored, rewarded, evil) ==
  /\ block < MaxBlock
  /\ coefficient' = coefficientsAfter(slashed, restored, evil)
  /\ DistributeRewardsToStakers(rewarded)
  /\ minted' = minted + BlockReward * Cardinality(rewarded)
  /\ block' = block + 1
  /\ calls' = 0
  /\ parent' = DOMAIN validators
  /\ signatories' = signatories \cup DOMAIN validators
  /\ failed' = FALSE
  /\ UNCHANGED <<pledged, stakerExt, since, validatorExt, proxyOf, validators, zeroAddress>>

\* A normal block restores the validators it rewards.
normalBlock(rewarded, evil) == FinalizeAndAssemble({}, rewarded, rewarded, evil)

\* An empty block slashes the elected validators and restores those who voted.
emptyBlock(elected, voters, rewarded, evil) ==
  FinalizeAndAssemble(elected, voters, rewarded, evil)

-----------------------------------------------------------------------------
genesis(v) == IF v \in DOMAIN GenesisPledge THEN GenesisPledge[v] ELSE 0

\* A genesis file names no proxy twice.
genesisProxies ==
  {f \in [Accounts -> Proxies] :
     /\ \A a \in Accounts \ DOMAIN GenesisPledge : f[a] = NoProxy
     /\ \A v, w \in Accounts : f[v] = f[w] /\ v # w => f[v] = NoProxy}

Init ==
  /\ balance = [a \in Accounts |-> GenesisFunds[a] - genesis(a)]
  /\ pledged = [a \in Accounts |-> genesis(a)]
  /\ stakerExt = [a \in Accounts |-> [v \in Accounts |-> IF a = v THEN genesis(v) ELSE 0]]
  /\ since = [a \in Accounts |-> [v \in Accounts |-> 0]]
  /\ validatorExt = stakerExt
  /\ proxyOf \in genesisProxies
  /\ coefficient = [a \in Accounts |->
                      IF a \in DOMAIN GenesisPledge THEN FullCoefficient ELSE 0]
  /\ validators = [v \in DOMAIN GenesisPledge |->
                     [balance |-> GenesisPledge[v], proxy |-> proxyOf[v]]]
  /\ zeroAddress = 0 /\ minted = 0 /\ block = 1 /\ calls = 0 /\ failed = FALSE
  /\ parent = DOMAIN GenesisPledge /\ signatories = DOMAIN GenesisPledge

Next ==
  \/ \E from, to \in Accounts, value \in Amounts :
       \/ \E proxy \in Proxies : Pledge(from, to, value, proxy)
       \/ Cancel(from, to, value)
  \/ \E a \in Accounts : RecoverValidatorCoefficient(a)
  \/ \E rewarded \in SUBSET signatories, evil \in SUBSET DOMAIN validators :
       \/ normalBlock(rewarded, evil)
       \/ \E elected, voters \in SUBSET parent : emptyBlock(elected, voters, rewarded, evil)

Spec == Init /\ [][Next]_vars

-----------------------------------------------------------------------------
Entry == [balance : Nat, proxy : Proxies]

\* No balance, pledge or coefficient leaves its range: SubBalance and
\* SubPledgedBalance have no check of their own.
TypeOK ==
  /\ balance \in [Accounts -> Nat] /\ pledged \in [Accounts -> Nat]
  /\ stakerExt \in [Accounts -> [Accounts -> Nat]]
  /\ validatorExt \in [Accounts -> [Accounts -> Nat]]
  /\ since \in [Accounts -> [Accounts -> Nat]]
  /\ proxyOf \in [Accounts -> Proxies]
  /\ coefficient \in [Accounts -> 0 .. FullCoefficient]
  /\ DOMAIN validators \subseteq Accounts
  /\ \A v \in DOMAIN validators : validators[v] \in Entry
  /\ zeroAddress \in Nat /\ minted \in Nat /\ block \in Nat /\ calls \in Nat /\ failed \in BOOLEAN
  /\ parent \subseteq signatories /\ signatories \subseteq Accounts

\* Pledging, cancelling, fines and the sharing out of rewards move tokens and
\* make none: what the accounts hold and have pledged is the genesis allocation
\* and the block rewards (StakerPledge, NewCancelStakerPledge,
\* RevocateAllStakers, DistributeRewardsToStakers).
TokensConserved ==
  SumFunction(balance) + SumFunction(pledged) + zeroAddress = SumFunction(GenesisFunds) + minted

\* The staker's and the validator's record of a pledge agree, and the pledged
\* balance of a validator is the sum of its stakers' pledges.
RecordsAgree ==
  \A v \in Accounts : /\ \A a \in Accounts : stakerExt[a][v] = validatorExt[v][a]
                      /\ pledged[v] = SumFunction(validatorExt[v])

\* The validator list holds for each member what is pledged to it, and that is
\* enough for a validator (ResetMinerBecome, RemoveValidator).
ListMatchesPledges ==
  \A v \in DOMAIN validators : /\ validators[v].balance = pledged[v]
                               /\ pledged[v] >= ValidatorBase

\* No pledge is too small to be taken back: whatever was added, cancelled and
\* fined before, a pledge is not below StakerBase, and a validator's own pledge
\* is enough for its fine (HandleCSBT, cases 3 and 4).
PledgesAreWhole ==
  \A a, v \in Accounts : stakerExt[a][v] > 0 =>
    /\ stakerExt[a][v] >= StakerBase
    /\ a = v => stakerExt[a][v] >= punishment(coefficient[v])

\* A member of the validator list has a coefficient that gives it weight,
\* however often it left, was punished and came back (ResetMinerBecome,
\* SubCoefficient).
SeatedHaveWeight == \A v \in DOMAIN validators : coefficient[v] > 0

\* No two members of the validator list have the same proxy: "the other
\* validators with the same proxy address cannot be added" (ResetMinerBecome).
ProxiesDistinct ==
  \A v, w \in DOMAIN validators :
    validators[v].proxy = validators[w].proxy /\ v # w => validators[v].proxy = NoProxy

\* What the comment on EVM.Call says: it "reverses the state in case of an
\* execution error".
FailedCallChangesNothing == [][failed' => UNCHANGED ledger]_vars
=============================================================================
