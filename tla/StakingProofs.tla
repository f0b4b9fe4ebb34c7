--------------------------- MODULE StakingProofs ---------------------------
(***************************************************************************)
(* For any number of accounts, any amounts and any prices: a pledge can     *)
(* always be taken back, members of the validator list have weight, no two  *)
(* of them have the same proxy, the four records of a pledge are in step,   *)
(* no balance goes below zero, and no token is made or lost.                *)
(***************************************************************************)
EXTENDS Staking, TLAPS

\* A pledge of the staker is the pledge of the validator, and is whole.
EntriesMatch ==
  /\ stakerExt \in [Accounts -> [Accounts -> Nat]]
  /\ validatorExt \in [Accounts -> [Accounts -> Nat]]
  /\ \A a, v \in Accounts : /\ stakerExt[a][v] = validatorExt[v][a]
                            /\ stakerExt[a][v] = 0 \/ stakerExt[a][v] >= StakerBase

CoefficientsInRange == coefficient \in [Accounts -> 0 .. FullCoefficient]

\* The list is made of accounts, and those that may sign a block are accounts.
ListOfAccounts ==
  /\ DOMAIN validators \subseteq Accounts
  /\ parent \subseteq Accounts /\ signatories \subseteq Accounts

IInv == EntriesMatch /\ CoefficientsInRange /\ ListOfAccounts /\ SeatedHaveWeight /\ ProxiesDistinct

-----------------------------------------------------------------------------
\* A coefficient of at least one point never costs more than a pledge.
LEMMA FineIsCovered ==
  ASSUME NEW coe \in 0 .. FullCoefficient
  PROVE  punishment(coe) \in Nat /\ punishment(coe) <= StakerBase
<1>1. CASE coe = 0
  BY <1>1, StakingAssumption DEF punishment
<1>2. CASE coe # 0
  <2> DEFINE lost == FullCoefficient - coe
             rest == coe - 1
  <2>1. lost \in Nat /\ rest \in Nat /\ lost + rest = FullCoefficient - 1
    BY <1>2, StakingAssumption
  <2>2. PointPrice \in Nat /\ PointPrice * (lost + rest) <= StakerBase /\ StakerBase \in Nat
    BY <2>1, StakingAssumption
  <2>3. punishment(coe) = lost * PointPrice
    BY <1>2 DEF punishment
  <2> HIDE DEF lost, rest
  <2>4. PointPrice * (lost + rest) = lost * PointPrice + rest * PointPrice
    BY <2>1, <2>2, SMT
  <2>5. lost * PointPrice \in Nat /\ rest * PointPrice \in Nat
    BY <2>1, <2>2, SMT
  <2>. QED BY <2>2, <2>3, <2>4, <2>5
<1>. QED BY <1>1, <1>2

LEMMA SubCoefficientRange ==
  ASSUME NEW coe \in 0 .. FullCoefficient, NEW points \in Nat
  PROVE  SubCoefficient(coe, points) \in 1 .. FullCoefficient
BY StakingAssumption DEF SubCoefficient

\* The invariant says all that PledgesAreWhole does.
LEMMA WholeFromInvariant ==
  ASSUME IInv
  PROVE  PledgesAreWhole
<1> SUFFICES ASSUME NEW a \in Accounts, NEW v \in Accounts, stakerExt[a][v] > 0
             PROVE  /\ stakerExt[a][v] >= StakerBase
                    /\ stakerExt[a][v] >= punishment(coefficient[v])
  BY DEF PledgesAreWhole
<1>1. stakerExt[a][v] \in Nat /\ stakerExt[a][v] >= StakerBase
  BY DEF IInv, EntriesMatch
<1>2. coefficient[v] \in 0 .. FullCoefficient
  BY DEF IInv, CoefficientsInRange
<1>3. punishment(coefficient[v]) \in Nat /\ punishment(coefficient[v]) <= StakerBase
  BY <1>2, FineIsCovered
<1>. QED BY <1>1, <1>3, StakingAssumption

-----------------------------------------------------------------------------
\* Taking an entry out of the list, or taking tokens off it, keeps what the
\* invariant says of the list.
LEMMA RemoveKeepsList ==
  ASSUME IInv, NEW v \in Accounts, NEW amount
  PROVE  LET new == RemoveValidator(validators, v, amount)
         IN  /\ DOMAIN new \subseteq DOMAIN validators
             /\ \A w \in DOMAIN new : new[w].proxy = validators[w].proxy
BY DEF RemoveValidator, SetValidatorAmount, without, Restrict

\* The whole invariant, after a step that takes entries off the list at most.
LEMMA ListShrinks ==
  ASSUME IInv, EntriesMatch', CoefficientsInRange',
         DOMAIN validators' \subseteq DOMAIN validators,
         \A w \in DOMAIN validators' : validators'[w].proxy = validators[w].proxy,
         \A w \in Accounts : coefficient[w] > 0 => coefficient'[w] > 0,
         parent' \subseteq Accounts, signatories' \subseteq Accounts
  PROVE  IInv'
<1>1. ListOfAccounts'
  BY DEF IInv, ListOfAccounts
<1>2. SeatedHaveWeight'
  BY DEF IInv, ListOfAccounts, SeatedHaveWeight
<1>3. ProxiesDistinct'
  BY DEF IInv, ProxiesDistinct
<1>. QED BY <1>1, <1>2, <1>3 DEF IInv

LEMMA InitHolds == Init => IInv
<1> SUFFICES ASSUME Init PROVE IInv
  OBVIOUS
<1>1. \A v \in Accounts : genesis(v) \in Nat /\ (genesis(v) = 0 \/ genesis(v) >= StakerBase)
  BY StakingAssumption DEF genesis
<1>2. EntriesMatch
  BY <1>1 DEF Init, EntriesMatch
<1>3. CoefficientsInRange
  BY StakingAssumption DEF Init, CoefficientsInRange
<1>4. ListOfAccounts
  BY StakingAssumption DEF Init, ListOfAccounts
<1>5. SeatedHaveWeight
  BY StakingAssumption DEF Init, SeatedHaveWeight
<1>6. ProxiesDistinct
  BY StakingAssumption DEF Init, ProxiesDistinct, genesisProxies
<1>. QED BY <1>2, <1>3, <1>4, <1>5, <1>6 DEF IInv

-----------------------------------------------------------------------------
\* A call that is refused, and a step that stutters.
LEMMA UnchangedKeeps ==
  ASSUME IInv, UNCHANGED <<ledger, chain>>
  PROVE  IInv'
BY DEF IInv, EntriesMatch, CoefficientsInRange, ListOfAccounts, SeatedHaveWeight,
       ProxiesDistinct, ledger, chain

\* Type 3: the entry grows on both sides; the validator may enter the list, with
\* a coefficient and a proxy that nobody else has.
LEMMA PledgeKeeps ==
  ASSUME IInv, NEW from \in Accounts, NEW to \in Accounts, NEW value \in Amounts,
         NEW proxy \in Proxies, Pledge(from, to, value, proxy)
  PROVE  IInv'
<1>1. CASE refuse
  BY <1>1, UnchangedKeeps DEF refuse
<1>2. CASE /\ mayPledge(from, to, value)
           /\ StakerPledge(from, to, value, proxy)
           /\ ResetMinerBecome(to)
           /\ UNCHANGED <<zeroAddress, chain>>
  <2> DEFINE rest == without(validators, to)
             taken == proxyOf'[to] # NoProxy /\ Exist(rest, proxyOf'[to])
             seated == pledged'[to] >= ValidatorBase /\ ~taken
  <2>1. EntriesMatch'
    <3>1. value \in Nat /\ StakerBase \in Nat
      BY StakingAssumption
    <3>2. stakerExt' = [stakerExt EXCEPT ![from][to] = stakerExt[from][to] + value]
      BY <1>2 DEF StakerPledge
    <3>3. validatorExt' = [validatorExt EXCEPT ![to][from] = validatorExt[to][from] + value]
      BY <1>2 DEF StakerPledge
    <3>4. stakerExt[from][to] >= StakerBase \/ value >= StakerBase
      BY <1>2 DEF mayPledge
    <3>. QED BY <3>1, <3>2, <3>3, <3>4 DEF IInv, EntriesMatch
  <2>2. coefficient' = [coefficient EXCEPT ![to] =
                          IF seated /\ coefficient[to] = 0 THEN FullCoefficient ELSE coefficient[to]]
    BY <1>2 DEF ResetMinerBecome
  <2>3. validators' = IF seated THEN SetValidatorAmount(rest, to, pledged'[to], proxyOf'[to])
                      ELSE rest
    BY <1>2 DEF ResetMinerBecome
  <2>4. DOMAIN rest = DOMAIN validators \ {to} /\ \A w \in DOMAIN rest : rest[w] = validators[w]
    BY DEF without, Restrict
  <2>5. parent' = parent /\ signatories' = signatories
    BY <1>2 DEF chain
  <2>6. CoefficientsInRange'
    BY <2>2, StakingAssumption DEF IInv, CoefficientsInRange
  <2>7. \A w \in Accounts : coefficient[w] > 0 => coefficient'[w] > 0
    BY <2>2, StakingAssumption DEF IInv, CoefficientsInRange
  <2>8. CASE ~seated
    <3>1. validators' = rest
      BY <2>3, <2>8
    <3>. QED BY <2>1, <2>4, <2>5, <2>6, <2>7, <3>1, ListShrinks DEF IInv, ListOfAccounts
  <2>9. CASE seated
    <3>1. /\ DOMAIN validators' = DOMAIN rest \cup {to}
          /\ validators'[to].proxy = proxyOf'[to]
          /\ \A w \in DOMAIN rest : validators'[w] = validators[w] /\ w # to
      BY <2>3, <2>4, <2>9 DEF SetValidatorAmount
    <3>2. ListOfAccounts'
      BY <2>4, <2>5, <3>1 DEF IInv, ListOfAccounts
    <3>3. coefficient'[to] > 0
      BY <2>2, <2>9, StakingAssumption DEF IInv, CoefficientsInRange
    <3>4. SeatedHaveWeight'
      BY <2>4, <2>7, <3>1, <3>3 DEF IInv, ListOfAccounts, SeatedHaveWeight
    <3>5. proxyOf'[to] = NoProxy \/ \A w \in DOMAIN rest : validators[w].proxy # proxyOf'[to]
      BY <2>4, <2>9 DEF Exist
    <3>6. ProxiesDistinct'
      BY <2>4, <3>1, <3>5 DEF IInv, ProxiesDistinct
    <3>. QED BY <2>1, <2>6, <3>2, <3>4, <3>6 DEF IInv
  <2>. QED BY <2>8, <2>9
<1>. QED BY <1>1, <1>2 DEF Pledge

\* Type 4: both entries of a staker lose the same, and keep StakerBase or nothing.
LEMMA CancelKeeps ==
  ASSUME IInv, NEW from \in Accounts, NEW to \in Accounts, NEW value \in Amounts,
         Cancel(from, to, value)
  PROVE  IInv'
<1>1. CASE refuse
  BY <1>1, UnchangedKeeps DEF refuse
<1>2. CASE /\ mayCancel(from, to, value)
           /\ NewCancelStakerPledge(from, to, value)
           /\ UNCHANGED <<proxyOf, chain>>
  <2> DEFINE all == from = to /\ stakerExt[from][to] = value
             fine == IF from = to THEN punishment(coefficient[to]) ELSE 0
             back == [a \in Accounts |-> IF a = from THEN value
                                         ELSE IF all THEN validatorExt[to][a] ELSE 0]
  <2>1. /\ stakerExt' = [a \in Accounts |->
                           [stakerExt[a] EXCEPT ![to] = lessBy(stakerExt[a][to], back[a])]]
        /\ validatorExt' = [validatorExt EXCEPT ![to] =
                              [a \in Accounts |-> lessBy(validatorExt[to][a], back[a])]]
        /\ coefficient' = [coefficient EXCEPT ![to] =
                             IF fine > 0 THEN FullCoefficient ELSE coefficient[to]]
        /\ \E amount : validators' = RemoveValidator(validators, to, amount)
    BY <1>2, Zenon DEF NewCancelStakerPledge
  <2>2. value \in Nat /\ StakerBase \in Nat
    BY StakingAssumption
  <2>3. \A a \in Accounts : back[a] \in Nat
    BY <2>2 DEF IInv, EntriesMatch
  <2>4. \A a \in Accounts : LET left == lessBy(stakerExt[a][to], back[a])
                            IN  left \in Nat /\ (left = 0 \/ left >= StakerBase)
    <3> SUFFICES ASSUME NEW a \in Accounts
                 PROVE  LET left == lessBy(stakerExt[a][to], back[a])
                        IN  left \in Nat /\ (left = 0 \/ left >= StakerBase)
      OBVIOUS
    <3>1. /\ stakerExt[a][to] \in Nat /\ stakerExt[a][to] = validatorExt[to][a]
          /\ stakerExt[a][to] = 0 \/ stakerExt[a][to] >= StakerBase
      BY DEF IInv, EntriesMatch
    <3>2. CASE a = from
      <4>1. stakerExt[from][to] = value \/ stakerExt[from][to] - value >= StakerBase
        BY <1>2 DEF mayCancel
      <4>. QED BY <2>2, <3>1, <3>2, <4>1 DEF lessBy
    <3>3. CASE a # from
      <4>1. back[a] = stakerExt[a][to] \/ back[a] = 0
        BY <3>1, <3>3
      <4>. QED BY <2>2, <3>1, <4>1 DEF lessBy
    <3>. QED BY <3>2, <3>3
  <2>5. EntriesMatch'
    <3> HIDE DEF back
    <3>1. \A a \in Accounts : lessBy(stakerExt[a][to], back[a]) = lessBy(validatorExt[to][a], back[a])
      BY DEF IInv, EntriesMatch
    <3>. QED BY <2>1, <2>4, <3>1 DEF IInv, EntriesMatch
  <2>6. CoefficientsInRange' /\ \A w \in Accounts : coefficient[w] > 0 => coefficient'[w] > 0
    <3> HIDE DEF fine
    <3>1. FullCoefficient \in Nat \ {0}
      BY StakingAssumption
    <3>2. coefficient \in [Accounts -> 0 .. FullCoefficient]
      BY DEF IInv, CoefficientsInRange
    <3>3. coefficient'[to] \in {FullCoefficient, coefficient[to]}
          /\ \A w \in Accounts \ {to} : coefficient'[w] = coefficient[w]
      BY <2>1, <3>2
    <3>4. coefficient' \in [Accounts -> 0 .. FullCoefficient]
      BY <2>1, <3>1, <3>2
    <3>. QED BY <3>1, <3>2, <3>3, <3>4 DEF CoefficientsInRange
  <2>7. /\ DOMAIN validators' \subseteq DOMAIN validators
        /\ \A w \in DOMAIN validators' : validators'[w].proxy = validators[w].proxy
    BY <2>1, RemoveKeepsList
  <2>8. parent' \subseteq Accounts /\ signatories' \subseteq Accounts
    BY <1>2 DEF chain, IInv, ListOfAccounts
  <2>. QED BY <2>5, <2>6, <2>7, <2>8, ListShrinks
<1>. QED BY <1>1, <1>2 DEF Cancel

\* Type 5: the coefficient is full again.
LEMMA RecoverKeeps ==
  ASSUME IInv, NEW a \in Accounts, RecoverValidatorCoefficient(a)
  PROVE  IInv'
<1>1. CASE refuse
  BY <1>1, UnchangedKeeps DEF refuse
<1>2. CASE /\ coefficient' = [coefficient EXCEPT ![a] = FullCoefficient]
           /\ UNCHANGED <<stakerExt, validatorExt, validators, chain>>
  <2>1. EntriesMatch'
    BY <1>2 DEF IInv, EntriesMatch
  <2>2. CoefficientsInRange' /\ \A w \in Accounts : coefficient[w] > 0 => coefficient'[w] > 0
    BY <1>2, StakingAssumption DEF IInv, CoefficientsInRange
  <2>3. parent' \subseteq Accounts /\ signatories' \subseteq Accounts /\ validators' = validators
    BY <1>2 DEF chain, IInv, ListOfAccounts
  <2>. QED BY <2>1, <2>2, <2>3, ListShrinks
<1>. QED BY <1>1, <1>2 DEF RecoverValidatorCoefficient

\* The end of a block moves coefficients within their range, never to 0.
LEMMA FinalizeKeeps ==
  ASSUME IInv, NEW slashed, NEW restored, NEW rewarded, NEW evil,
         FinalizeAndAssemble(slashed, restored, rewarded, evil)
  PROVE  IInv'
<1>1. EntriesMatch'
  BY DEF FinalizeAndAssemble, IInv, EntriesMatch
<1> DEFINE voted(a) ==
             IF a \in restored THEN FullCoefficient
             ELSE IF a \in slashed THEN SubCoefficient(coefficient[a], EmptyBlockPenalty)
             ELSE coefficient[a]
<1>2. ASSUME NEW a \in Accounts
      PROVE  voted(a) \in 0 .. FullCoefficient /\ (coefficient[a] > 0 => voted(a) > 0)
  <2>1. coefficient[a] \in 0 .. FullCoefficient /\ EmptyBlockPenalty \in Nat
        /\ FullCoefficient \in Nat \ {0}
    BY StakingAssumption DEF IInv, CoefficientsInRange
  <2>2. SubCoefficient(coefficient[a], EmptyBlockPenalty) \in 1 .. FullCoefficient
    BY <2>1, SubCoefficientRange, Zenon
  <2>. QED BY <2>1, <2>2
<1>3. coefficient' = [a \in Accounts |->
        IF a \in evil THEN SubCoefficient(voted(a), FullCoefficient) ELSE voted(a)]
  BY DEF FinalizeAndAssemble, coefficientsAfter
<1> HIDE DEF voted
<1>4. ASSUME NEW a \in Accounts
      PROVE  SubCoefficient(voted(a), FullCoefficient) \in 1 .. FullCoefficient
  BY <1>2, SubCoefficientRange, StakingAssumption
<1>5. CoefficientsInRange' /\ \A w \in Accounts : coefficient[w] > 0 => coefficient'[w] > 0
  BY <1>2, <1>3, <1>4, StakingAssumption DEF CoefficientsInRange
<1>6. /\ validators' = validators
      /\ parent' \subseteq Accounts /\ signatories' \subseteq Accounts
  BY DEF FinalizeAndAssemble, IInv, ListOfAccounts
<1>. QED BY <1>1, <1>5, <1>6, ListShrinks

LEMMA NextKeeps == IInv /\ [Next]_vars => IInv'
<1> SUFFICES ASSUME IInv, [Next]_vars PROVE IInv'
  OBVIOUS
<1>1. CASE UNCHANGED vars
  BY <1>1, UnchangedKeeps DEF vars
<1>2. ASSUME NEW from \in Accounts, NEW to \in Accounts, NEW value \in Amounts,
             (\E proxy \in Proxies : Pledge(from, to, value, proxy)) \/ Cancel(from, to, value)
      PROVE  IInv'
  BY <1>2, PledgeKeeps, CancelKeeps
<1>3. ASSUME NEW a \in Accounts, RecoverValidatorCoefficient(a) PROVE IInv'
  BY <1>3, RecoverKeeps
<1>4. ASSUME NEW rewarded, NEW evil,
             normalBlock(rewarded, evil) \/ \E elected, voters \in SUBSET parent :
                                              emptyBlock(elected, voters, rewarded, evil)
      PROVE  IInv'
  BY <1>4, FinalizeKeeps DEF normalBlock, emptyBlock
<1>. QED BY <1>1, <1>2, <1>3, <1>4, Zenon DEF Next

\* In every reachable state a pledge is whole and covers the fine of its owner,
\* so that the refusal "insufficient punish amount" of NewCancelStakerPledge
\* never meets a full withdrawal.
THEOREM PledgesStayWhole == Spec => []PledgesAreWhole
<1>1. IInv => PledgesAreWhole
  BY WholeFromInvariant
<1>. QED BY <1>1, InitHolds, NextKeeps, PTL DEF Spec

\* In every reachable state the members of the validator list have a coefficient
\* above zero, whatever order they came, left and were punished in
\* (ResetMinerBecome, SubCoefficient).
THEOREM SeatsHaveWeight == Spec => []SeatedHaveWeight
<1>1. IInv => SeatedHaveWeight
  BY DEF IInv
<1>. QED BY <1>1, InitHolds, NextKeeps, PTL DEF Spec

\* In every reachable state the members of the list that have proxies have
\* different ones (Exist, ResetMinerBecome).
THEOREM ProxiesStayDistinct == Spec => []ProxiesDistinct
<1>1. IInv => ProxiesDistinct
  BY DEF IInv
<1>. QED BY <1>1, InitHolds, NextKeeps, PTL DEF Spec

-----------------------------------------------------------------------------
(* Sums over the accounts: the tokens and the four records of a pledge.      *)

PledgesAddUp == \A v \in Accounts : pledged[v] = SumFunction(validatorExt[v])

LedgerInv == IInv /\ TypeOK /\ PledgesAddUp /\ ListMatchesPledges /\ TokensConserved

LEMMA LedgerAgrees == LedgerInv => RecordsAgree
BY DEF LedgerInv, PledgesAddUp, RecordsAgree, IInv, EntriesMatch

\* A call that is refused, and a step that stutters.
LEMMA UnchangedLedger ==
  ASSUME LedgerInv, UNCHANGED <<ledger, chain>>, calls' \in Nat, failed' \in BOOLEAN
  PROVE  LedgerInv'
<1>1. /\ balance' = balance /\ pledged' = pledged /\ stakerExt' = stakerExt /\ since' = since
      /\ validatorExt' = validatorExt /\ proxyOf' = proxyOf /\ coefficient' = coefficient
      /\ validators' = validators /\ zeroAddress' = zeroAddress
      /\ minted' = minted /\ block' = block /\ parent' = parent /\ signatories' = signatories
  BY DEF ledger, chain
<1>2. IInv'
  BY UnchangedKeeps DEF LedgerInv
<1>3. TypeOK'
  BY <1>1 DEF LedgerInv, TypeOK
<1>4. PledgesAddUp' /\ ListMatchesPledges' /\ TokensConserved'
  BY <1>1 DEF LedgerInv, PledgesAddUp, ListMatchesPledges, TokensConserved
<1>. QED BY <1>2, <1>3, <1>4 DEF LedgerInv

LEMMA RefusedLedger ==
  ASSUME LedgerInv, refuse
  PROVE  LedgerInv'
BY UnchangedLedger DEF refuse, LedgerInv, TypeOK

\* What a call that goes through leaves typed.
LEMMA TypeKept ==
  ASSUME TypeOK, IInv', NEW B, B = Nat,
         balance' \in [Accounts -> B], pledged' \in [Accounts -> B],
         since' \in [Accounts -> [Accounts -> B]], proxyOf' \in [Accounts -> Proxies],
         zeroAddress' \in B, count, failed' \in BOOLEAN, UNCHANGED chain,
         \A w \in DOMAIN validators' : validators'[w] \in Entry
  PROVE  TypeOK'
<1>1. /\ minted' = minted /\ block' = block /\ parent' = parent /\ signatories' = signatories
      /\ calls' = calls + 1
  BY DEF chain, count
<1>2. calls' \in Nat
  BY <1>1 DEF TypeOK
<1>. QED BY <1>1, <1>2 DEF TypeOK, IInv, EntriesMatch, CoefficientsInRange, ListOfAccounts

LEMMA EntryMade ==
  ASSUME NEW b \in Nat, NEW p \in Proxies
  PROVE  [balance |-> b, proxy |-> p] \in Entry
BY DEF Entry

\* Only to's pledge and its place in the list change.
LEMMA ListKept ==
  ASSUME LedgerInv, NEW to \in Accounts, NEW p \in Proxies,
         pledged'[to] \in Nat, \A w \in Accounts \ {to} : pledged'[w] = pledged[w],
         \A w \in DOMAIN validators' :
           \/ w # to /\ w \in DOMAIN validators /\ validators'[w] = validators[w]
           \/ /\ w = to /\ pledged'[to] >= ValidatorBase
              /\ validators'[to] = [balance |-> pledged'[to], proxy |-> p]
  PROVE  /\ ListMatchesPledges'
         /\ \A w \in DOMAIN validators' : validators'[w] \in Entry
<1> SUFFICES ASSUME NEW w \in DOMAIN validators'
             PROVE  /\ validators'[w].balance = pledged'[w] /\ pledged'[w] >= ValidatorBase
                    /\ validators'[w] \in Entry
  BY DEF ListMatchesPledges
<1>1. CASE w # to
  <2>1. w \in DOMAIN validators /\ validators'[w] = validators[w]
    BY <1>1
  <2>2. w \in Accounts /\ validators[w] \in Entry
    BY <2>1 DEF LedgerInv, TypeOK
  <2>3. pledged'[w] = pledged[w]
    BY <1>1, <2>2
  <2>4. validators[w].balance = pledged[w] /\ pledged[w] >= ValidatorBase
    BY <2>1 DEF LedgerInv, ListMatchesPledges
  <2>. QED BY <2>1, <2>2, <2>3, <2>4
<1>2. CASE w = to
  <2>1. validators'[w] = [balance |-> pledged'[to], proxy |-> p] /\ pledged'[to] >= ValidatorBase
    BY <1>2
  <2>2. validators'[w] \in Entry
    BY <2>1, EntryMade
  <2>3. validators'[w].balance = pledged'[to]
    BY <2>1
  <2>. QED BY <1>2, <2>1, <2>2, <2>3
<1>. QED BY <1>1, <1>2

\* Only to's pledge and its entries change.
LEMMA AddUpKept ==
  ASSUME LedgerInv, NEW to \in Accounts,
         \A w \in Accounts \ {to} : pledged'[w] = pledged[w] /\ validatorExt'[w] = validatorExt[w],
         pledged'[to] = SumFunction(validatorExt'[to])
  PROVE  PledgesAddUp'
<1> SUFFICES ASSUME NEW v \in Accounts PROVE pledged'[v] = SumFunction(validatorExt'[v])
  BY DEF PledgesAddUp
<1>1. CASE v # to
  <2>1. pledged'[v] = pledged[v] /\ validatorExt'[v] = validatorExt[v]
    BY <1>1
  <2>. QED BY <2>1 DEF LedgerInv, PledgesAddUp
<1>. QED BY <1>1

(* What the calls need to know of the sums.  The theorems these three laws   *)
(* follow from come in below, where they are proved.                        *)
SumLaws ==
  /\ \A f \in [Accounts -> Nat] : SumFunction(f) \in Nat
  /\ \A f, g \in [Accounts -> Nat], x \in Accounts, d \in Int :
       g[x] = f[x] + d /\ (\A a \in Accounts \ {x} : g[a] = f[a])
         => SumFunction(g) = SumFunction(f) + d
  /\ \A f, g, h \in [Accounts -> Nat] :
       (\A a \in Accounts : h[a] = f[a] + g[a]) => SumFunction(h) = SumFunction(f) + SumFunction(g)

LEMMA TotalType ==
  ASSUME SumLaws, NEW f \in [Accounts -> Nat]
  PROVE  SumFunction(f) \in Nat
BY DEF SumLaws

\* One account's number changes.
LEMMA TotalGrows ==
  ASSUME SumLaws, NEW f \in [Accounts -> Nat], NEW g \in [Accounts -> Nat], NEW x \in Accounts,
         NEW d \in Int, g[x] = f[x] + d, \A a \in Accounts \ {x} : g[a] = f[a]
  PROVE  SumFunction(g) = SumFunction(f) + d
BY DEF SumLaws

LEMMA TotalPlus ==
  ASSUME SumLaws, NEW f \in [Accounts -> Nat], NEW g \in [Accounts -> Nat],
         NEW h \in [Accounts -> Nat], \A a \in Accounts : h[a] = f[a] + g[a]
  PROVE  SumFunction(h) = SumFunction(f) + SumFunction(g)
BY Zenon DEF SumLaws

\* What the accounts and the pledges gain together is what the zero address pays.
LEMMA ConservedKept ==
  ASSUME SumLaws, LedgerInv, minted' = minted, NEW d \in Int, NEW e \in Int,
         SumFunction(balance') = SumFunction(balance) + d,
         SumFunction(pledged') = SumFunction(pledged) + e,
         zeroAddress' = zeroAddress - (d + e)
  PROVE  TokensConserved'
<1>1. SumFunction(balance) \in Nat /\ SumFunction(pledged) \in Nat /\ zeroAddress \in Nat
  BY TotalType DEF LedgerInv, TypeOK
<1>2. SumFunction(balance) + SumFunction(pledged) + zeroAddress = SumFunction(GenesisFunds) + minted
  BY DEF LedgerInv, TokensConserved
<1>3. SumFunction(balance') + SumFunction(pledged') + zeroAddress'
        = SumFunction(balance) + SumFunction(pledged) + zeroAddress
  BY <1>1
<1>. QED BY <1>2, <1>3 DEF TokensConserved

\* The list after ResetMinerBecome: to is out, or in it with all of its pledge.
LEMMA ResetEffect ==
  ASSUME NEW to, ResetMinerBecome(to)
  PROVE  /\ failed' \in BOOLEAN
         /\ \A w \in DOMAIN validators' :
              \/ w # to /\ w \in DOMAIN validators /\ validators'[w] = validators[w]
              \/ /\ w = to /\ pledged'[to] >= ValidatorBase
                 /\ validators'[to] = [balance |-> pledged'[to], proxy |-> proxyOf'[to]]
<1> DEFINE rest == without(validators, to)
           taken == proxyOf'[to] # NoProxy /\ Exist(rest, proxyOf'[to])
           seated == pledged'[to] >= ValidatorBase /\ ~taken
<1>1. /\ validators' = IF seated THEN SetValidatorAmount(rest, to, pledged'[to], proxyOf'[to])
                       ELSE rest
      /\ failed' \in BOOLEAN
  BY DEF ResetMinerBecome
<1>2. DOMAIN rest = DOMAIN validators \ {to} /\ \A w \in DOMAIN rest : rest[w] = validators[w]
  BY DEF without, Restrict
<1> HIDE DEF rest, taken
<1>. QED BY <1>1, <1>2 DEF SetValidatorAmount

\* Type 3: value goes from the balance to the pledged balance, and to both entries.
LEMMA PledgeEffect ==
  ASSUME LedgerInv, NEW from \in Accounts, NEW to \in Accounts, NEW value \in Amounts,
         NEW proxy \in Proxies, Pledge(from, to, value, proxy),
         mayPledge(from, to, value), count, StakerPledge(from, to, value, proxy),
         ResetMinerBecome(to), UNCHANGED <<zeroAddress, chain>>
  PROVE  /\ IInv' /\ TypeOK' /\ ListMatchesPledges' /\ value \in Nat
         /\ balance'[from] = balance[from] - value
         /\ \A a \in Accounts \ {from} : balance'[a] = balance[a]
         /\ pledged'[to] = pledged[to] + value
         /\ validatorExt'[to][from] = validatorExt[to][from] + value
         /\ \A a \in Accounts \ {from} : validatorExt'[to][a] = validatorExt[to][a]
         /\ \A w \in Accounts \ {to} : pledged'[w] = pledged[w] /\ validatorExt'[w] = validatorExt[w]
<1>1. /\ TypeOK /\ value \in Nat /\ value <= balance[from] /\ IInv'
      /\ balance \in [Accounts -> Nat] /\ pledged \in [Accounts -> Nat]
      /\ balance[from] \in Nat /\ pledged[to] \in Nat
  BY PledgeKeeps, StakingAssumption DEF LedgerInv, mayPledge, TypeOK
<1>2. /\ balance' = [balance EXCEPT ![from] = balance[from] - value]
      /\ pledged' = [pledged EXCEPT ![to] = pledged[to] + value]
      /\ since' = [since EXCEPT ![from][to] = block]
      /\ proxyOf' = [proxyOf EXCEPT ![to] = IF from = to THEN proxy ELSE proxyOf[to]]
      /\ validatorExt' = [validatorExt EXCEPT ![to][from] = validatorExt[to][from] + value]
  BY DEF StakerPledge
<1>3. /\ balance' \in [Accounts -> Nat] /\ balance'[from] = balance[from] - value
      /\ \A a \in Accounts \ {from} : balance'[a] = balance[a]
  BY <1>1, <1>2
<1>4. /\ pledged' \in [Accounts -> Nat] /\ pledged'[to] = pledged[to] + value
      /\ \A a \in Accounts \ {to} : pledged'[a] = pledged[a]
  BY <1>1, <1>2
<1>5. since' \in [Accounts -> [Accounts -> Nat]] /\ proxyOf' \in [Accounts -> Proxies]
  BY <1>1, <1>2, Zenon DEF TypeOK
<1>6. /\ failed' \in BOOLEAN
      /\ \A w \in DOMAIN validators' :
           \/ w # to /\ w \in DOMAIN validators /\ validators'[w] = validators[w]
           \/ /\ w = to /\ pledged'[to] >= ValidatorBase
              /\ validators'[to] = [balance |-> pledged'[to], proxy |-> proxyOf'[to]]
  BY ResetEffect
<1>7. ListMatchesPledges' /\ \A w \in DOMAIN validators' : validators'[w] \in Entry
  <2> DEFINE p == proxyOf'[to]
  <2>1. p \in Proxies /\ pledged'[to] \in Nat
    BY <1>4, <1>5
  <2>2. \A w \in DOMAIN validators' :
          \/ w # to /\ w \in DOMAIN validators /\ validators'[w] = validators[w]
          \/ /\ w = to /\ pledged'[to] >= ValidatorBase
             /\ validators'[to] = [balance |-> pledged'[to], proxy |-> p]
    BY <1>6
  <2> HIDE DEF p
  <2>. QED BY <1>4, <2>1, <2>2, ListKept
<1>8. TypeOK'
  <2>1. zeroAddress' \in Nat
    BY <1>1 DEF TypeOK
  <2>2. failed' \in BOOLEAN /\ UNCHANGED chain
    BY <1>6
  <2>. QED BY <1>1, <1>3, <1>4, <1>5, <1>7, <2>1, <2>2, TypeKept, Zenon
<1>9. /\ validatorExt'[to][from] = validatorExt[to][from] + value
      /\ \A a \in Accounts \ {from} : validatorExt'[to][a] = validatorExt[to][a]
      /\ \A w \in Accounts \ {to} : validatorExt'[w] = validatorExt[w]
  BY <1>1, <1>2 DEF TypeOK
<1>. QED BY <1>1, <1>3, <1>4, <1>7, <1>8, <1>9, Zenon

LEMMA PledgeLedger ==
  ASSUME SumLaws, LedgerInv, NEW from \in Accounts, NEW to \in Accounts, NEW value \in Amounts,
         NEW proxy \in Proxies, Pledge(from, to, value, proxy)
  PROVE  LedgerInv'
<1>1. CASE refuse
  BY <1>1, RefusedLedger
<1>2. CASE /\ mayPledge(from, to, value) /\ count
           /\ StakerPledge(from, to, value, proxy)
           /\ ResetMinerBecome(to)
           /\ UNCHANGED <<zeroAddress, chain>>
  <2>1. /\ IInv' /\ TypeOK' /\ ListMatchesPledges' /\ value \in Nat
        /\ balance'[from] = balance[from] - value
        /\ \A a \in Accounts \ {from} : balance'[a] = balance[a]
        /\ pledged'[to] = pledged[to] + value
        /\ validatorExt'[to][from] = validatorExt[to][from] + value
        /\ \A a \in Accounts \ {from} : validatorExt'[to][a] = validatorExt[to][a]
        /\ \A w \in Accounts \ {to} : pledged'[w] = pledged[w] /\ validatorExt'[w] = validatorExt[w]
    BY <1>2, PledgeEffect
  <2>2. /\ balance \in [Accounts -> Nat] /\ pledged \in [Accounts -> Nat]
        /\ validatorExt[to] \in [Accounts -> Nat] /\ zeroAddress \in Nat
        /\ pledged[to] = SumFunction(validatorExt[to])
    BY Zenon DEF LedgerInv, TypeOK, PledgesAddUp
  <2>3. /\ balance' \in [Accounts -> Nat] /\ pledged' \in [Accounts -> Nat]
        /\ validatorExt'[to] \in [Accounts -> Nat]
    BY <2>1, Zenon DEF TypeOK
  <2>4. PledgesAddUp'
    <3>1. SumFunction(validatorExt'[to]) = SumFunction(validatorExt[to]) + value
      <4> DEFINE f == validatorExt[to]
                 g == validatorExt'[to]
      <4>1. f \in [Accounts -> Nat] /\ g \in [Accounts -> Nat] /\ value \in Int
        BY <2>1, <2>2, <2>3
      <4>2. g[from] = f[from] + value /\ \A a \in Accounts \ {from} : g[a] = f[a]
        BY <2>1
      <4> HIDE DEF f, g
      <4>3. SumFunction(g) = SumFunction(f) + value
        BY <4>1, <4>2, TotalGrows, Zenon
      <4>. QED BY <4>3 DEF f, g
    <3>2. pledged'[to] = SumFunction(validatorExt'[to])
      BY <2>1, <2>2, <3>1
    <3>. QED BY <2>1, <3>2, AddUpKept
  <2>5. TokensConserved'
    <3>1. (- value) \in Int /\ value \in Int /\ balance'[from] = balance[from] + (- value)
      <4>1. value \in Nat /\ balance'[from] = balance[from] - value
        BY <2>1, Zenon
      <4>. QED BY <2>2, <4>1
    <3>2. SumFunction(balance') = SumFunction(balance) + (- value)
      BY <2>1, <2>2, <2>3, <3>1, TotalGrows
    <3>3. SumFunction(pledged') = SumFunction(pledged) + value
      BY <2>1, <2>2, <2>3, <3>1, TotalGrows
    <3>4. zeroAddress' = zeroAddress /\ minted' = minted
      BY <1>2 DEF chain
    <3>5. zeroAddress' = zeroAddress - ((- value) + value)
      BY <2>2, <3>1, <3>4
    <3>. QED BY <3>1, <3>2, <3>3, <3>4, <3>5, ConservedKept
  <2>. QED BY <2>1, <2>4, <2>5 DEF LedgerInv
<1>. QED BY <1>1, <1>2 DEF Pledge

\* Type 5: the price of the points goes to the zero address.
LEMMA RecoverEffect ==
  ASSUME LedgerInv, NEW a \in Accounts, RecoverValidatorCoefficient(a), NEW price,
         price = punishment(coefficient[a]), balance[a] >= price, count,
         balance' = [balance EXCEPT ![a] = balance[a] - price],
         zeroAddress' = zeroAddress + price, failed' = FALSE,
         UNCHANGED <<pledged, stakerExt, since, validatorExt, proxyOf, validators, chain>>
  PROVE  /\ IInv' /\ TypeOK' /\ PledgesAddUp' /\ ListMatchesPledges' /\ price \in Nat
         /\ balance'[a] = balance[a] - price
         /\ \A b \in Accounts \ {a} : balance'[b] = balance[b]
<1>1. TypeOK /\ IInv' /\ balance[a] \in Nat /\ coefficient[a] \in 0 .. FullCoefficient
  BY RecoverKeeps DEF LedgerInv, TypeOK
<1>2. price \in Nat
  BY <1>1, FineIsCovered
<1>3. /\ balance' \in [Accounts -> Nat] /\ balance'[a] = balance[a] - price
      /\ \A b \in Accounts \ {a} : balance'[b] = balance[b]
  BY <1>1, <1>2 DEF TypeOK
<1>4. /\ zeroAddress' \in Nat /\ pledged' \in [Accounts -> Nat] /\ proxyOf' \in [Accounts -> Proxies]
      /\ since' \in [Accounts -> [Accounts -> Nat]]
      /\ \A w \in DOMAIN validators' : validators'[w] \in Entry
  BY <1>1, <1>2 DEF TypeOK
<1>5. failed' \in BOOLEAN /\ UNCHANGED chain
  BY Zenon
<1>6. TypeOK'
  BY <1>1, <1>3, <1>4, <1>5, TypeKept, Zenon
<1>7. PledgesAddUp' /\ ListMatchesPledges'
  BY DEF LedgerInv, PledgesAddUp, ListMatchesPledges
<1>. QED BY <1>1, <1>2, <1>3, <1>6, <1>7

LEMMA RecoverLedger ==
  ASSUME SumLaws, LedgerInv, NEW a \in Accounts, RecoverValidatorCoefficient(a)
  PROVE  LedgerInv'
<1> DEFINE price == punishment(coefficient[a])
<1>1. CASE refuse
  BY <1>1, RefusedLedger
<1>2. CASE /\ balance[a] >= price /\ count
           /\ balance' = [balance EXCEPT ![a] = balance[a] - price]
           /\ zeroAddress' = zeroAddress + price
           /\ failed' = FALSE
           /\ UNCHANGED <<pledged, stakerExt, since, validatorExt, proxyOf, validators, chain>>
  <2>1. /\ IInv' /\ TypeOK' /\ PledgesAddUp' /\ ListMatchesPledges' /\ price \in Nat
        /\ balance'[a] = balance[a] - price
        /\ \A b \in Accounts \ {a} : balance'[b] = balance[b]
    BY <1>2, RecoverEffect, Zenon
  <2> HIDE DEF price
  <2>2. TokensConserved'
    <3>1. balance \in [Accounts -> Nat] /\ zeroAddress \in Nat /\ pledged \in [Accounts -> Nat]
      BY DEF LedgerInv, TypeOK
    <3>2. balance' \in [Accounts -> Nat]
      BY <2>1 DEF TypeOK
    <3>3. (- price) \in Int /\ 0 \in Int /\ balance'[a] = balance[a] + (- price)
      BY <2>1, <3>1
    <3>4. SumFunction(balance') = SumFunction(balance) + (- price)
      BY <2>1, <3>1, <3>2, <3>3, TotalGrows
    <3>5. /\ zeroAddress' = zeroAddress + price /\ minted' = minted
          /\ SumFunction(pledged') = SumFunction(pledged)
      BY <1>2 DEF chain
    <3>6. SumFunction(pledged') = SumFunction(pledged) + 0
      BY <3>1, <3>5, TotalType
    <3>7. zeroAddress' = zeroAddress - ((- price) + 0)
      BY <2>1, <3>1, <3>5
    <3>. QED BY <3>3, <3>4, <3>5, <3>6, <3>7, ConservedKept
  <2>. QED BY <2>1, <2>2 DEF LedgerInv
<1>. QED BY <1>1, <1>2, Zenon DEF RecoverValidatorCoefficient

\* The list after RemoveValidator: to is out, or in it with what is left.
LEMMA RemoveEffect ==
  ASSUME NEW vl, NEW to, NEW sent \in Nat, NEW w \in DOMAIN RemoveValidator(vl, to, sent),
         to \in DOMAIN vl => vl[to].balance \in Nat
  PROVE  \/ w # to /\ w \in DOMAIN vl /\ RemoveValidator(vl, to, sent)[w] = vl[w]
         \/ /\ w = to /\ to \in DOMAIN vl /\ vl[to].balance - sent >= ValidatorBase
            /\ RemoveValidator(vl, to, sent)[to]
                 = [balance |-> vl[to].balance - sent, proxy |-> vl[to].proxy]
<1>1. CASE to \notin DOMAIN vl
  BY <1>1 DEF RemoveValidator
<1>2. CASE to \in DOMAIN vl /\ vl[to].balance - sent < ValidatorBase
  BY <1>2 DEF RemoveValidator, without, Restrict
<1>3. CASE to \in DOMAIN vl /\ ~(vl[to].balance - sent < ValidatorBase)
  <2>1. vl[to].balance - sent >= ValidatorBase
    <3>1. vl[to].balance \in Nat /\ ValidatorBase \in Nat
      BY <1>3, StakingAssumption
    <3>. QED BY <1>3, <3>1
  <2>2. RemoveValidator(vl, to, sent)
          = SetValidatorAmount(vl, to, vl[to].balance - sent, vl[to].proxy)
    BY <1>3 DEF RemoveValidator
  <2>. QED BY <1>3, <2>1, <2>2 DEF SetValidatorAmount
<1>. QED BY <1>1, <1>2, <1>3, Zenon

\* What a call of type 4 gives back, and what of it is kept as a fine.
refunds(from, to, value) ==
  [a \in Accounts |-> IF a = from THEN value
                      ELSE IF from = to /\ stakerExt[from][to] = value THEN validatorExt[to][a]
                      ELSE 0]

fineOn(from, to) == IF from = to THEN punishment(coefficient[to]) ELSE 0

\* What comes back to the stakers is in the entries of the validator.
LEMMA RefundsFit ==
  ASSUME TypeOK, IInv, NEW from \in Accounts, NEW to \in Accounts, NEW value \in Nat,
         mayCancel(from, to, value)
  PROVE  /\ refunds(from, to, value) \in [Accounts -> Nat]
         /\ fineOn(from, to) \in Nat /\ fineOn(from, to) <= refunds(from, to, value)[from]
         /\ \A a \in Accounts : refunds(from, to, value)[a] <= validatorExt[to][a]
<1>1. value <= validatorExt[to][from]
  <2>1. stakerExt[from][to] \in Nat /\ stakerExt[from][to] = validatorExt[to][from]
    BY DEF IInv, EntriesMatch
  <2>2. stakerExt[from][to] = value \/ stakerExt[from][to] - value >= StakerBase
    BY DEF mayCancel
  <2>. QED BY <2>1, <2>2, StakingAssumption
<1>2. fineOn(from, to) \in Nat /\ fineOn(from, to) <= value
  <2>1. punishment(coefficient[to]) \in Nat
    BY FineIsCovered DEF TypeOK
  <2>2. from = to => value >= punishment(coefficient[to])
    BY DEF mayCancel
  <2>. QED BY <2>1, <2>2 DEF fineOn
<1>3. \A a \in Accounts : validatorExt[to][a] \in Nat
  BY DEF TypeOK
<1>4. ASSUME NEW a \in Accounts
      PROVE  /\ refunds(from, to, value)[a] \in Nat
             /\ refunds(from, to, value)[a] <= validatorExt[to][a]
  <2>1. CASE a = from
    BY <1>1, <2>1 DEF refunds
  <2>2. CASE a # from /\ from = to /\ stakerExt[from][to] = value
    BY <1>3, <2>2 DEF refunds
  <2>3. CASE a # from /\ ~(from = to /\ stakerExt[from][to] = value)
    BY <1>3, <2>3 DEF refunds
  <2>. QED BY <2>1, <2>2, <2>3
<1>5. refunds(from, to, value) \in [Accounts -> Nat] /\ refunds(from, to, value)[from] = value
  BY <1>4 DEF refunds
<1>. QED BY <1>2, <1>4, <1>5

\* The balances after a call of type 4.
LEMMA RefundsPaid ==
  ASSUME SumLaws, TypeOK, NEW from \in Accounts, NEW back \in [Accounts -> Nat], NEW fine \in Nat,
         fine <= back[from],
         balance' = [a \in Accounts |-> balance[a] + back[a] - (IF a = from THEN fine ELSE 0)]
  PROVE  /\ balance' \in [Accounts -> Nat]
         /\ SumFunction(balance') = SumFunction(balance) + (SumFunction(back) - fine)
<1> DEFINE b == balance'
           plus == [a \in Accounts |-> balance[a] + back[a]]
<1>1. balance \in [Accounts -> Nat]
  BY DEF TypeOK
<1>2. plus \in [Accounts -> Nat] /\ \A a \in Accounts : plus[a] = balance[a] + back[a]
  BY <1>1
<1>3. (- fine) \in Int /\ b[from] = plus[from] + (- fine) /\ b[from] \in Nat
  <2>1. b[from] = balance[from] + back[from] - fine /\ plus[from] = balance[from] + back[from]
    OBVIOUS
  <2>2. balance[from] \in Nat /\ back[from] \in Nat
    BY <1>1
  <2>. QED BY <2>1, <2>2
<1>4. \A a \in Accounts \ {from} : b[a] = plus[a] /\ b[a] \in Nat
  <2> SUFFICES ASSUME NEW a \in Accounts \ {from} PROVE b[a] = plus[a] /\ b[a] \in Nat
    OBVIOUS
  <2>1. b[a] = balance[a] + back[a] - 0 /\ plus[a] = balance[a] + back[a]
    OBVIOUS
  <2>2. balance[a] \in Nat /\ back[a] \in Nat
    BY <1>1
  <2>. QED BY <2>1, <2>2
<1>5. b \in [Accounts -> Nat]
  BY <1>3, <1>4
<1> HIDE DEF b, plus
<1>6. SumFunction(b) = SumFunction(plus) + (- fine)
  BY <1>2, <1>3, <1>4, <1>5, TotalGrows
<1>7. SumFunction(plus) = SumFunction(balance) + SumFunction(back)
  BY <1>1, <1>2, TotalPlus, Zenon
<1>8. SumFunction(balance) \in Nat /\ SumFunction(back) \in Nat
  BY <1>1, TotalType
<1>9. SumFunction(b) = SumFunction(balance) + (SumFunction(back) - fine)
  BY <1>6, <1>7, <1>8
<1>. QED BY <1>5, <1>9 DEF b

\* The entries after a call of type 4.
LEMMA RefundsTaken ==
  ASSUME SumLaws, NEW f \in [Accounts -> Nat], NEW g \in [Accounts -> Nat], NEW back \in [Accounts -> Nat],
         \A a \in Accounts : back[a] <= f[a] /\ g[a] = lessBy(f[a], back[a])
  PROVE  SumFunction(f) = SumFunction(g) + SumFunction(back)
<1>1. ASSUME NEW a \in Accounts PROVE f[a] = g[a] + back[a]
  <2>1. f[a] \in Nat /\ back[a] \in Nat /\ back[a] <= f[a] /\ g[a] = lessBy(f[a], back[a])
    OBVIOUS
  <2>. QED BY <2>1 DEF lessBy
<1>. QED BY <1>1, TotalPlus

\* The list after a call of type 4.
LEMMA RefundsListed ==
  ASSUME LedgerInv, NEW to \in Accounts, NEW sent \in Nat,
         pledged'[to] \in Nat, pledged'[to] = pledged[to] - sent,
         \A w \in Accounts \ {to} : pledged'[w] = pledged[w],
         validators' = RemoveValidator(validators, to, sent)
  PROVE  ListMatchesPledges' /\ \A w \in DOMAIN validators' : validators'[w] \in Entry
<1>1. to \in DOMAIN validators => /\ validators[to].balance = pledged[to]
                                  /\ validators[to].balance \in Nat
                                  /\ validators[to].proxy \in Proxies
  <2>1. \A w \in DOMAIN validators : validators[w].balance = pledged[w] /\ validators[w] \in Entry
    BY DEF LedgerInv, ListMatchesPledges, TypeOK
  <2>. QED BY <2>1 DEF Entry
<1>2. PICK p \in Proxies : to \in DOMAIN validators => p = validators[to].proxy
  <2>1. NoProxy \in Proxies
    BY StakingAssumption
  <2>. QED BY <1>1, <2>1
<1>3. ASSUME NEW w \in DOMAIN validators'
      PROVE  \/ w # to /\ w \in DOMAIN validators /\ validators'[w] = validators[w]
             \/ /\ w = to /\ pledged'[to] >= ValidatorBase
                /\ validators'[to] = [balance |-> pledged'[to], proxy |-> p]
  <2>1. /\ w \in DOMAIN RemoveValidator(validators, to, sent)
        /\ to \in DOMAIN validators => validators[to].balance \in Nat
    BY <1>1, Zenon
  <2> DEFINE rest == RemoveValidator(validators, to, sent)
  <2>2. \/ w # to /\ w \in DOMAIN validators /\ rest[w] = validators[w]
        \/ /\ w = to /\ to \in DOMAIN validators
           /\ validators[to].balance - sent >= ValidatorBase
           /\ rest[to] = [balance |-> validators[to].balance - sent,
                          proxy |-> validators[to].proxy]
    BY <2>1, RemoveEffect
  <2>3. to \in DOMAIN validators => validators[to].balance - sent = pledged'[to]
    BY <1>1
  <2>. QED BY <1>2, <2>2, <2>3
<1>. QED BY <1>3, ListKept

\* Type 4: balances, pledges, entries and list go down together.
paysBack(from, to, back, fine, sent) ==
  /\ balance' = [a \in Accounts |-> balance[a] + back[a] - (IF a = from THEN fine ELSE 0)]
  /\ zeroAddress' = zeroAddress + fine
  /\ since' \in [Accounts -> [Accounts -> Nat]]
  /\ \A a \in Accounts : validatorExt'[to][a] = lessBy(validatorExt[to][a], back[a])
  /\ \A w \in Accounts \ {to} : pledged'[w] = pledged[w] /\ validatorExt'[w] = validatorExt[w]
  /\ pledged' = [pledged EXCEPT ![to] = pledged[to] - sent]
  /\ pledged'[to] = pledged[to] - sent
  /\ validators' = RemoveValidator(validators, to, sent)

LEMMA CancelEffect ==
  ASSUME TypeOK, NEW from \in Accounts, NEW to \in Accounts, NEW value,
         NewCancelStakerPledge(from, to, value)
  PROVE  paysBack(from, to, refunds(from, to, value), fineOn(from, to),
                  SumFunction(refunds(from, to, value)))
<1> DEFINE back == refunds(from, to, value)
           fine == fineOn(from, to)
           sent == SumFunction(back)
<1>1. /\ balance' = [a \in Accounts |-> balance[a] + back[a] - (IF a = from THEN fine ELSE 0)]
      /\ zeroAddress' = zeroAddress + fine
      /\ validators' = RemoveValidator(validators, to, sent)
  BY Zenon DEF NewCancelStakerPledge, refunds, fineOn
<1>2. since' \in [Accounts -> [Accounts -> Nat]]
  <2>1. since' = [a \in Accounts |->
                   [since[a] EXCEPT ![to] = IF stakerExt'[a][to] = 0 THEN 0 ELSE since[a][to]]]
    BY Zenon DEF NewCancelStakerPledge
  <2>2. since \in [Accounts -> [Accounts -> Nat]]
    BY DEF TypeOK
  <2>. QED BY <2>1, <2>2
<1>3. /\ \A a \in Accounts : validatorExt'[to][a] = lessBy(validatorExt[to][a], back[a])
      /\ \A w \in Accounts \ {to} : validatorExt'[w] = validatorExt[w]
  <2>1. validatorExt' = [validatorExt EXCEPT ![to] =
                           [a \in Accounts |-> lessBy(validatorExt[to][a], back[a])]]
    BY Zenon DEF NewCancelStakerPledge, refunds
  <2>2. DOMAIN validatorExt = Accounts
    BY DEF TypeOK
  <2>. QED BY <2>1, <2>2
<1>4. /\ pledged' = [pledged EXCEPT ![to] = pledged[to] - sent]
      /\ pledged'[to] = pledged[to] - sent
      /\ \A w \in Accounts \ {to} : pledged'[w] = pledged[w]
  <2>1. pledged' = [pledged EXCEPT ![to] = pledged[to] - sent]
    BY Zenon DEF NewCancelStakerPledge, refunds
  <2>2. DOMAIN pledged = Accounts
    BY DEF TypeOK
  <2>. QED BY <2>1, <2>2
<1>. QED BY <1>1, <1>2, <1>3, <1>4, Zenon DEF paysBack

LEMMA CancelLedger ==
  ASSUME SumLaws, LedgerInv, NEW from \in Accounts, NEW to \in Accounts, NEW value \in Amounts,
         Cancel(from, to, value)
  PROVE  LedgerInv'
<1>1. CASE refuse
  BY <1>1, RefusedLedger
<1>2. CASE /\ mayCancel(from, to, value) /\ count
           /\ NewCancelStakerPledge(from, to, value)
           /\ failed' = FALSE
           /\ UNCHANGED <<proxyOf, chain>>
  <2> DEFINE back == refunds(from, to, value)
             fine == fineOn(from, to)
             sent == SumFunction(back)
  <2>1. /\ TypeOK /\ IInv /\ IInv' /\ value \in Nat
        /\ pledged[to] = SumFunction(validatorExt[to])
    BY CancelKeeps, StakingAssumption DEF LedgerInv, PledgesAddUp
  <2>2. /\ pledged \in [Accounts -> Nat] /\ pledged[to] \in Nat /\ zeroAddress \in Nat
        /\ validatorExt[to] \in [Accounts -> Nat]
    BY <2>1 DEF TypeOK
  <2>3. /\ back \in [Accounts -> Nat] /\ fine \in Nat /\ fine <= back[from]
        /\ \A a \in Accounts : back[a] <= validatorExt[to][a]
    BY <1>2, <2>1, RefundsFit
  <2>4. paysBack(from, to, back, fine, sent)
    BY <1>2, <2>1, CancelEffect
  <2> HIDE DEF back, fine
  <2>5. /\ balance' = [a \in Accounts |-> balance[a] + back[a] - (IF a = from THEN fine ELSE 0)]
        /\ since' \in [Accounts -> [Accounts -> Nat]]
    BY <2>4, Zenon DEF paysBack
  <2>6. zeroAddress' = zeroAddress + fine /\ pledged'[to] = pledged[to] - sent
    BY <2>4, Zenon DEF paysBack
  <2>7. \A a \in Accounts : validatorExt'[to][a] = lessBy(validatorExt[to][a], back[a])
    BY <2>4, Zenon DEF paysBack
  <2>8. \A w \in Accounts \ {to} : pledged'[w] = pledged[w] /\ validatorExt'[w] = validatorExt[w]
    BY <2>4, Zenon DEF paysBack
  <2>9. sent \in Nat
    BY <2>3, TotalType
  <2>10. balance' \in [Accounts -> Nat] /\ SumFunction(balance') = SumFunction(balance) + (sent - fine)
    BY <2>1, <2>3, <2>5, RefundsPaid, Zenon
  <2>11. /\ SumFunction(validatorExt'[to]) \in Nat
         /\ SumFunction(validatorExt[to]) = SumFunction(validatorExt'[to]) + sent
    <3>1. validatorExt'[to] \in [Accounts -> Nat]
      BY <2>1 DEF IInv, EntriesMatch
    <3>2. SumFunction(validatorExt'[to]) \in Nat
      BY <3>1, TotalType
    <3>3. \A a \in Accounts : /\ back[a] <= validatorExt[to][a]
                             /\ validatorExt'[to][a] = lessBy(validatorExt[to][a], back[a])
      BY <2>3, <2>7, Zenon
    <3>4. validatorExt[to] \in [Accounts -> Nat] /\ back \in [Accounts -> Nat]
      BY <2>2, <2>3, Zenon
    <3>5. SumFunction(validatorExt[to]) = SumFunction(validatorExt'[to]) + SumFunction(back)
      BY <3>1, <3>3, <3>4, RefundsTaken, Zenon
    <3>. QED BY <3>2, <3>5, Zenon
  <2> HIDE DEF sent
  <2>12. pledged'[to] = SumFunction(validatorExt'[to]) /\ pledged'[to] \in Nat
    BY <2>1, <2>6, <2>9, <2>11
  <2>13. pledged' \in [Accounts -> Nat]
    <3>1. pledged' = [pledged EXCEPT ![to] = pledged[to] - sent]
      BY <2>4, Zenon DEF paysBack
    <3>. QED BY <2>2, <2>6, <2>12, <3>1
  <2>14. ListMatchesPledges' /\ \A w \in DOMAIN validators' : validators'[w] \in Entry
    <3>1. validators' = RemoveValidator(validators, to, sent)
      BY <2>4, Zenon DEF paysBack
    <3>. QED BY <2>6, <2>8, <2>9, <2>12, <3>1, RefundsListed
  <2>15. TypeOK'
    <3>1. proxyOf' \in [Accounts -> Proxies]
      BY <1>2, <2>1 DEF TypeOK
    <3>2. zeroAddress' \in Nat
      <4>1. zeroAddress \in Nat /\ fine \in Nat /\ zeroAddress' = zeroAddress + fine
        BY <2>2, <2>3, <2>6, Zenon
      <4>. QED BY <4>1
    <3>3. failed' \in BOOLEAN /\ count /\ UNCHANGED chain
      BY <1>2, Zenon
    <3>. QED BY <2>1, <2>5, <2>10, <2>13, <2>14, <3>1, <3>2, <3>3, TypeKept, Zenon
  <2>16. PledgesAddUp'
    BY <2>8, <2>12, AddUpKept
  <2>17. TokensConserved'
    <3>1. (- sent) \in Int /\ sent - fine \in Int /\ pledged'[to] = pledged[to] + (- sent)
      BY <2>2, <2>3, <2>6, <2>9
    <3>2. SumFunction(pledged') = SumFunction(pledged) + (- sent)
      BY <2>2, <2>8, <2>13, <3>1, TotalGrows
    <3>3. zeroAddress' = zeroAddress - ((sent - fine) + (- sent))
      BY <2>2, <2>3, <2>6, <2>9
    <3>4. minted' = minted
      BY <1>2 DEF chain
    <3>. QED BY <2>10, <3>1, <3>2, <3>3, <3>4, ConservedKept
  <2>. QED BY <2>1, <2>14, <2>15, <2>16, <2>17 DEF LedgerInv
<1>. QED BY <1>1, <1>2, Zenon DEF Cancel

\* The end of a block: only balances and coefficients change.
LEMMA FinalizeEffect ==
  ASSUME LedgerInv, NEW slashed, NEW restored, NEW rewarded \in SUBSET signatories, NEW evil,
         FinalizeAndAssemble(slashed, restored, rewarded, evil),
         balance' \in [Accounts -> Nat], BlockReward * Cardinality(rewarded) \in Nat
  PROVE  IInv' /\ TypeOK' /\ PledgesAddUp' /\ ListMatchesPledges'
<1>1. TypeOK /\ IInv' /\ rewarded \in SUBSET Accounts
  BY FinalizeKeeps DEF LedgerInv, TypeOK
<1>2. /\ pledged' = pledged /\ stakerExt' = stakerExt /\ since' = since
      /\ validatorExt' = validatorExt /\ proxyOf' = proxyOf /\ validators' = validators
      /\ zeroAddress' = zeroAddress /\ block' = block + 1 /\ calls' = 0 /\ failed' = FALSE
      /\ minted' = minted + BlockReward * Cardinality(rewarded)
      /\ parent' = DOMAIN validators /\ signatories' = signatories \cup DOMAIN validators
  BY DEF FinalizeAndAssemble
<1>5. TypeOK'
  <2>1. coefficient' \in [Accounts -> 0 .. FullCoefficient] /\ DOMAIN validators' \subseteq Accounts
    BY <1>1 DEF IInv, CoefficientsInRange, ListOfAccounts
  <2>2. \A v \in DOMAIN validators' : validators'[v] \in Entry
    BY <1>1, <1>2 DEF TypeOK
  <2>3. zeroAddress' \in Nat /\ minted' \in Nat /\ block' \in Nat /\ calls' \in Nat
    BY <1>1, <1>2 DEF TypeOK
  <2>4. parent' \subseteq signatories' /\ signatories' \subseteq Accounts
    BY <1>1, <1>2 DEF TypeOK
  <2>5. failed' \in BOOLEAN
    BY <1>2, Zenon
  <2>6. /\ pledged' \in [Accounts -> Nat] /\ proxyOf' \in [Accounts -> Proxies]
        /\ stakerExt' \in [Accounts -> [Accounts -> Nat]]
        /\ validatorExt' \in [Accounts -> [Accounts -> Nat]]
        /\ since' \in [Accounts -> [Accounts -> Nat]]
    BY <1>1, <1>2 DEF TypeOK
  <2>. QED BY <2>1, <2>2, <2>3, <2>4, <2>5, <2>6 DEF TypeOK
<1>6. PledgesAddUp' /\ ListMatchesPledges'
  BY <1>2 DEF LedgerInv, PledgesAddUp, ListMatchesPledges
<1>. QED BY <1>1, <1>5, <1>6

-----------------------------------------------------------------------------
(* The sums themselves: the start, and the rewards at the end of a block.     *)
INSTANCE SumTheorems

LEMMA AccountsFinite == IsFiniteSet(Accounts)
BY StakingAssumption

LEMMA SumLawsHold == SumLaws
<1>1. ASSUME NEW f \in [Accounts -> Nat] PROVE SumFunction(f) \in Nat
  BY TotalNat, AccountsFinite
<1>2. ASSUME NEW f \in [Accounts -> Nat], NEW g \in [Accounts -> Nat], NEW x \in Accounts,
             NEW d \in Int, g[x] = f[x] + d, \A a \in Accounts \ {x} : g[a] = f[a]
      PROVE  SumFunction(g) = SumFunction(f) + d
  <2>1. SumFunction(g) = SumFunction(f) + g[x] - f[x]
    BY <1>2, TotalUpdate, AccountsFinite
  <2>2. SumFunction(f) \in Nat /\ f[x] \in Nat
    BY <1>1
  <2>. QED BY <1>2, <2>1, <2>2
<1>3. ASSUME NEW f \in [Accounts -> Nat], NEW g \in [Accounts -> Nat], NEW h \in [Accounts -> Nat],
             \A a \in Accounts : h[a] = f[a] + g[a]
      PROVE  SumFunction(h) = SumFunction(f) + SumFunction(g)
  BY <1>3, TotalAdds, AccountsFinite
<1>. QED BY <1>1, <1>2, <1>3 DEF SumLaws

LEMMA InitLedger == Init => LedgerInv
<1> SUFFICES ASSUME Init PROVE LedgerInv
  OBVIOUS
<1>1. \A v \in Accounts : /\ genesis(v) \in Nat /\ genesis(v) <= GenesisFunds[v]
                          /\ GenesisFunds[v] \in Nat
  BY StakingAssumption DEF genesis
<1>2. IInv
  BY InitHolds
<1>3. TypeOK
  <2>1. balance \in [Accounts -> Nat] /\ pledged \in [Accounts -> Nat]
    BY <1>1 DEF Init
  <2>2. since \in [Accounts -> [Accounts -> Nat]] /\ proxyOf \in [Accounts -> Proxies]
    BY Zenon DEF Init, genesisProxies
  <2>3. \A v \in DOMAIN validators : validators[v] \in Entry
    BY <2>2, StakingAssumption, Zenon DEF Init, Entry
  <2>4. /\ zeroAddress \in Nat /\ minted \in Nat /\ block \in Nat /\ calls \in Nat
        /\ failed \in BOOLEAN
        /\ parent \subseteq signatories /\ signatories \subseteq Accounts
    BY StakingAssumption, Zenon DEF Init
  <2>. QED BY <1>2, <2>1, <2>2, <2>3, <2>4, Zenon
           DEF TypeOK, IInv, EntriesMatch, CoefficientsInRange, ListOfAccounts
<1>4. PledgesAddUp
  <2> SUFFICES ASSUME NEW v \in Accounts PROVE pledged[v] = SumFunction(validatorExt[v])
    BY DEF PledgesAddUp
  <2>1. /\ validatorExt[v] = [a \in Accounts |-> IF v = a THEN genesis(a) ELSE 0]
        /\ pledged[v] = genesis(v)
    BY DEF Init
  <2>2. \A a \in Accounts : validatorExt[v][a] = IF a \in {v} THEN genesis(v) ELSE 0
    BY <2>1
  <2>3. SumFunctionOnSet(validatorExt[v], Accounts) = genesis(v) * Cardinality({v})
    <3>1. genesis(v) \in Int
      BY <1>1
    <3>. QED BY <2>2, <3>1, SumCounts, StakingAssumption
  <2>4. genesis(v) * Cardinality({v}) = genesis(v)
    <3>1. Cardinality({v}) = 1
      BY FS_Singleton, Zenon
    <3>. QED BY <1>1, <3>1
  <2>. QED BY <2>1, <2>3, <2>4 DEF SumFunction
<1>5. ListMatchesPledges
  BY StakingAssumption, Zenon DEF Init, ListMatchesPledges, genesis
<1>6. TokensConserved
  <2>1. /\ DOMAIN GenesisFunds = Accounts /\ balance \in [Accounts -> Nat]
        /\ pledged \in [Accounts -> Nat]
        /\ \A a \in Accounts : GenesisFunds[a] = balance[a] + pledged[a]
    <3>1. balance \in [Accounts -> Nat] /\ pledged \in [Accounts -> Nat]
      BY <1>3, Zenon DEF TypeOK
    <3>2. \A a \in Accounts : balance[a] = GenesisFunds[a] - genesis(a) /\ pledged[a] = genesis(a)
      BY DEF Init
    <3>3. \A a \in Accounts : GenesisFunds[a] = balance[a] + pledged[a]
      <4> SUFFICES ASSUME NEW a \in Accounts PROVE GenesisFunds[a] = balance[a] + pledged[a]
        OBVIOUS
      <4>1. balance[a] = GenesisFunds[a] - genesis(a) /\ pledged[a] = genesis(a)
        BY <3>2
      <4>2. GenesisFunds[a] \in Nat /\ genesis(a) \in Nat
        BY <1>1, Zenon
      <4>. QED BY <4>1, <4>2
    <3>4. DOMAIN GenesisFunds = Accounts
      BY StakingAssumption, Zenon
    <3>. QED BY <3>1, <3>3, <3>4
  <2>2. SumFunction(GenesisFunds) = SumFunction(balance) + SumFunction(pledged)
    BY <2>1, AccountsFinite, TotalAdds
  <2>3. SumFunction(balance) \in Nat /\ SumFunction(pledged) \in Nat
    BY <2>1, AccountsFinite, TotalNat
  <2>. QED BY <2>2, <2>3 DEF Init, TokensConserved
<1>. QED BY <1>2, <1>3, <1>4, <1>5, <1>6 DEF LedgerInv

\* What stakers share of a reward.
pool == (BlockReward * (100 - ValidatorPercent)) \div 100

LEMMA PoolFits == pool \in Nat /\ pool <= BlockReward
<1> DEFINE x == BlockReward * (100 - ValidatorPercent)
<1>1. BlockReward \in Nat /\ 100 - ValidatorPercent \in Nat /\ 100 - ValidatorPercent <= 100
  BY StakingAssumption
<1>2. x \in Nat /\ x <= BlockReward * 100
  BY <1>1, SMT
<1>3. pool = x \div 100
  BY DEF pool
<1> HIDE DEF x
<1>4. pool \in Nat /\ 100 * pool <= x
  BY <1>2, <1>3, RoundedDown
<1>. QED BY <1>1, <1>2, <1>4

\* What a validator pays to its stakers, each share rounded down, is no more
\* than its reward.
LEMMA SharesFit ==
  ASSUME TypeOK, NEW v \in Accounts
  PROVE  LET shares == [s \in Accounts |-> stakerReward(v, s)]
         IN  /\ shares \in [Accounts -> Nat]
             /\ SumFunction(shares) \in Nat /\ SumFunction(shares) <= BlockReward
<1> DEFINE shares == [s \in Accounts |-> stakerReward(v, s)]
           ext == validatorExt[v]
<1>1. ext \in [Accounts -> Nat]
  BY DEF TypeOK
<1>2. /\ DOMAIN shares = Accounts /\ shares = [s \in Accounts |-> shares[s]]
      /\ \A s \in Accounts : shares[s] = IF s = v \/ ext[s] = 0 THEN 0
                                         ELSE (pool * ext[s]) \div (SumFunction(ext) - ext[v])
  BY DEF stakerReward, pool
<1> HIDE DEF shares, ext
<1>3. /\ shares \in [Accounts -> Nat]
      /\ SumFunction(shares) \in Nat /\ SumFunction(shares) <= pool
  <2>1. IsShares(Accounts, ext, v, pool, shares)
    BY <1>1, <1>2, PoolFits DEF IsShares
  <2>. QED BY <2>1, AccountsFinite, SharesFitIn
<1>4. SumFunction(shares) <= BlockReward
  BY <1>3, PoolFits, StakingAssumption
<1>. QED BY <1>3, <1>4 DEF shares

\* The rewards of a block: the validators get them, and share them with their
\* stakers to the last token.
LEMMA RewardsAddUp ==
  ASSUME TypeOK, NEW rewarded \in SUBSET Accounts, DistributeRewardsToStakers(rewarded)
  PROVE  /\ balance' \in [Accounts -> Nat]
         /\ SumFunction(balance') = SumFunction(balance) + BlockReward * Cardinality(rewarded)
<1> DEFINE w == [v \in rewarded |-> [s \in Accounts |-> stakerReward(v, s)]]
           m == [a \in Accounts |-> [v \in rewarded |-> stakerReward(v, a)]]
           given == [a \in Accounts |-> SumFunctionOnSet(m[a], rewarded)]
           kept == [a \in Accounts |-> IF a \in rewarded THEN BlockReward - SumFunction(w[a]) ELSE 0]
           got == [a \in Accounts |-> given[a] + kept[a]]
<1>1. balance \in [Accounts -> Nat] /\ DOMAIN balance' = Accounts
  BY DEF TypeOK, DistributeRewardsToStakers
<1>2. \A a \in Accounts : balance'[a] = balance[a] + given[a] + kept[a]
  BY DEF DistributeRewardsToStakers, SumFunction
<1>3. \A v \in rewarded : w[v] \in [Accounts -> Nat] /\ SumFunction(w[v]) <= BlockReward
  BY SharesFit
<1>4. \A a \in Accounts, v \in rewarded : m[a][v] = w[v][a]
  OBVIOUS
<1> HIDE DEF w, m
<1>5. /\ given = [a \in Accounts |-> SumFunctionOnSet(m[a], rewarded)]
      /\ kept = [a \in Accounts |-> IF a \in rewarded THEN BlockReward - SumFunction(w[a]) ELSE 0]
  OBVIOUS
<1>6. \A a \in Accounts : got[a] = given[a] + kept[a]
  OBVIOUS
<1>7. got = [a \in Accounts |-> got[a]]
  OBVIOUS
<1> HIDE DEF given, kept, got
<1>8. BlockReward \in Nat
  BY StakingAssumption
<1>9. /\ given \in [Accounts -> Nat] /\ kept \in [Accounts -> Nat]
      /\ SumFunction(given) + SumFunction(kept) = BlockReward * Cardinality(rewarded)
  <2>1. IsShareOut(Accounts, rewarded, BlockReward, w, m, given, kept)
    BY <1>3, <1>4, <1>5, <1>8 DEF IsShareOut
  <2>. QED BY <2>1, AccountsFinite, ShareOut
<1>10. got \in [Accounts -> Nat] /\ DOMAIN got = Accounts
  BY <1>6, <1>7, <1>9
<1>11. \A a \in Accounts : balance'[a] = balance[a] + got[a] /\ balance'[a] \in Nat
  BY <1>1, <1>2, <1>6, <1>9
<1>12. balance' \in [Accounts -> Nat]
  BY <1>11 DEF DistributeRewardsToStakers
<1>13. SumFunction(got) = SumFunction(given) + SumFunction(kept)
  BY <1>6, <1>9, <1>10, AccountsFinite, TotalAdds
<1>14. SumFunction(balance') = SumFunction(balance) + SumFunction(got)
  BY <1>1, <1>10, <1>11, AccountsFinite, TotalAdds
<1>. QED BY <1>9, <1>12, <1>13, <1>14

LEMMA FinalizeLedger ==
  ASSUME LedgerInv, NEW slashed, NEW restored, NEW rewarded \in SUBSET signatories, NEW evil,
         FinalizeAndAssemble(slashed, restored, rewarded, evil)
  PROVE  LedgerInv'
<1> DEFINE paid == BlockReward * Cardinality(rewarded)
<1>1. TypeOK /\ rewarded \in SUBSET Accounts
  BY DEF LedgerInv, TypeOK
<1>2. balance' \in [Accounts -> Nat] /\ SumFunction(balance') = SumFunction(balance) + paid
  BY <1>1, RewardsAddUp DEF FinalizeAndAssemble
<1>3. paid \in Nat
  <2>1. Cardinality(rewarded) \in Nat /\ BlockReward \in Nat
    BY <1>1, FS_Subset, FS_CardinalityType, StakingAssumption
  <2>. QED BY <2>1, SMTT(30)
<1>4. IInv' /\ TypeOK' /\ PledgesAddUp' /\ ListMatchesPledges'
  BY <1>2, <1>3, FinalizeEffect
<1>5. TokensConserved'
  <2>1. pledged' = pledged /\ zeroAddress' = zeroAddress /\ minted' = minted + paid
    BY DEF FinalizeAndAssemble
  <2> HIDE DEF paid
  <2>2. /\ SumFunction(balance) \in Nat /\ SumFunction(pledged) \in Nat /\ zeroAddress \in Nat
        /\ minted \in Nat
    BY <1>1, AccountsFinite, TotalNat DEF TypeOK
  <2>3. SumFunction(balance) + SumFunction(pledged) + zeroAddress = SumFunction(GenesisFunds) + minted
    BY DEF LedgerInv, TokensConserved
  <2>4. SumFunction(GenesisFunds) \in Nat
    <3>1. DOMAIN GenesisFunds = Accounts /\ \A a \in Accounts : GenesisFunds[a] \in Nat
      BY StakingAssumption
    <3>2. SumFunctionOnSet(GenesisFunds, Accounts) \in Nat
      BY <3>1, AccountsFinite, SumNat
    <3>. QED BY <3>1, <3>2, TotalIsSum, Zenon
  <2>5. SumFunction(balance') + SumFunction(pledged) + zeroAddress = SumFunction(GenesisFunds) + (minted + paid)
    BY <1>2, <1>3, <2>2, <2>3, <2>4
  <2>. QED BY <2>1, <2>5 DEF TokensConserved
<1>. QED BY <1>4, <1>5 DEF LedgerInv

LEMMA NextLedger == LedgerInv /\ [Next]_vars => LedgerInv'
<1> SUFFICES ASSUME LedgerInv, [Next]_vars PROVE LedgerInv'
  BY Zenon
<1>1. CASE UNCHANGED vars
  BY <1>1, UnchangedLedger, Zenon DEF vars, LedgerInv, TypeOK
<1>2. ASSUME NEW from \in Accounts, NEW to \in Accounts, NEW value \in Amounts,
             (\E proxy \in Proxies : Pledge(from, to, value, proxy)) \/ Cancel(from, to, value)
      PROVE  LedgerInv'
  BY <1>2, PledgeLedger, CancelLedger, SumLawsHold
<1>3. ASSUME NEW a \in Accounts, RecoverValidatorCoefficient(a) PROVE LedgerInv'
  BY <1>3, RecoverLedger, SumLawsHold
<1>4. ASSUME NEW rewarded \in SUBSET signatories, NEW evil,
             normalBlock(rewarded, evil) \/ \E elected, voters \in SUBSET parent :
                                              emptyBlock(elected, voters, rewarded, evil)
      PROVE  LedgerInv'
  BY <1>4, FinalizeLedger DEF normalBlock, emptyBlock
<1>. QED BY <1>1, <1>2, <1>3, <1>4 DEF Next

LEMMA LedgerHolds == Spec => []LedgerInv
BY InitLedger, NextLedger, PTL DEF Spec

\* In every reachable state no balance, pledge or pledged balance is negative
\* and no coefficient is out of range, although SubBalance and
\* SubPledgedBalance have no check of their own.
THEOREM NothingNegative == Spec => []TypeOK
<1>1. LedgerInv => TypeOK
  BY DEF LedgerInv
<1>. QED BY <1>1, LedgerHolds, PTL

\* In every reachable state the accounts hold, have pledged and have paid what
\* genesis and the block rewards have put there: StakerPledge,
\* NewCancelStakerPledge, RevocateAllStakers and DistributeRewardsToStakers, with
\* shares rounded down, neither make nor lose a token.
THEOREM TokensStay == Spec => []TokensConserved
<1>1. LedgerInv => TokensConserved
  BY DEF LedgerInv
<1>. QED BY <1>1, LedgerHolds, PTL

\* In every reachable state the staker's record, the validator's record and the
\* pledged balance of an account tell the same pledges.
THEOREM RecordsStayInStep == Spec => []RecordsAgree
BY LedgerAgrees, LedgerHolds, PTL

\* In every reachable state the fourth record, the validator list, holds what is
\* pledged to its members, and never less than ValidatorBase.
THEOREM ListStaysInStep == Spec => []ListMatchesPledges
<1>1. LedgerInv => ListMatchesPledges
  BY DEF LedgerInv
<1>. QED BY <1>1, LedgerHolds, PTL

=============================================================================
