---------------------------- MODULE StakingProofs ----------------------------
(***************************************************************************)
(* Proofs about Staking.  What a delegation may redelegate never exceeds   *)
(* it.  Every message changes a delegation or two by Insert, so that the   *)
(* sums over all validators change by as much as those delegations.        *)
(***************************************************************************)
EXTENDS Staking, Sums, TLAPS

IInv == delegations \in Delegations /\ CanRedelegateBounded

LEMMA InitIInv == StakingInit => IInv
BY DEF StakingInit, IInv, None, Delegations, Delegation, CanRedelegateBounded

(* A delegation that redelegates no more than it holds.                    *)
Sound(e) == e \in Delegation /\ e.can_redelegate <= e.amount

LEMMA EntrySound ==
    ASSUME NEW n \in Nat, NEW u \in Nat, NEW c \in Nat, NEW r \in Nat, c <= n
    PROVE  Sound(Entry(n, u, c, r))
BY DEF Sound, Entry, Delegation

LEMMA IsSound ==
    ASSUME NEW all \in Delegations,
           \A d \in Delegator, v \in Validator : all[d][v].can_redelegate
                                               <= all[d][v].amount,
           NEW d \in Delegator, NEW v \in Validator
    PROVE  Sound(all[d][v])
BY DEF Delegations, Sound

(* Inserting a sound delegation among sound ones.                          *)
LEMMA InsertSound ==
    ASSUME NEW all \in Delegations,
           \A d \in Delegator, v \in Validator : all[d][v].can_redelegate
                                               <= all[d][v].amount,
           NEW d1 \in Delegator, NEW v1 \in Validator, NEW e, Sound(e)
    PROVE  /\ Insert(all, d1, v1, e) \in Delegations
           /\ \A d \in Delegator, v \in Validator :
                Insert(all, d1, v1, e)[d][v].can_redelegate
                  <= Insert(all, d1, v1, e)[d][v].amount
<1>1. e \in Delegation /\ e.can_redelegate <= e.amount
  BY DEF Sound
<1>2. Insert(all, d1, v1, e) \in Delegations
  BY <1>1 DEF Insert, Delegations
<1>3. ASSUME NEW d \in Delegator, NEW v \in Validator
      PROVE  Insert(all, d1, v1, e)[d][v]
               = IF d = d1 /\ v = v1 THEN e ELSE all[d][v]
  BY DEF Insert, Delegations
<1> QED BY <1>1, <1>2, <1>3

(* The fields of a sound delegation.                                       *)
LEMMA Fields ==
    ASSUME NEW e, Sound(e)
    PROVE  /\ e.amount \in Nat /\ e.unbonding_amount \in Nat
           /\ e.can_redelegate \in Nat /\ e.accumulated_rewards \in Nat
           /\ e.can_redelegate <= e.amount
BY DEF Sound, Delegation

LEMMA OneDelegation ==
    ASSUME IInv, NEW d \in Delegator, NEW v \in Validator,
           NEW e, Sound(e), delegations' = Insert(delegations, d, v, e)
    PROVE  IInv'
<1>1. /\ delegations \in Delegations
      /\ \A d1 \in Delegator, v1 \in Validator :
           delegations[d1][v1].can_redelegate <= delegations[d1][v1].amount
  BY DEF IInv, CanRedelegateBounded
<1> QED BY <1>1, InsertSound DEF IInv, CanRedelegateBounded

LEMMA OldFields ==
    ASSUME IInv, NEW d \in Delegator, NEW v \in Validator
    PROVE  LET old == delegations[d][v]
           IN  /\ old.amount \in Nat /\ old.unbonding_amount \in Nat
               /\ old.can_redelegate \in Nat
               /\ old.accumulated_rewards \in Nat
               /\ old.can_redelegate <= old.amount
BY IsSound, Fields DEF IInv, CanRedelegateBounded

LEMMA DelegateIInv ==
    ASSUME IInv, NEW d \in Delegator, NEW v \in Validator, NEW n \in Amount,
           Delegate(d, v, n)
    PROVE  IInv'
<1> DEFINE old == delegations[d][v]
           e == Entry(old.amount + n, old.unbonding_amount,
                      old.can_redelegate + n, old.accumulated_rewards)
<1>1. n \in Nat
  BY StakingAssumption
<1>2. Sound(e)
  BY <1>1, OldFields, EntrySound
<1>3. delegations' = Insert(delegations, d, v, e)
  BY DEF Delegate
<1> QED BY <1>2, <1>3, OneDelegation

LEMMA UndelegateIInv ==
    ASSUME IInv, NEW d \in Delegator, NEW v \in Validator, NEW n \in Amount,
           Undelegate(d, v, n)
    PROVE  IInv'
<1> DEFINE old == delegations[d][v]
           e == Entry(old.amount - n, old.unbonding_amount + n,
                      StillRedelegable(old, n), old.accumulated_rewards)
<1>1. n \in Nat /\ n <= old.amount
  BY StakingAssumption DEF Undelegate
<1>2. /\ StillRedelegable(old, n) \in Nat
      /\ StillRedelegable(old, n) <= old.amount - n
  BY <1>1, OldFields DEF StillRedelegable
<1>3. Sound(e)
  BY <1>1, <1>2, OldFields, EntrySound
<1>4. delegations' = Insert(delegations, d, v, e)
  BY DEF Undelegate
<1> QED BY <1>3, <1>4, OneDelegation

LEMMA RedelegateIInv ==
    ASSUME IInv, NEW d \in Delegator, NEW src \in Validator,
           NEW dst \in Validator, NEW n \in Amount,
           Redelegate(d, src, dst, n)
    PROVE  IInv'
<1> DEFINE old == delegations[d][src]
           e == Entry(old.amount - n, old.unbonding_amount,
                      old.can_redelegate - n, old.accumulated_rewards)
           left == Insert(delegations, d, src, e)
           to == left[d][dst]
           f == Entry(to.amount + n, to.unbonding_amount,
                      to.can_redelegate, to.accumulated_rewards)
<1>1. n \in Nat /\ n <= old.amount /\ n <= old.can_redelegate
  BY StakingAssumption DEF Redelegate
<1>2. Sound(e)
  <2>1. /\ old.amount - n \in Nat /\ old.can_redelegate - n \in Nat
        /\ old.can_redelegate - n <= old.amount - n
        /\ old.unbonding_amount \in Nat /\ old.accumulated_rewards \in Nat
    BY <1>1, OldFields
  <2> QED BY <2>1, EntrySound
<1>3. /\ left \in Delegations
      /\ \A d1 \in Delegator, v1 \in Validator :
           left[d1][v1].can_redelegate <= left[d1][v1].amount
  <2> HIDE DEF e
  <2> QED BY <1>2, InsertSound DEF IInv, CanRedelegateBounded
<1>4. delegations' = Insert(left, d, dst, f)
  BY DEF Redelegate, Moved
<1> HIDE DEF left
<1>5. Sound(to)
  BY <1>3, IsSound
<1>6. Sound(f)
  <2> HIDE DEF to
  <2>1. /\ to.amount \in Nat /\ to.unbonding_amount \in Nat
        /\ to.can_redelegate \in Nat /\ to.accumulated_rewards \in Nat
        /\ to.can_redelegate <= to.amount
    BY <1>5, Fields
  <2>2. to.amount + n \in Nat /\ to.can_redelegate <= to.amount + n
    BY <1>1, <2>1
  <2> QED BY <2>1, <2>2, EntrySound
<1> HIDE DEF f
<1>7. /\ delegations' \in Delegations
      /\ \A d1 \in Delegator, v1 \in Validator :
           delegations'[d1][v1].can_redelegate <= delegations'[d1][v1].amount
  BY <1>3, <1>4, <1>6, InsertSound
<1> QED BY <1>7 DEF IInv, CanRedelegateBounded

LEMMA WithdrawIInv ==
    ASSUME IInv, NEW d \in Delegator, NEW v \in Validator, Withdraw(d, v)
    PROVE  IInv'
<1> DEFINE old == delegations[d][v]
           e == Entry(old.amount, old.unbonding_amount, old.can_redelegate, 0)
<1>1. Sound(e)
  BY OldFields, EntrySound
<1>2. delegations' = Insert(delegations, d, v, e)
  BY DEF Withdraw
<1> QED BY <1>1, <1>2, OneDelegation

LEMMA AddRewardsIInv ==
    ASSUME IInv, NEW n \in Reward, AddRewards(n)
    PROVE  IInv'
<1>1. n \in Nat
  BY StakingAssumption
<1>2. ASSUME NEW d \in Delegator, NEW v \in Validator
      PROVE  Sound(delegations'[d][v])
  <2> DEFINE old == delegations[d][v]
  <2>1. delegations'[d][v] =
          IF old.exists
          THEN Entry(old.amount, old.unbonding_amount, old.can_redelegate,
                     old.accumulated_rewards + n)
          ELSE old
    BY DEF AddRewards
  <2>2. Sound(old)
    BY IsSound DEF IInv, CanRedelegateBounded
  <2>3. Sound(Entry(old.amount, old.unbonding_amount, old.can_redelegate,
                    old.accumulated_rewards + n))
    BY <1>1, OldFields, EntrySound
  <2> QED BY <2>1, <2>2, <2>3
<1>3. delegations' \in Delegations
  BY <1>2 DEF AddRewards, Delegations, Sound
<1> QED BY <1>2, <1>3 DEF IInv, CanRedelegateBounded, Sound

LEMMA FastForwardIInv == IInv /\ FastForwardDelegationWaits => IInv'
<1> SUFFICES ASSUME IInv, FastForwardDelegationWaits PROVE IInv'
  OBVIOUS
<1>1. ASSUME NEW d \in Delegator, NEW v \in Validator
      PROVE  Sound(delegations'[d][v])
  <2>1. delegations[d][v] \in Delegation
    BY DEF IInv, Delegations
  <2> QED BY <2>1 DEF FastForwardDelegationWaits, Delegation, Sound
<1>2. delegations' \in Delegations
  BY <1>1 DEF FastForwardDelegationWaits, Delegations, Sound
<1> QED BY <1>1, <1>2 DEF IInv, CanRedelegateBounded, Sound

LEMMA NextIInv == IInv /\ [StakingNext]_stakingVars => IInv'
<1> SUFFICES ASSUME IInv, [StakingNext]_stakingVars PROVE IInv'
  OBVIOUS
<1>1. CASE Begin \/ Succeed \/ Fail \/ UNCHANGED stakingVars
  BY <1>1 DEF Begin, Succeed, Fail, stakingVars, IInv, CanRedelegateBounded
<1>2. ASSUME NEW d \in Delegator, NEW v \in Validator, NEW n \in Amount,
             \/ Delegate(d, v, n)
             \/ Undelegate(d, v, n)
             \/ \E dst \in Validator : Redelegate(d, v, dst, n)
      PROVE  IInv'
  BY <1>2, DelegateIInv, UndelegateIInv, RedelegateIInv
<1>3. ASSUME NEW d \in Delegator, NEW v \in Validator, Withdraw(d, v)
      PROVE  IInv'
  BY <1>3, WithdrawIInv
<1>4. ASSUME NEW n \in Reward, AddRewards(n)
      PROVE  IInv'
  BY <1>4, AddRewardsIInv
<1>5. CASE FastForwardDelegationWaits
  BY <1>5, FastForwardIInv
<1> QED BY <1>1, <1>2, <1>3, <1>4, <1>5 DEF StakingNext

(* Whatever is delegated, undelegated, redelegated, forwarded or reverted, *)
(* what may be redelegated is covered by the delegation, so that the       *)
(* unsigned subtractions of undelegate and redelegate do not underflow.    *)
THEOREM RedelegationBounded == StakingSpec => []CanRedelegateBounded
<1>1. IInv => CanRedelegateBounded
  BY DEF IInv
<1> QED BY InitIInv, NextIInv, <1>1, PTL DEF StakingSpec
-----------------------------------------------------------------------------
(* A message locks what it redelegates.                                    *)

LockedStep(d, v) ==
    LET old == delegations[d][v]
        new == delegations'[d][v]
    IN  /\ Locked(d, v)' >= Locked(d, v) + old.unbonding_amount
                                         - new.unbonding_amount
        /\ new.can_redelegate > old.can_redelegate =>
             new.can_redelegate - old.can_redelegate = funds[d] - funds'[d]

FundsFit == /\ funds \in [Delegator -> Nat]
            /\ Open => \E b \in [Delegator -> Nat] : began = <<b>>

LEMMA NothingUnlocked ==
    ASSUME IInv, NEW d \in Delegator, NEW v \in Validator,
           delegations'[d][v] = delegations[d][v]
    PROVE  LockedStep(d, v)
BY OldFields DEF LockedStep, Locked

(* What Insert gives, delegation by delegation.                            *)
LEMMA InsertAt ==
    ASSUME NEW all \in Delegations, NEW d1 \in Delegator, NEW v1 \in Validator,
           NEW e, NEW d \in Delegator, NEW v \in Validator
    PROVE  Insert(all, d1, v1, e)[d][v]
             = IF d = d1 /\ v = v1 THEN e ELSE all[d][v]
BY DEF Insert, Delegations

LEMMA EntryFields ==
    ASSUME NEW n, NEW u, NEW c, NEW r
    PROVE  LET e == Entry(n, u, c, r)
           IN  /\ e.amount = n /\ e.unbonding_amount = u
               /\ e.can_redelegate = c /\ e.accumulated_rewards = r
BY DEF Entry

(* The delegations that Moved writes, the destination's once more when it  *)
(* is the source.                                                          *)
LEMMA MovedAt ==
    ASSUME IInv, NEW d \in Delegator, NEW src \in Validator,
           NEW dst \in Validator, NEW n \in Nat,
           NEW d1 \in Delegator, NEW v \in Validator
    PROVE  LET old == delegations[d][src]
               to == delegations[d][dst]
           IN  Moved(d, src, dst, n)[d1][v] =
                 IF d1 = d /\ v = dst /\ dst = src
                 THEN Entry(old.amount - n + n, old.unbonding_amount,
                            old.can_redelegate - n, old.accumulated_rewards)
                 ELSE IF d1 = d /\ v = dst
                 THEN Entry(to.amount + n, to.unbonding_amount,
                            to.can_redelegate, to.accumulated_rewards)
                 ELSE IF d1 = d /\ v = src
                 THEN Entry(old.amount - n, old.unbonding_amount,
                            old.can_redelegate - n, old.accumulated_rewards)
                 ELSE delegations[d1][v]
<1> DEFINE old == delegations[d][src]
           e == Entry(old.amount - n, old.unbonding_amount,
                      old.can_redelegate - n, old.accumulated_rewards)
           left == Insert(delegations, d, src, e)
           to == left[d][dst]
           f == Entry(to.amount + n, to.unbonding_amount,
                      to.can_redelegate, to.accumulated_rewards)
<1>1. Moved(d, src, dst, n) = Insert(left, d, dst, f)
  BY DEF Moved
<1>2. delegations \in [Delegator -> [Validator -> Delegation]]
  BY DEF IInv, Delegations
<1>3. \A d2 \in Delegator, v2 \in Validator :
        left[d2][v2] = IF d2 = d /\ v2 = src THEN e ELSE delegations[d2][v2]
  BY <1>2 DEF Insert
<1>4. \A g : Insert(left, d, dst, g)[d1][v]
                = IF d1 = d /\ v = dst THEN g ELSE left[d1][v]
  BY <1>2 DEF Insert
<1>5. /\ e.amount = old.amount - n
      /\ e.unbonding_amount = old.unbonding_amount
      /\ e.can_redelegate = old.can_redelegate - n
      /\ e.accumulated_rewards = old.accumulated_rewards
  BY EntryFields
<1> HIDE DEF left, e
<1>6. to = IF dst = src THEN e ELSE delegations[d][dst]
  BY <1>3
<1>7. Moved(d, src, dst, n)[d1][v]
        = IF d1 = d /\ v = dst THEN f ELSE left[d1][v]
  BY <1>1, <1>4
<1>8. CASE d1 = d /\ v = dst /\ dst = src
  BY <1>5, <1>6, <1>7, <1>8
<1>9. CASE d1 = d /\ v = dst /\ dst # src
  BY <1>6, <1>7, <1>9
<1>10. CASE ~(d1 = d /\ v = dst)
  BY <1>3, <1>7, <1>10 DEF e
<1> QED BY <1>8, <1>9, <1>10

LEMMA DelegateLocks ==
    ASSUME IInv, FundsFit, NEW d \in Delegator, NEW v \in Validator,
           NEW n \in Amount, Delegate(d, v, n),
           NEW d1 \in Delegator, NEW v1 \in Validator
    PROVE  LockedStep(d1, v1)
<1> DEFINE old == delegations[d][v]
           e == Entry(old.amount + n, old.unbonding_amount,
                      old.can_redelegate + n, old.accumulated_rewards)
<1>1. delegations'[d1][v1] = IF d1 = d /\ v1 = v THEN e ELSE delegations[d1][v1]
  BY InsertAt DEF Delegate, IInv
<1>2. CASE d1 = d /\ v1 = v
  <2>1. n \in Nat /\ funds[d] \in Nat /\ funds'[d] = funds[d] - n
    BY StakingAssumption DEF FundsFit, Delegate
  <2>2. delegations'[d1][v1] = e
    BY <1>1, <1>2
  <2> QED BY <1>2, <2>1, <2>2, OldFields, EntryFields DEF LockedStep, Locked
<1> QED BY <1>1, <1>2, NothingUnlocked

LEMMA UndelegateLocks ==
    ASSUME IInv, NEW d \in Delegator, NEW v \in Validator,
           NEW n \in Amount, Undelegate(d, v, n),
           NEW d1 \in Delegator, NEW v1 \in Validator
    PROVE  LockedStep(d1, v1)
<1> DEFINE old == delegations[d][v]
           e == Entry(old.amount - n, old.unbonding_amount + n,
                      StillRedelegable(old, n), old.accumulated_rewards)
<1>1. delegations'[d1][v1] = IF d1 = d /\ v1 = v THEN e ELSE delegations[d1][v1]
  BY InsertAt DEF Undelegate, IInv
<1>2. CASE d1 = d /\ v1 = v
  <2>1. n \in Nat /\ n <= old.amount
    BY StakingAssumption DEF Undelegate
  <2>2. /\ StillRedelegable(old, n) \in Nat
        /\ StillRedelegable(old, n) <= old.can_redelegate
    BY <2>1, OldFields DEF StillRedelegable
  <2>3. delegations'[d1][v1] = e
    BY <1>1, <1>2
  <2> HIDE DEF e
  <2>4. /\ e.amount = old.amount - n
        /\ e.unbonding_amount = old.unbonding_amount + n
        /\ e.can_redelegate = StillRedelegable(old, n)
    BY EntryFields DEF e
  <2> QED BY <1>2, <2>1, <2>2, <2>3, <2>4, OldFields DEF LockedStep, Locked
<1> QED BY <1>1, <1>2, NothingUnlocked

LEMMA RedelegateLocks ==
    ASSUME IInv, NEW d \in Delegator, NEW src \in Validator,
           NEW dst \in Validator, NEW n \in Amount, Redelegate(d, src, dst, n),
           NEW d1 \in Delegator, NEW v1 \in Validator
    PROVE  LockedStep(d1, v1)
<1> DEFINE old == delegations[d][src]
           to == delegations[d][dst]
           back == Entry(old.amount - n + n, old.unbonding_amount,
                         old.can_redelegate - n, old.accumulated_rewards)
           there == Entry(to.amount + n, to.unbonding_amount,
                          to.can_redelegate, to.accumulated_rewards)
           left == Entry(old.amount - n, old.unbonding_amount,
                         old.can_redelegate - n, old.accumulated_rewards)
           new == delegations'[d1][v1]
<1>1. n \in Nat /\ n <= old.amount /\ n <= old.can_redelegate
  BY StakingAssumption DEF Redelegate
<1>2. new = IF d1 = d /\ v1 = dst /\ dst = src THEN back
            ELSE IF d1 = d /\ v1 = dst THEN there
            ELSE IF d1 = d /\ v1 = src THEN left
            ELSE delegations[d1][v1]
  BY <1>1, MovedAt DEF Redelegate
<1>3. /\ back.amount = old.amount - n + n
      /\ back.unbonding_amount = old.unbonding_amount
      /\ back.can_redelegate = old.can_redelegate - n
      /\ there.amount = to.amount + n
      /\ there.unbonding_amount = to.unbonding_amount
      /\ there.can_redelegate = to.can_redelegate
      /\ left.amount = old.amount - n
      /\ left.unbonding_amount = old.unbonding_amount
      /\ left.can_redelegate = old.can_redelegate - n
  BY EntryFields
<1>4. /\ old.amount \in Nat /\ old.unbonding_amount \in Nat
      /\ old.can_redelegate \in Nat
      /\ to.amount \in Nat /\ to.unbonding_amount \in Nat
      /\ to.can_redelegate \in Nat
  BY OldFields
<1> HIDE DEF back, there, left, new
<1>5. CASE d1 = d /\ v1 = dst /\ dst = src
  BY <1>1, <1>2, <1>3, <1>4, <1>5 DEF LockedStep, Locked, new
<1>6. CASE d1 = d /\ v1 = dst /\ dst # src
  BY <1>1, <1>2, <1>3, <1>4, <1>6 DEF LockedStep, Locked, new
<1>7. CASE d1 = d /\ v1 = src /\ dst # src
  BY <1>1, <1>2, <1>3, <1>4, <1>7 DEF LockedStep, Locked, new
<1>8. CASE d1 # d \/ (v1 # src /\ v1 # dst)
  BY <1>2, <1>8, NothingUnlocked DEF new
<1> QED BY <1>5, <1>6, <1>7, <1>8

LEMMA WithdrawLocks ==
    ASSUME IInv, NEW d \in Delegator, NEW v \in Validator, Withdraw(d, v),
           NEW d1 \in Delegator, NEW v1 \in Validator
    PROVE  LockedStep(d1, v1)
<1> DEFINE old == delegations[d][v]
           e == Entry(old.amount, old.unbonding_amount, old.can_redelegate, 0)
<1>1. delegations'[d1][v1] = IF d1 = d /\ v1 = v THEN e ELSE delegations[d1][v1]
  BY InsertAt DEF Withdraw, IInv
<1>2. CASE d1 = d /\ v1 = v
  <2>1. delegations'[d1][v1] = e
    BY <1>1, <1>2
  <2> QED BY <1>2, <2>1, OldFields, EntryFields DEF LockedStep, Locked
<1> QED BY <1>1, <1>2, NothingUnlocked
-----------------------------------------------------------------------------
(* What a delegator has at all validators.                                 *)

BondedIn(all, d)    == SumFunction([v \in Validator |-> all[d][v].amount])
UnbondingIn(all, d) == SumFunction([v \in Validator |-> all[d][v].unbonding_amount])
RewardsIn(all, d)   == SumFunction([v \in Validator |-> all[d][v].accumulated_rewards])

LEMMA SumsAreNat ==
    ASSUME NEW all \in Delegations, NEW d \in Delegator
    PROVE  /\ BondedIn(all, d) \in Nat
           /\ UnbondingIn(all, d) \in Nat
           /\ RewardsIn(all, d) \in Nat
<1>1. \A v \in Validator : all[d][v] \in Delegation
  BY DEF Delegations
<1>2. \A v \in Validator : /\ all[d][v].amount \in Nat
                           /\ all[d][v].unbonding_amount \in Nat
                           /\ all[d][v].accumulated_rewards \in Nat
  BY <1>1 DEF Delegation
<1>3. [v \in Validator |-> all[d][v].amount] \in [Validator -> Nat]
  BY <1>2
<1>4. [v \in Validator |-> all[d][v].unbonding_amount] \in [Validator -> Nat]
  BY <1>2
<1>5. [v \in Validator |-> all[d][v].accumulated_rewards] \in [Validator -> Nat]
  BY <1>2
<1> QED BY <1>3, <1>4, <1>5, StakingAssumption, TotalNat
        DEF BondedIn, UnbondingIn, RewardsIn

(* Inserting a delegation changes the sums by what it changes.             *)
LEMMA InsertSums ==
    ASSUME NEW all \in Delegations, NEW d \in Delegator, NEW v \in Validator,
           NEW e \in Delegation, NEW d1 \in Delegator
    PROVE  LET new == Insert(all, d, v, e)
               old == all[d][v]
               same == d1 # d
           IN  /\ BondedIn(new, d1) = BondedIn(all, d1)
                    + (IF same THEN 0 ELSE e.amount - old.amount)
               /\ UnbondingIn(new, d1) = UnbondingIn(all, d1)
                    + (IF same THEN 0 ELSE e.unbonding_amount - old.unbonding_amount)
               /\ RewardsIn(new, d1) = RewardsIn(all, d1)
                    + (IF same THEN 0
                       ELSE e.accumulated_rewards - old.accumulated_rewards)
<1> DEFINE new == Insert(all, d, v, e)
<1>1. \A v1 \in Validator :
        new[d1][v1] = IF d1 = d /\ v1 = v THEN e ELSE all[d1][v1]
  BY InsertAt
<1>2. /\ BondedIn(all, d1) \in Nat /\ UnbondingIn(all, d1) \in Nat
      /\ RewardsIn(all, d1) \in Nat
  BY SumsAreNat
<1>3. \A v1 \in Validator : all[d1][v1] \in Delegation
  BY DEF Delegations
<1>4. \A v1 \in Validator : /\ all[d1][v1].amount \in Int
                            /\ all[d1][v1].unbonding_amount \in Int
                            /\ all[d1][v1].accumulated_rewards \in Int
  BY <1>3 DEF Delegation
<1>5. e.amount \in Int /\ e.unbonding_amount \in Int /\ e.accumulated_rewards \in Int
  BY DEF Delegation
<1> HIDE DEF new
<1>6. CASE d1 # d
  <2>1. \A v1 \in Validator : new[d1][v1] = all[d1][v1]
    BY <1>1, <1>6
  <2>2. /\ BondedIn(new, d1) = BondedIn(all, d1)
        /\ UnbondingIn(new, d1) = UnbondingIn(all, d1)
        /\ RewardsIn(new, d1) = RewardsIn(all, d1)
    BY <2>1 DEF BondedIn, UnbondingIn, RewardsIn
  <2> QED BY <1>2, <1>6, <2>2 DEF new
<1>7. CASE d1 = d
  <2>1. \A v1 \in Validator \ {v} : new[d][v1] = all[d][v1]
    BY <1>1, <1>7
  <2>2. new[d][v] = e
    BY <1>1, <1>7
  <2>3. BondedIn(new, d) = BondedIn(all, d) - all[d][v].amount + e.amount
    <3> DEFINE f == [v1 \in Validator |-> all[d][v1].amount]
               g == [v1 \in Validator |-> new[d][v1].amount]
    <3>1. /\ \A y \in Validator : f[y] \in Int
          /\ \A y \in Validator \ {v} : g[y] = f[y]
          /\ f[v] = all[d][v].amount /\ g[v] = e.amount
      BY <1>4, <1>7, <2>1, <2>2
    <3>2. DOMAIN f = Validator /\ DOMAIN g = Validator
      OBVIOUS
    <3> HIDE DEF f, g
    <3>3. SumFunction(g) = SumFunction(f) - f[v] + g[v]
      BY <1>5, <3>1, <3>2, StakingAssumption, TotalChanges
    <3> QED BY <3>1, <3>3 DEF BondedIn, f, g
  <2>4. UnbondingIn(new, d) = UnbondingIn(all, d) - all[d][v].unbonding_amount
                                                  + e.unbonding_amount
    <3> DEFINE f == [v1 \in Validator |-> all[d][v1].unbonding_amount]
               g == [v1 \in Validator |-> new[d][v1].unbonding_amount]
    <3>1. /\ \A y \in Validator : f[y] \in Int
          /\ \A y \in Validator \ {v} : g[y] = f[y]
          /\ f[v] = all[d][v].unbonding_amount /\ g[v] = e.unbonding_amount
      BY <1>4, <1>7, <2>1, <2>2
    <3>2. DOMAIN f = Validator /\ DOMAIN g = Validator
      OBVIOUS
    <3> HIDE DEF f, g
    <3>3. SumFunction(g) = SumFunction(f) - f[v] + g[v]
      BY <1>5, <3>1, <3>2, StakingAssumption, TotalChanges
    <3> QED BY <3>1, <3>3 DEF UnbondingIn, f, g
  <2>5. RewardsIn(new, d) = RewardsIn(all, d) - all[d][v].accumulated_rewards
                                              + e.accumulated_rewards
    <3> DEFINE f == [v1 \in Validator |-> all[d][v1].accumulated_rewards]
               g == [v1 \in Validator |-> new[d][v1].accumulated_rewards]
    <3>1. /\ \A y \in Validator : f[y] \in Int
          /\ \A y \in Validator \ {v} : g[y] = f[y]
          /\ f[v] = all[d][v].accumulated_rewards
          /\ g[v] = e.accumulated_rewards
      BY <1>4, <1>7, <2>1, <2>2
    <3>2. DOMAIN f = Validator /\ DOMAIN g = Validator
      OBVIOUS
    <3> HIDE DEF f, g
    <3>3. SumFunction(g) = SumFunction(f) - f[v] + g[v]
      BY <1>5, <3>1, <3>2, StakingAssumption, TotalChanges
    <3> QED BY <3>1, <3>3 DEF RewardsIn, f, g
  <2>6. /\ all[d][v].amount \in Int /\ all[d][v].unbonding_amount \in Int
        /\ all[d][v].accumulated_rewards \in Int
    BY <1>4, <1>7
  <2> QED BY <1>2, <1>5, <1>7, <2>3, <2>4, <2>5, <2>6 DEF new
<1> QED BY <1>6, <1>7

(* A message neither makes nor loses tokens, pays rewards at most, and     *)
(* takes nothing out of the staking itself.                                *)
MessageStep ==
    /\ funds' \in [Delegator -> Nat]
    /\ began' = began
    /\ \A d \in Delegator :
         /\ funds'[d] + BondedIn(delegations', d) + UnbondingIn(delegations', d)
                + RewardsIn(delegations', d)
              = funds[d] + BondedIn(delegations, d) + UnbondingIn(delegations, d)
                + RewardsIn(delegations, d)
         /\ BondedIn(delegations', d) + UnbondingIn(delegations', d)
              >= BondedIn(delegations, d) + UnbondingIn(delegations, d)
         /\ RewardsIn(delegations', d) <= RewardsIn(delegations, d)

LEMMA OldSums ==
    ASSUME IInv, FundsFit, NEW d \in Delegator
    PROVE  /\ BondedIn(delegations, d) \in Nat
           /\ UnbondingIn(delegations, d) \in Nat
           /\ RewardsIn(delegations, d) \in Nat
           /\ funds[d] \in Nat
BY SumsAreNat DEF IInv, FundsFit

LEMMA DelegateConserves ==
    ASSUME IInv, FundsFit, NEW d \in Delegator, NEW v \in Validator,
           NEW n \in Amount, Delegate(d, v, n)
    PROVE  MessageStep
<1> DEFINE old == delegations[d][v]
           e == Entry(old.amount + n, old.unbonding_amount,
                      old.can_redelegate + n, old.accumulated_rewards)
<1>1. /\ n \in Nat /\ n <= funds[d]
      /\ funds' = [funds EXCEPT ![d] = @ - n] /\ began' = began
      /\ delegations' = Insert(delegations, d, v, e)
  BY StakingAssumption DEF Delegate
<1>2. /\ e.amount = old.amount + n /\ e.unbonding_amount = old.unbonding_amount
      /\ e.accumulated_rewards = old.accumulated_rewards
  BY EntryFields
<1>3. e \in Delegation
  <2>1. n \in Nat
    BY <1>1
  <2>2. Sound(e)
    BY <2>1, OldFields, EntrySound
  <2> QED BY <2>2 DEF Sound
<1>4. /\ old.amount \in Nat /\ old.unbonding_amount \in Nat
      /\ old.accumulated_rewards \in Nat
  BY OldFields
<1> HIDE DEF e, old
<1>5. funds \in [Delegator -> Nat] /\ funds' \in [Delegator -> Nat]
  BY <1>1 DEF FundsFit
<1>6. ASSUME NEW d1 \in Delegator
      PROVE  /\ funds'[d1] = funds[d1] - (IF d1 = d THEN n ELSE 0)
             /\ BondedIn(delegations', d1)
                  = BondedIn(delegations, d1) + (IF d1 = d THEN n ELSE 0)
             /\ UnbondingIn(delegations', d1) = UnbondingIn(delegations, d1)
             /\ RewardsIn(delegations', d1) = RewardsIn(delegations, d1)
  <2>1. delegations \in Delegations
    BY DEF IInv
  <2> QED BY <1>1, <1>2, <1>3, <1>4, <1>5, <2>1, InsertSums, OldSums DEF old
<1> QED BY <1>1, <1>5, <1>6, OldSums DEF MessageStep

LEMMA UndelegateConserves ==
    ASSUME IInv, FundsFit, NEW d \in Delegator, NEW v \in Validator,
           NEW n \in Amount, Undelegate(d, v, n)
    PROVE  MessageStep
<1> DEFINE old == delegations[d][v]
           e == Entry(old.amount - n, old.unbonding_amount + n,
                      StillRedelegable(old, n), old.accumulated_rewards)
<1>1. /\ n \in Nat /\ n <= old.amount
      /\ funds' = funds /\ began' = began
      /\ delegations' = Insert(delegations, d, v, e)
  BY StakingAssumption DEF Undelegate
<1>2. /\ e.amount = old.amount - n
      /\ e.unbonding_amount = old.unbonding_amount + n
      /\ e.accumulated_rewards = old.accumulated_rewards
  BY EntryFields
<1>3. /\ StillRedelegable(old, n) \in Nat
      /\ StillRedelegable(old, n) <= old.amount - n
  BY <1>1, OldFields DEF StillRedelegable
<1>4. e \in Delegation
  <2>1. Sound(e)
    BY <1>1, <1>3, OldFields, EntrySound
  <2> QED BY <2>1 DEF Sound
<1>5. /\ old.amount \in Nat /\ old.unbonding_amount \in Nat
      /\ old.accumulated_rewards \in Nat
  BY OldFields
<1> HIDE DEF e, old
<1>6. ASSUME NEW d1 \in Delegator
      PROVE  /\ BondedIn(delegations', d1)
                  = BondedIn(delegations, d1) - (IF d1 = d THEN n ELSE 0)
             /\ UnbondingIn(delegations', d1)
                  = UnbondingIn(delegations, d1) + (IF d1 = d THEN n ELSE 0)
             /\ RewardsIn(delegations', d1) = RewardsIn(delegations, d1)
  <2>1. delegations \in Delegations
    BY DEF IInv
  <2> QED BY <1>1, <1>2, <1>4, <1>5, <2>1, InsertSums, OldSums DEF old
<1>7. funds' \in [Delegator -> Nat]
  BY <1>1 DEF FundsFit
<1> QED BY <1>1, <1>6, <1>7, OldSums DEF MessageStep

LEMMA RedelegateConserves ==
    ASSUME IInv, FundsFit, NEW d \in Delegator, NEW src \in Validator,
           NEW dst \in Validator, NEW n \in Amount, Redelegate(d, src, dst, n)
    PROVE  MessageStep
<1> DEFINE old == delegations[d][src]
           e == Entry(old.amount - n, old.unbonding_amount,
                      old.can_redelegate - n, old.accumulated_rewards)
           left == Insert(delegations, d, src, e)
           to == left[d][dst]
           f == Entry(to.amount + n, to.unbonding_amount,
                      to.can_redelegate, to.accumulated_rewards)
<1>1. /\ n \in Nat /\ n <= old.amount /\ n <= old.can_redelegate
      /\ funds' = funds /\ began' = began
      /\ delegations' = Insert(left, d, dst, f)
  BY StakingAssumption DEF Redelegate, Moved
<1>2. /\ delegations \in Delegations
      /\ \A d1 \in Delegator, v1 \in Validator :
           delegations[d1][v1].can_redelegate <= delegations[d1][v1].amount
  BY DEF IInv, CanRedelegateBounded
<1>3. /\ old.amount \in Nat /\ old.unbonding_amount \in Nat
      /\ old.can_redelegate \in Nat /\ old.accumulated_rewards \in Nat
      /\ old.can_redelegate <= old.amount
  BY OldFields
<1>4. /\ e.amount = old.amount - n
      /\ e.unbonding_amount = old.unbonding_amount
      /\ e.accumulated_rewards = old.accumulated_rewards
  BY EntryFields
<1>5. Sound(e)
  <2>1. /\ old.amount - n \in Nat /\ old.can_redelegate - n \in Nat
        /\ old.can_redelegate - n <= old.amount - n
    <3>1. PICK x, c : x = old.amount /\ c = old.can_redelegate
      OBVIOUS
    <3>2. /\ n \in Nat /\ x \in Nat /\ c \in Nat
          /\ n <= x /\ n <= c /\ c <= x
      BY <1>1, <1>3, <3>1
    <3>3. x - n \in Nat /\ c - n \in Nat /\ c - n <= x - n
      BY <3>2
    <3> QED BY <3>1, <3>3
  <2> QED BY <1>3, <2>1, EntrySound
<1> HIDE DEF e, old
<1>6. /\ left \in Delegations
      /\ \A d1 \in Delegator, v1 \in Validator :
           left[d1][v1].can_redelegate <= left[d1][v1].amount
  BY <1>2, <1>5, InsertSound
<1>7. ASSUME NEW d1 \in Delegator
      PROVE  /\ BondedIn(left, d1)
                  = BondedIn(delegations, d1) - (IF d1 = d THEN n ELSE 0)
             /\ UnbondingIn(left, d1) = UnbondingIn(delegations, d1)
             /\ RewardsIn(left, d1) = RewardsIn(delegations, d1)
  <2>1. e \in Delegation
    BY <1>5 DEF Sound
  <2> QED BY <1>1, <1>2, <1>3, <1>4, <2>1, InsertSums, OldSums DEF old
<1>8. Sound(to)
  <2> HIDE DEF left
  <2> QED BY <1>6, IsSound
<1>9. /\ to.amount \in Nat /\ to.unbonding_amount \in Nat
      /\ to.can_redelegate \in Nat /\ to.accumulated_rewards \in Nat
      /\ to.can_redelegate <= to.amount
  <2> HIDE DEF to
  <2> QED BY <1>8, Fields
<1>10. /\ f.amount = to.amount + n /\ f.unbonding_amount = to.unbonding_amount
       /\ f.accumulated_rewards = to.accumulated_rewards
  BY EntryFields
<1>11. f \in Delegation
  <2> HIDE DEF to
  <2>1. to.amount + n \in Nat /\ to.can_redelegate <= to.amount + n
    BY <1>1, <1>9
  <2>2. Sound(f)
    BY <1>9, <2>1, EntrySound
  <2> QED BY <2>2 DEF Sound
<1> HIDE DEF f, left
<1>12. ASSUME NEW d1 \in Delegator
       PROVE  /\ BondedIn(delegations', d1)
                   = BondedIn(left, d1) + (IF d1 = d THEN n ELSE 0)
              /\ UnbondingIn(delegations', d1) = UnbondingIn(left, d1)
              /\ RewardsIn(delegations', d1) = RewardsIn(left, d1)
  <2>1. /\ BondedIn(left, d1) \in Nat /\ UnbondingIn(left, d1) \in Nat
        /\ RewardsIn(left, d1) \in Nat
    BY <1>6, SumsAreNat
  <2> QED BY <1>1, <1>6, <1>9, <1>10, <1>11, <2>1, InsertSums
<1>13. funds' \in [Delegator -> Nat]
  BY <1>1 DEF FundsFit
<1> QED BY <1>1, <1>7, <1>12, <1>13, OldSums DEF MessageStep

LEMMA WithdrawConserves ==
    ASSUME IInv, FundsFit, NEW d \in Delegator, NEW v \in Validator,
           Withdraw(d, v)
    PROVE  MessageStep
<1> DEFINE old == delegations[d][v]
           r == old.accumulated_rewards
           e == Entry(old.amount, old.unbonding_amount, old.can_redelegate, 0)
<1>1. /\ funds' = [funds EXCEPT ![d] = @ + r] /\ began' = began
      /\ delegations' = Insert(delegations, d, v, e)
  BY DEF Withdraw
<1>2. /\ e.amount = old.amount /\ e.unbonding_amount = old.unbonding_amount
      /\ e.accumulated_rewards = 0
  BY EntryFields
<1>3. e \in Delegation
  <2>1. Sound(e)
    BY OldFields, EntrySound
  <2> QED BY <2>1 DEF Sound
<1>4. old.amount \in Nat /\ old.unbonding_amount \in Nat /\ r \in Nat
  BY OldFields
<1> HIDE DEF e, old
<1>5. funds \in [Delegator -> Nat] /\ funds' \in [Delegator -> Nat]
  BY <1>1, <1>4 DEF FundsFit
<1>6. ASSUME NEW d1 \in Delegator
      PROVE  /\ funds'[d1] = funds[d1] + (IF d1 = d THEN r ELSE 0)
             /\ BondedIn(delegations', d1) = BondedIn(delegations, d1)
             /\ UnbondingIn(delegations', d1) = UnbondingIn(delegations, d1)
             /\ RewardsIn(delegations', d1)
                  = RewardsIn(delegations, d1) - (IF d1 = d THEN r ELSE 0)
  <2>1. delegations \in Delegations
    BY DEF IInv
  <2> QED BY <1>1, <1>2, <1>3, <1>4, <1>5, <2>1, InsertSums, OldSums DEF old
<1> HIDE DEF r
<1> QED BY <1>1, <1>4, <1>5, <1>6, OldSums DEF MessageStep
-----------------------------------------------------------------------------
(* No token is lost: the funds at the beginning of a transaction and what  *)
(* is bonded and unbonding now are enough for a failure at any moment.     *)

SurvivesFailure ==
    Open => \A d \in Delegator :
        began[1][d] + Bonded(d) + Unbonding(d) >= InitialFunds

TokensInv == IInv /\ FundsFit /\ NoTokenLost /\ SurvivesFailure

LEMMA InTermsOfSums ==
    ASSUME NEW d \in Delegator
    PROVE  /\ Bonded(d) = BondedIn(delegations, d)
           /\ Unbonding(d) = UnbondingIn(delegations, d)
           /\ Rewards(d) = RewardsIn(delegations, d)
           /\ Bonded(d)' = BondedIn(delegations', d)
           /\ Unbonding(d)' = UnbondingIn(delegations', d)
           /\ Rewards(d)' = RewardsIn(delegations', d)
           /\ Tokens(d) = funds[d] + BondedIn(delegations, d)
                                   + UnbondingIn(delegations, d)
           /\ Tokens(d)' = funds'[d] + BondedIn(delegations', d)
                                     + UnbondingIn(delegations', d)
BY DEF Bonded, Unbonding, Rewards, Tokens, BondedIn, UnbondingIn, RewardsIn

LEMMA InitTokens == StakingInit => TokensInv
<1> SUFFICES ASSUME StakingInit PROVE TokensInv
  OBVIOUS
<1>1. IInv
  BY InitIInv
<1>2. FundsFit
  BY StakingAssumption DEF StakingInit, FundsFit, Open
<1>3. NoTokenLost
  BY <1>1, <1>2, OldSums, InTermsOfSums, StakingAssumption
     DEF StakingInit, NoTokenLost
<1> QED BY <1>1, <1>2, <1>3 DEF TokensInv, StakingInit, SurvivesFailure, Open

LEMMA MessageKeepsTokens ==
    ASSUME TokensInv, IInv', MessageStep
    PROVE  TokensInv'
<1>1. FundsFit'
  BY DEF TokensInv, MessageStep, FundsFit, Open
<1>2. ASSUME NEW d \in Delegator
      PROVE  /\ BondedIn(delegations, d) \in Nat
             /\ UnbondingIn(delegations, d) \in Nat
             /\ RewardsIn(delegations, d) \in Nat
             /\ funds[d] \in Nat
             /\ BondedIn(delegations', d) \in Nat
             /\ UnbondingIn(delegations', d) \in Nat
             /\ RewardsIn(delegations', d) \in Nat
             /\ funds'[d] \in Nat
  BY SumsAreNat DEF TokensInv, IInv, FundsFit, MessageStep
<1>3. NoTokenLost'
  <2> SUFFICES ASSUME NEW d \in Delegator PROVE Tokens(d)' >= InitialFunds
    BY DEF NoTokenLost
  <2>1. Tokens(d) >= InitialFunds /\ InitialFunds \in Nat
    BY StakingAssumption DEF TokensInv, NoTokenLost
  <2>2. Tokens(d)' >= Tokens(d)
    BY <1>2, InTermsOfSums DEF MessageStep
  <2> QED BY <1>2, <2>1, <2>2, InTermsOfSums
<1>4. SurvivesFailure'
  <2> SUFFICES ASSUME Open, NEW d \in Delegator
               PROVE  began[1][d] + BondedIn(delegations', d)
                        + UnbondingIn(delegations', d) >= InitialFunds
    BY InTermsOfSums DEF MessageStep, SurvivesFailure, Open
  <2>1. began[1][d] \in Nat /\ InitialFunds \in Nat
    BY StakingAssumption DEF TokensInv, FundsFit
  <2>2. began[1][d] + BondedIn(delegations, d) + UnbondingIn(delegations, d)
          >= InitialFunds
    BY InTermsOfSums DEF TokensInv, SurvivesFailure
  <2>3. BondedIn(delegations', d) + UnbondingIn(delegations', d)
          >= BondedIn(delegations, d) + UnbondingIn(delegations, d)
    BY DEF MessageStep
  <2> QED BY <1>2, <2>1, <2>2, <2>3
<1> QED BY <1>1, <1>3, <1>4 DEF TokensInv

LEMMA MessageSteps ==
    ASSUME TokensInv, NEW d \in Delegator, NEW v \in Validator,
           \/ Withdraw(d, v)
           \/ \E n \in Amount :
                \/ Delegate(d, v, n)
                \/ Undelegate(d, v, n)
                \/ \E dst \in Validator : Redelegate(d, v, dst, n)
    PROVE  MessageStep
BY WithdrawConserves, DelegateConserves, UndelegateConserves,
   RedelegateConserves DEF TokensInv

(* Outside of transactions the sums of bonds and unbondings do not change. *)
LEMMA OutsideKeepsTokens ==
    ASSUME TokensInv, IInv', ~Open, began' = began,
           funds' \in [Delegator -> Nat],
           \A d \in Delegator : funds'[d] >= funds[d],
           \A d \in Delegator, v \in Validator :
             /\ delegations'[d][v].amount = delegations[d][v].amount
             /\ delegations'[d][v].unbonding_amount
                  = delegations[d][v].unbonding_amount
    PROVE  TokensInv'
<1>1. FundsFit' /\ SurvivesFailure'
  BY DEF FundsFit, SurvivesFailure, Open
<1>2. NoTokenLost'
  <2> SUFFICES ASSUME NEW d \in Delegator PROVE Tokens(d)' >= InitialFunds
    BY DEF NoTokenLost
  <2>1. /\ BondedIn(delegations', d) = BondedIn(delegations, d)
        /\ UnbondingIn(delegations', d) = UnbondingIn(delegations, d)
    BY DEF BondedIn, UnbondingIn
  <2>2. /\ BondedIn(delegations, d) \in Nat /\ UnbondingIn(delegations, d) \in Nat
        /\ funds[d] \in Nat
    BY OldSums DEF TokensInv
  <2>3. Tokens(d) >= InitialFunds /\ InitialFunds \in Nat
    BY StakingAssumption DEF TokensInv, NoTokenLost
  <2>4. funds'[d] \in Nat /\ funds'[d] >= funds[d]
    OBVIOUS
  <2> QED BY <2>1, <2>2, <2>3, <2>4, InTermsOfSums
<1> QED BY <1>1, <1>2 DEF TokensInv

LEMMA AddRewardsKeepsTokens ==
    ASSUME TokensInv, IInv', NEW n \in Reward, AddRewards(n)
    PROVE  TokensInv'
<1>1. ASSUME NEW d \in Delegator, NEW v \in Validator
      PROVE  /\ delegations'[d][v].amount = delegations[d][v].amount
             /\ delegations'[d][v].unbonding_amount
                  = delegations[d][v].unbonding_amount
  BY EntryFields DEF AddRewards
<1>2. /\ ~Open /\ began' = began /\ funds' \in [Delegator -> Nat]
      /\ \A d \in Delegator : funds'[d] >= funds[d]
  BY DEF AddRewards, TokensInv, FundsFit
<1> QED BY <1>1, <1>2, OutsideKeepsTokens

LEMMA FastForwardKeepsTokens ==
    ASSUME TokensInv, IInv', FastForwardDelegationWaits
    PROVE  TokensInv'
<1>1. ASSUME NEW d \in Delegator, NEW v \in Validator
      PROVE  /\ delegations'[d][v].amount = delegations[d][v].amount
             /\ delegations'[d][v].unbonding_amount
                  = delegations[d][v].unbonding_amount
  BY DEF FastForwardDelegationWaits
<1>2. ASSUME NEW d \in Delegator
      PROVE  funds[d] \in Nat /\ Unbonding(d) \in Nat
  BY OldSums, InTermsOfSums DEF TokensInv
<1>3. funds' = [d \in Delegator |-> funds[d] + Unbonding(d)]
  BY DEF FastForwardDelegationWaits
<1>4. /\ funds' \in [Delegator -> Nat]
      /\ \A d \in Delegator : funds'[d] >= funds[d]
  BY <1>2, <1>3
<1>5. ~Open /\ began' = began
  BY DEF FastForwardDelegationWaits
<1> QED BY <1>1, <1>4, <1>5, OutsideKeepsTokens

LEMMA FailKeepsTokens ==
    ASSUME TokensInv, IInv', Fail
    PROVE  TokensInv'
<1>1. PICK b \in [Delegator -> Nat] : began = <<b>>
  BY DEF Fail, TokensInv, FundsFit
<1>2. FundsFit' /\ SurvivesFailure'
  BY <1>1 DEF Fail, FundsFit, SurvivesFailure, Open
<1>3. \A d \in Delegator :
        /\ BondedIn(delegations', d) = BondedIn(delegations, d)
        /\ UnbondingIn(delegations', d) = UnbondingIn(delegations, d)
        /\ funds'[d] = began[1][d]
  BY <1>1 DEF Fail
<1>4. NoTokenLost'
  BY <1>3, InTermsOfSums DEF NoTokenLost, TokensInv, SurvivesFailure, Fail
<1> QED BY <1>2, <1>4 DEF TokensInv

LEMMA BeginKeepsTokens ==
    ASSUME TokensInv, IInv', Begin \/ Succeed \/ UNCHANGED stakingVars
    PROVE  TokensInv'
<1>1. funds' = funds /\ delegations' = delegations
  BY DEF Begin, Succeed, stakingVars
<1>2. FundsFit'
  BY <1>1 DEF Begin, Succeed, stakingVars, TokensInv, FundsFit, Open
<1>3. NoTokenLost'
  BY <1>1, InTermsOfSums DEF NoTokenLost, TokensInv
<1>4. SurvivesFailure'
  <2>1. CASE Begin
    <3>1. began'[1] = funds
      BY <2>1 DEF Begin
    <3> QED BY <1>1, <3>1, InTermsOfSums DEF TokensInv, NoTokenLost, SurvivesFailure
  <2>2. CASE Succeed
    BY <2>2 DEF Succeed, SurvivesFailure, Open
  <2>3. CASE UNCHANGED stakingVars
    BY <1>1, <2>3, InTermsOfSums DEF stakingVars, TokensInv, SurvivesFailure, Open
  <2> QED BY <2>1, <2>2, <2>3
<1> QED BY <1>2, <1>3, <1>4 DEF TokensInv

LEMMA NextTokens == TokensInv /\ [StakingNext]_stakingVars => TokensInv'
<1> SUFFICES ASSUME TokensInv, [StakingNext]_stakingVars PROVE TokensInv'
  OBVIOUS
<1>1. IInv'
  BY NextIInv DEF TokensInv
<1>2. CASE Begin \/ Succeed \/ UNCHANGED stakingVars
  BY <1>1, <1>2, BeginKeepsTokens
<1>3. CASE Fail
  BY <1>1, <1>3, FailKeepsTokens
<1>4. ASSUME NEW d \in Delegator, NEW v \in Validator,
             \/ Withdraw(d, v)
             \/ \E n \in Amount :
                  \/ Delegate(d, v, n)
                  \/ Undelegate(d, v, n)
                  \/ \E dst \in Validator : Redelegate(d, v, dst, n)
      PROVE  TokensInv'
  BY <1>1, <1>4, MessageSteps, MessageKeepsTokens
<1>5. ASSUME NEW n \in Reward, AddRewards(n)
      PROVE  TokensInv'
  BY <1>1, <1>5, AddRewardsKeepsTokens
<1>6. CASE FastForwardDelegationWaits
  BY <1>1, <1>6, FastForwardKeepsTokens
<1> QED BY <1>2, <1>3, <1>4, <1>5, <1>6 DEF StakingNext

LEMMA TokensAlways == StakingSpec => []TokensInv
BY InitTokens, NextTokens, PTL DEF StakingSpec

(* Whatever is delegated, moved, withdrawn, forwarded or fails, a          *)
(* delegator's balance, bonds and unbondings are worth at least what it    *)
(* started with.  A lower bound only: a failure after a delegation, or a   *)
(* second forwarding, gives back more than was taken.                      *)
THEOREM TokensNeverLost == StakingSpec => []NoTokenLost
<1>1. TokensInv => NoTokenLost
  BY DEF TokensInv
<1> QED BY TokensAlways, <1>1, PTL

(* Every message of a transaction moves a delegator's tokens between its   *)
(* balance, its bonds, its unbondings and its rewards at any number of     *)
(* validators, and their sum stays the same.                               *)
THEOREM TokensConserved == StakingSpec => MessagesConserveTokens
<1>1. TokensInv /\ [StakingNext]_stakingVars
        => [Open /\ Open' => \A d \in Delegator :
              (Tokens(d) + Rewards(d))' = Tokens(d) + Rewards(d)]_stakingVars
  <2> SUFFICES ASSUME TokensInv, StakingNext, Open, Open', NEW d \in Delegator
               PROVE  (Tokens(d) + Rewards(d))' = Tokens(d) + Rewards(d)
    BY DEF Open
  <2>1. ASSUME MessageStep
        PROVE  (Tokens(d) + Rewards(d))' = Tokens(d) + Rewards(d)
    BY <2>1, InTermsOfSums DEF MessageStep
  <2>2. \E d1 \in Delegator, v \in Validator :
          \/ Withdraw(d1, v)
          \/ \E n \in Amount :
               \/ Delegate(d1, v, n)
               \/ Undelegate(d1, v, n)
               \/ \E dst \in Validator : Redelegate(d1, v, dst, n)
    BY DEF StakingNext, Begin, Succeed, Fail, AddRewards,
           FastForwardDelegationWaits, Open
  <2> QED BY <2>1, <2>2, MessageSteps
<1> QED BY TokensAlways, <1>1, PTL DEF StakingSpec, MessagesConserveTokens

(* Within a transaction, tokens that were redelegated stay locked until    *)
(* they are undelegated, and only what is paid for anew may be moved on.   *)
THEOREM RedelegatedLocked == StakingSpec => RedelegatedStaysLocked
<1>1. TokensInv /\ [StakingNext]_stakingVars
        => [Open => \A d \in Delegator, v \in Validator :
              LET old == delegations[d][v]
                  new == delegations'[d][v]
              IN  /\ Locked(d, v)' >= Locked(d, v) + old.unbonding_amount
                                                   - new.unbonding_amount
                  /\ new.can_redelegate > old.can_redelegate =>
                       new.can_redelegate - old.can_redelegate
                           = funds[d] - funds'[d]]_stakingVars
  <2> SUFFICES ASSUME TokensInv, StakingNext, Open,
                      NEW d \in Delegator, NEW v \in Validator
               PROVE  LockedStep(d, v)
    BY DEF LockedStep
  <2>1. IInv /\ FundsFit
    BY DEF TokensInv
  <2>2. CASE Succeed \/ Fail
    BY <2>1, <2>2, NothingUnlocked DEF Succeed, Fail
  <2>3. ASSUME NEW d1 \in Delegator, NEW v1 \in Validator, NEW n \in Amount,
               \/ Delegate(d1, v1, n)
               \/ Undelegate(d1, v1, n)
               \/ \E dst \in Validator : Redelegate(d1, v1, dst, n)
        PROVE  LockedStep(d, v)
    BY <2>1, <2>3, DelegateLocks, UndelegateLocks, RedelegateLocks
  <2>4. ASSUME NEW d1 \in Delegator, NEW v1 \in Validator, Withdraw(d1, v1)
        PROVE  LockedStep(d, v)
    BY <2>1, <2>4, WithdrawLocks
  <2>5. ~Begin /\ ~FastForwardDelegationWaits /\ ~ \E n \in Reward : AddRewards(n)
    BY DEF Begin, FastForwardDelegationWaits, AddRewards
  <2> QED BY <2>2, <2>3, <2>4, <2>5 DEF StakingNext
<1> QED BY TokensAlways, <1>1, PTL DEF StakingSpec, RedelegatedStaysLocked
=============================================================================
