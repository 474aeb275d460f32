------------------------------- MODULE Staking -------------------------------
(***************************************************************************)
(* Delegations in the simulation engine                                    *)
(* (crates/fadroma-ensemble/src/staking.rs, its messages in                *)
(* execute_sub_msg and the validator calls of ensemble.rs).  Delegations   *)
(* are kept beside State: the journal that a failed transaction replays    *)
(* gives the funds back and knows nothing of the delegations.  EnsembleBank*)
(* shows that the journal is exact for funds, so that a failure here sets  *)
(* `funds' back to what it was when the transaction began.                 *)
(***************************************************************************)
EXTENDS Integers, FiniteSets, Functions

CONSTANTS Delegator, Validator,
          InitialFunds,   \* of every delegator, in the bonded denomination
          Amount,         \* amounts of one message
          Reward,         \* amounts of one distribution of rewards
          MaxReward,      \* bound: rewards accumulated by one delegation
          MaxStake,       \* bound: what is bonded or unbonding at one validator
          MaxFunds        \* bound: payments to a delegator stop there

\* The validators are a Vec.
ASSUME StakingAssumption ==
    /\ IsFiniteSet(Validator)
    /\ {InitialFunds, MaxReward, MaxStake, MaxFunds} \subseteq Nat
    /\ Amount \subseteq Nat /\ Reward \subseteq Nat

VARIABLES delegations,   \* one record for each delegator and validator
          funds,         \* the balances of the bonded denomination
          began          \* <<the funds when the open transaction began>>,
                         \* or <<>> between transactions

stakingVars == <<delegations, funds, began>>

Open == began # <<>>

\* No delegation of the pair was ever made: a zero one tells them apart.
Delegation == [exists : BOOLEAN, amount : Nat, unbonding_amount : Nat,
               can_redelegate : Nat, accumulated_rewards : Nat]

None == [exists |-> FALSE, amount |-> 0, unbonding_amount |-> 0,
         can_redelegate |-> 0, accumulated_rewards |-> 0]

Entry(amount, unbonding, redelegable, rewards) ==
    [exists |-> TRUE, amount |-> amount, unbonding_amount |-> unbonding,
     can_redelegate |-> redelegable, accumulated_rewards |-> rewards]

\* insert_delegation.
Insert(all, d, v, entry) == [all EXCEPT ![d][v] = entry]

StakingInit == /\ delegations = [d \in Delegator |-> [v \in Validator |-> None]]
               /\ funds = [d \in Delegator |-> InitialFunds]
               /\ began = <<>>

Begin == /\ ~Open
         /\ began' = <<funds>>
         /\ UNCHANGED <<delegations, funds>>

Succeed == /\ Open
           /\ began' = <<>>
           /\ UNCHANGED <<delegations, funds>>

\* State::revert: a later message of the transaction failed.
Fail == /\ Open
        /\ funds' = began[1]
        /\ began' = <<>>
        /\ UNCHANGED delegations
-----------------------------------------------------------------------------
(* The messages of a transaction.  One that is refused fails it: Fail.     *)

Delegate(d, v, n) ==
    LET old == delegations[d][v]
    IN  /\ Open
        /\ funds[d] >= n
        /\ old.amount + n <= MaxStake
        /\ funds' = [funds EXCEPT ![d] = @ - n]
        /\ delegations' = Insert(delegations, d, v,
             Entry(old.amount + n, old.unbonding_amount,
                   old.can_redelegate + n, old.accumulated_rewards))
        /\ UNCHANGED began

NeverShrinks(old, n) == old.can_redelegate

\* What can be redelegated shrinks only when the rest no longer covers it.
StillRedelegable(old, n) ==
    IF old.can_redelegate + n > old.amount THEN old.amount - n
                                           ELSE old.can_redelegate

Undelegate(d, v, n) ==
    LET old == delegations[d][v]
    IN  /\ Open
        /\ old.exists
        /\ n <= old.amount
        /\ old.unbonding_amount + n <= MaxStake
        /\ delegations' = Insert(delegations, d, v,
             Entry(old.amount - n, old.unbonding_amount + n,
                   StillRedelegable(old, n), old.accumulated_rewards))
        /\ UNCHANGED <<funds, began>>

MovedStale(d, src, dst, n) ==
    LET old == delegations[d][src]
        to == delegations[d][dst]
        left == Insert(delegations, d, src,
             Entry(old.amount - n, old.unbonding_amount,
                   old.can_redelegate - n, old.accumulated_rewards))
    IN  Insert(left, d, dst,
             Entry(to.amount + n, to.unbonding_amount,
                   to.can_redelegate, to.accumulated_rewards))

MovedRedelegable(d, src, dst, n) ==
    LET old == delegations[d][src]
        left == Insert(delegations, d, src,
             Entry(old.amount - n, old.unbonding_amount,
                   old.can_redelegate - n, old.accumulated_rewards))
        to == left[d][dst]
    IN  Insert(left, d, dst,
             Entry(to.amount + n, to.unbonding_amount,
                   to.can_redelegate + n, to.accumulated_rewards))

\* The entry of the destination is read once the source has been written.
Moved(d, src, dst, n) ==
    LET old == delegations[d][src]
        left == Insert(delegations, d, src,
             Entry(old.amount - n, old.unbonding_amount,
                   old.can_redelegate - n, old.accumulated_rewards))
        to == left[d][dst]
    IN  Insert(left, d, dst,
             Entry(to.amount + n, to.unbonding_amount,
                   to.can_redelegate, to.accumulated_rewards))

Redelegate(d, src, dst, n) ==
    LET old == delegations[d][src]
    IN  /\ Open
        /\ old.exists
        /\ n <= old.amount
        /\ n <= old.can_redelegate
        /\ src # dst => delegations[d][dst].amount + n <= MaxStake
        /\ delegations' = Moved(d, src, dst, n)
        /\ UNCHANGED <<funds, began>>

Withdraw(d, v) ==
    LET old == delegations[d][v]
    IN  /\ Open
        /\ old.exists
        /\ funds[d] + old.accumulated_rewards <= MaxFunds
        /\ funds' = [funds EXCEPT ![d] = @ + old.accumulated_rewards]
        /\ delegations' = Insert(delegations, d, v,
             Entry(old.amount, old.unbonding_amount, old.can_redelegate, 0))
        /\ UNCHANGED began
-----------------------------------------------------------------------------
(* The calls of a test, between transactions.                              *)

AddRewards(n) ==
    /\ ~Open
    /\ \A d \in Delegator, v \in Validator :
         delegations[d][v].accumulated_rewards + n <= MaxReward
    /\ delegations' = [d \in Delegator |-> [v \in Validator |->
         LET old == delegations[d][v]
         IN  IF old.exists
             THEN Entry(old.amount, old.unbonding_amount, old.can_redelegate,
                        old.accumulated_rewards + n)
             ELSE old]]
    /\ UNCHANGED <<funds, began>>

Unbonding(d) ==
    SumFunction([v \in Validator |-> delegations[d][v].unbonding_amount])

ForwardWithoutPaying ==
    /\ ~Open
    /\ delegations' = [d \in Delegator |-> [v \in Validator |->
         [delegations[d][v] EXCEPT !.unbonding_amount = 0,
                                   !.can_redelegate = delegations[d][v].amount]]]
    /\ UNCHANGED <<funds, began>>

\* Nothing resets unbonding_amount once it has been paid.
FastForwardDelegationWaits ==
    /\ ~Open
    /\ delegations' = [d \in Delegator |-> [v \in Validator |->
         LET old == delegations[d][v]
         IN  [exists |-> old.exists,
              amount |-> old.amount,
              unbonding_amount |-> old.unbonding_amount,
              can_redelegate |-> old.amount,
              accumulated_rewards |-> old.accumulated_rewards]]]
    /\ \A d \in Delegator : funds[d] + Unbonding(d) <= MaxFunds
    /\ funds' = [d \in Delegator |-> funds[d] + Unbonding(d)]
    /\ UNCHANGED began

StakingNext == \/ Begin \/ Succeed \/ Fail
               \/ \E d \in Delegator, v \in Validator :
                    \/ \E n \in Amount :
                         \/ Delegate(d, v, n)
                         \/ Undelegate(d, v, n)
                         \/ \E dst \in Validator : Redelegate(d, v, dst, n)
                    \/ Withdraw(d, v)
               \/ \E n \in Reward : AddRewards(n)
               \/ FastForwardDelegationWaits

StakingSpec == StakingInit /\ [][StakingNext]_stakingVars
-----------------------------------------------------------------------------
Delegations == [Delegator -> [Validator -> Delegation]]

(* No sequence of delegations, undelegations and redelegations leaves more *)
(* to redelegate than there is: the subtractions of redelegate and         *)
(* undelegate never underflow.                                             *)
CanRedelegateBounded ==
    \A d \in Delegator, v \in Validator :
        delegations[d][v].can_redelegate <= delegations[d][v].amount

Locked(d, v) == delegations[d][v].amount - delegations[d][v].can_redelegate

(* Tokens that were redelegated to a validator cannot be redelegated       *)
(* again before the waits are forwarded: inside a transaction they leave   *)
(* that state only by being undelegated, and what may be redelegated       *)
(* grows only by what is newly paid for.                                   *)
RedelegatedStaysLocked ==
    [][Open => \A d \in Delegator, v \in Validator :
         LET old == delegations[d][v]
             new == delegations'[d][v]
         IN  /\ Locked(d, v)' >= Locked(d, v) + old.unbonding_amount
                                              - new.unbonding_amount
             /\ new.can_redelegate > old.can_redelegate =>
                  new.can_redelegate - old.can_redelegate
                      = funds[d] - funds'[d]]_stakingVars

Bonded(d)  == SumFunction([v \in Validator |-> delegations[d][v].amount])
Rewards(d) ==
    SumFunction([v \in Validator |-> delegations[d][v].accumulated_rewards])
Tokens(d) == funds[d] + Bonded(d) + Unbonding(d)

(* A message moves tokens between a delegator's balance, bonds, unbondings *)
(* and rewards, whichever validators it names, and makes or loses none.    *)
MessagesConserveTokens ==
    [][Open /\ Open' => \A d \in Delegator :
         (Tokens(d) + Rewards(d))' = Tokens(d) + Rewards(d)]_stakingVars

(* Whatever fails or is forwarded, no delegator ever ends up with fewer    *)
(* tokens, rewards aside, than it started with.  It is a lower bound: the  *)
(* code does make tokens, when a transaction fails after a delegation and  *)
(* when waits are forwarded again (FailureConservesTokens and              *)
(* ForwardConservesTokens below are violated).                             *)
NoTokenLost == \A d \in Delegator : Tokens(d) >= InitialFunds

(* README of the crate: an error reverts all state.  As the messages of    *)
(* the transaction conserve tokens, so must its failure.                   *)
FailureConservesTokens ==
    [][Fail => \A d \in Delegator :
         (Tokens(d) + Rewards(d))' = Tokens(d) + Rewards(d)]_stakingVars

(* Documentation of fast_forward_delegation_waits: unbondings are deposited*)
(* and so are no longer unbonding.                                         *)
ForwardConservesTokens ==
    [][FastForwardDelegationWaits =>
         \A d \in Delegator : Tokens(d)' = Tokens(d)]_stakingVars
=============================================================================
