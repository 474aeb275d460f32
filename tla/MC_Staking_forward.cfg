SPECIFICATION StakingSpec
CONSTANTS
    Delegator = {alice}
    Validator = {v1, v2}
    InitialFunds = 2
    Amount = {1, 2}
    Reward = {1}
    MaxReward = 1
    MaxStake = 2
    MaxFunds = 4

PROPERTIES ForwardConservesTokens
