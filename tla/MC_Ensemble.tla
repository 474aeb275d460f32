------------------------------ MODULE MC_Ensemble ------------------------------
(* Small instances of a transaction of the ensemble and of what it works   *)
(* on: the messages it runs, the instances and their storages, the bank,   *)
(* and the delegations.  They share no state but the calls that open,      *)
(* revert and commit scopes, and each behaviour exercises one of them,     *)
(* named by `part'.                                                        *)
EXTENDS EnsembleState, Staking, EnsembleBank, Responses

VARIABLE part

AllInit == /\ part \in {"messages", "instances", "bank", "staking"}
           /\ Init /\ BankInit /\ StakingInit /\ MessagesInit

AllNext == \/ /\ part = "messages" /\ MessagesNext
              /\ UNCHANGED <<part, vars, bankVars, stakingVars>>
           \/ /\ part = "instances" /\ Next
              /\ UNCHANGED <<part, bankVars, stakingVars, messageVars>>
           \/ /\ part = "bank" /\ BankNext
              /\ UNCHANGED <<part, vars, stakingVars, messageVars>>
           \/ /\ part = "staking" /\ StakingNext
              /\ UNCHANGED <<part, vars, bankVars, messageVars>>

AllSpec == AllInit /\ [][AllNext]_<<part, vars, bankVars, stakingVars, messageVars>>

Symmetry == Permutations(Address) \cup Permutations(Key) \cup Permutations(Value)
                \cup Permutations(Account) \cup Permutations(Denom)
                \cup Permutations(Validator)
=============================================================================
