------------------------------ MODULE MC_Token ------------------------------
(* Small instances of the token's four sides: its ledger, who may ask it   *)
(* what, the pages it answers with, and whom it tells of a send.  They     *)
(* share no state but the status, and each behaviour exercises one of      *)
(* them, named by `part'.                                                  *)
EXTENDS Snip20, TokenQueries, Paging, TokenSends

CONSTANTS Parts, Other, Code

VARIABLE part

Permission(contracts, name, permissions) ==
    [allowed_tokens |-> contracts, permit_name |-> name, permissions |-> permissions]

\* One name for two permits, one of them of the owner's kind; and a permit for
\* another contract.
SomeParams ==
    {Permission({Token}, name, permissions) :
        name \in Name, permissions \in {{"Balance", "Owner"}, {"Allowance", "History"}}}
    \cup {Permission({Other}, name, {"Balance", "History"}) : name \in Name}

\* Every account is a contract, and what has no code fails as other code does.
SomeCode == [a \in Party |-> Code]

ASSUME QueriesAssumption

\* The ledger begins in one state only where it is not the matter.
AllInit == /\ part \in Parts
           /\ Init /\ QueryInit /\ ListInit /\ SendsInit
           /\ part # "ledger" => supply = 0 /\ denoms = {}

AllNext == \/ /\ part = "ledger" /\ Next
              /\ UNCHANGED <<part, queryVars, listVars, sendVars>>
           \/ /\ part = "queries" /\ QueryNext
              /\ UNCHANGED <<part, vars, listVars, sendVars>>
           \/ /\ part = "lists" /\ ListNext
              /\ UNCHANGED <<part, vars, queryVars, sendVars>>
           \/ /\ part = "sends" /\ SendsNext
              /\ UNCHANGED <<part, vars, queryVars, listVars>>

AllSpec == AllInit /\ [][AllNext]_<<part, vars, queryVars, listVars, sendVars>>

AllEnabled == TokenPermission
OneDecoy   == {<<a>> : a \in Address}

Symmetry   == Permutations(Address) \cup Permutations(Denom)
=============================================================================
