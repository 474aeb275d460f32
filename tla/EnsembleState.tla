---------------------------- MODULE EnsembleState ----------------------------
(***************************************************************************)
(* The contract instances of the simulation engine, their storages, and    *)
(* the undo journal of a transaction (crates/fadroma-ensemble/src/state.rs *)
(* and storage.rs).  A message runs inside a scope; every write records    *)
(* the value it replaced, and a scope is reverted by replaying its records *)
(* from the FIRST to the last.  The records of the bank never touch a      *)
(* storage: EnsembleBank models them.                                      *)
(*                                                                         *)
(* `saved' is a history variable: the instances at the opening of each     *)
(* open scope.  No action reads it.                                        *)
(***************************************************************************)
EXTENDS Naturals, Sequences, FiniteSets

CONSTANTS Address,        \* addresses a contract may be instantiated at
          Key, Value,     \* keys and values of a contract's storage
          Missing,        \* a key that is not in the storage
          NoInstance,     \* an address without a contract
          MaxScopes,      \* bound: scopes open at once
          WritesPerKey    \* bound: journalled writes to one key in one scope

ASSUME EnsembleStateAssumption ==
    /\ Missing \notin Value
    /\ NoInstance \notin [Key -> Value \cup {Missing}]
    /\ MaxScopes \in Nat \ {0}
    /\ WritesPerKey \in Nat \ {0}

VARIABLES instances, scopes, saved

vars == <<instances, scopes, saved>>

Storage == [Key -> Value \cup {Missing}]
Instances == [Address -> Storage \cup {NoInstance}]

CreateOp == [op : {"create"}, address : Address]
WriteOp == [op : {"write"}, address : Address, key : Key,
            old : Value \cup {Missing}]
Op == CreateOp \cup WriteOp
-----------------------------------------------------------------------------
(* Reverting: `journal' is a sequence of scopes, `world' the instances.     *)

Creates(scope, a) == \E n \in DOMAIN scope : scope[n].op = "create"
                                          /\ scope[n].address = a

WritesTo(scope, a, k) ==
    {n \in DOMAIN scope : /\ scope[n].op = "write"
                          /\ scope[n].address = a
                          /\ scope[n].key = k}

\* A scope is replayed forwards, so what its last record of a key holds stays.
Restored(scope, a, k) ==
    scope[CHOOSE n \in WritesTo(scope, a, k) :
            \A m \in WritesTo(scope, a, k) : m <= n].old

\* The scopes from the i-th on that hold a record of the key.
Touching(journal, i, a, k) ==
    {s \in i..Len(journal) : WritesTo(journal[s], a, k) # {}}

\* Scopes are reverted newest first, so the oldest that touched a key decides.
NewestDecides(world, journal, i, a, k) ==
    LET touching == Touching(journal, i, a, k)
    IN  IF touching = {}
        THEN world[a][k]
        ELSE Restored(journal[CHOOSE s \in touching :
                                \A t \in touching : s >= t], a, k)

KeyReverted(world, journal, i, a, k) ==
    LET touching == Touching(journal, i, a, k)
    IN  IF touching = {}
        THEN world[a][k]
        ELSE Restored(journal[CHOOSE s \in touching :
                                \A t \in touching : s <= t], a, k)

Gone(world, journal, i, a) ==
    \/ world[a] = NoInstance
    \/ \E s \in i..Len(journal) : Creates(journal[s], a)

\* The instances once the scopes i, i + 1, ... have been reverted.
Reverted(world, journal, i) ==
    [a \in Address |-> IF Gone(world, journal, i, a)
                       THEN NoInstance
                       ELSE [k \in Key |-> KeyReverted(world, journal, i, a, k)]]
-----------------------------------------------------------------------------
(* The operations of State and TestStorage.                                *)

Init == /\ instances = [a \in Address |-> NoInstance]
        /\ scopes = <<>>
        /\ saved = <<>>

PushScope == /\ Len(scopes) < MaxScopes
             /\ scopes' = Append(scopes, <<>>)
             /\ saved' = Append(saved, instances)
             /\ UNCHANGED instances

InScope == scopes # <<>>
Top == scopes[Len(scopes)]
Record(op) == scopes' = [scopes EXCEPT ![Len(scopes)] = Append(Top, op)]

\* A scope is opened for one message or reply, which runs one contract.
RunsIn(a) == \A i \in DOMAIN Top : Top[i].address = a

\* An occupied address is an error and changes nothing.
CreateContractInstance(a) ==
    /\ InScope
    /\ Top = <<>>
    /\ instances[a] = NoInstance
    /\ instances' = [instances EXCEPT ![a] = [k \in Key |-> Missing]]
    /\ Record([op |-> "create", address |-> a])
    /\ UNCHANGED saved

MayWrite(a, k) ==
    /\ InScope
    /\ RunsIn(a)
    /\ instances[a] # NoInstance
    /\ Cardinality(WritesTo(Top, a, k)) < WritesPerKey

WriteThenRecord(a, k, new) ==
    /\ instances' = [instances EXCEPT ![a][k] = new]
    /\ Record([op |-> "write", address |-> a, key |-> k, old |-> new])
    /\ UNCHANGED saved

Write(a, k, new) ==
    /\ instances' = [instances EXCEPT ![a][k] = new]
    /\ Record([op |-> "write", address |-> a, key |-> k,
               old |-> instances[a][k]])
    /\ UNCHANGED saved

StorageSet(a, k, v) == MayWrite(a, k) /\ Write(a, k, v)

\* Removing a key that is not there is not recorded and changes nothing.
StorageRemove(a, k) == /\ MayWrite(a, k)
                       /\ instances[a][k] # Missing
                       /\ Write(a, k, Missing)

RevertKeepsScope(i) == /\ instances' = Reverted(instances, scopes, i)
                       /\ scopes' = SubSeq(scopes, 1, i)
                       /\ saved' = SubSeq(saved, 1, i - 1)

RevertTo(i) == /\ instances' = Reverted(instances, scopes, i)
               /\ scopes' = SubSeq(scopes, 1, i - 1)
               /\ saved' = SubSeq(saved, 1, i - 1)

\* execute_messages reverts as many scopes as the error that was caught cost.
RevertScopes == \E i \in 1..Len(scopes) : RevertTo(i)

Commit == /\ InScope
          /\ scopes' = <<>>
          /\ saved' = <<>>
          /\ UNCHANGED instances

Next == \/ PushScope
        \/ \E a \in Address :
             \/ CreateContractInstance(a)
             \/ \E k \in Key : \/ \E v \in Value : StorageSet(a, k, v)
                               \/ StorageRemove(a, k)
        \/ RevertScopes
        \/ Commit

Spec == Init /\ [][Next]_vars
-----------------------------------------------------------------------------
TypeOK == /\ instances \in Instances
          /\ scopes \in Seq(Seq(Op))
          /\ saved \in Seq(Instances)
          /\ Len(saved) = Len(scopes)

(* Whatever the nesting, reverting back to an open scope finds again the   *)
(* instances and every stored value as they were when that scope was       *)
(* opened: state.rs revert and revert_scope rebuild the past from the      *)
(* records alone.                                                          *)
RollbackIsExact == \A i \in 1..Len(scopes) : Reverted(instances, scopes, i) = saved[i]

(* The documentation of contract_storage_mut and the crate's README: when  *)
(* the outermost call fails, nothing that ran inside it leaves a trace.    *)
FailureLeavesNoTrace ==
    [][InScope /\ RevertTo(1) => instances' = saved[1]]_vars

(* The journal implements nested transactions.                             *)
Nested == INSTANCE Transactions WITH
            World <- Instances, world <- instances, opened <- saved
ImplementsTransactions == Nested!Spec
=============================================================================
