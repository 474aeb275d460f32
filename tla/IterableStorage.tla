--------------------------- MODULE IterableStorage ---------------------------
(***************************************************************************)
(* The indexed collection of the contract storage library                  *)
(* (crates/fadroma/storage/iterable.rs).  A slot of the raw storage holds  *)
(* the item of an index, another one the length; the handle that the       *)
(* contract works through remembers the length once it has written it.  A  *)
(* contract opens a new handle in every call.                              *)
(***************************************************************************)
EXTENDS Naturals

CONSTANTS Item,
          Missing,    \* a slot that holds nothing
          Unknown,    \* a handle that has not written the length yet
          MaxLen      \* bound: the collection grows no longer

IterableAssumption == /\ MaxLen \in Nat
                      /\ Missing \notin Item
                      /\ Unknown \notin Nat

VARIABLES slots,        \* the item stored under each index
          stored_len,   \* the length in the storage
          cached        \* the length in the handle: self.len

ivars == <<slots, stored_len, cached>>

Index == 0..MaxLen

len == IF cached # Unknown THEN cached ELSE stored_len

SetLen(n) == stored_len' = n /\ cached' = n

SaturatingDec(n) == IF n = 0 THEN 0 ELSE n - 1

Init == /\ slots = [i \in Index |-> Missing]
        /\ stored_len = 0
        /\ cached = Unknown

Open == cached' = Unknown /\ UNCHANGED <<slots, stored_len>>

Push(x) == /\ len < MaxLen
           /\ SetLen(len + 1)
           /\ slots' = [slots EXCEPT ![len] = x]

PopFromLeaky(s) == SetLen(SaturatingDec(len)) /\ slots' = s

\* The length of an empty collection stays zero; the slot is cleared anyway.
PopFrom(s) == /\ SetLen(SaturatingDec(len))
              /\ slots' = [s EXCEPT ![SaturatingDec(len)] = Missing]

Pop == PopFrom(slots)

\* Out of bounds is an error, and changes nothing.
Set(i, x) == /\ i < len
             /\ slots' = [slots EXCEPT ![i] = x]
             /\ UNCHANGED <<stored_len, cached>>

\* update reads the slot and never looks at the length.
Update(i, x) == /\ slots[i] # Missing
                /\ slots' = [slots EXCEPT ![i] = x]
                /\ UNCHANGED <<stored_len, cached>>

SwapRemoveOffByOne(i) ==
    /\ i < len
    /\ IF i = len - 1
       THEN Pop
       ELSE PopFrom([slots EXCEPT ![i] = slots[SaturatingDec(len - 1)]])

SwapRemove(i) == /\ i < len
                 /\ IF i = len - 1
                    THEN Pop
                    ELSE PopFrom([slots EXCEPT ![i] = slots[len - 1]])

Next == \/ Open
        \/ Pop
        \/ \E x \in Item : \/ Push(x)
                           \/ \E i \in Index : Set(i, x) \/ Update(i, x)
        \/ \E i \in Index : SwapRemove(i)

Spec == Init /\ [][Next]_ivars
-----------------------------------------------------------------------------
(* Every slot is an item or empty and both lengths are in range; the       *)
(* handle's length, once known, is the stored one (len and                 *)
(* increment_index/decrement_index).                                       *)
TypeOK == /\ slots \in [Index -> Item \cup {Missing}]
          /\ stored_len \in Index
          /\ cached \in {Unknown, stored_len}

(* There is no hole below the length and no leftover above it, so that an  *)
(* iterator never unwraps a missing item and `get' needs no bounds check.  *)
Dense == \A i \in Index : slots[i] # Missing <=> i < stored_len

(* It behaves as the Vec its documentation compares it to, whatever mix of *)
(* fresh and used handles performs the calls.                              *)
Ideal == INSTANCE Vector WITH vec <- [i \in 1..stored_len |-> slots[i - 1]]
ImplementsVector == Ideal!Spec
=============================================================================
