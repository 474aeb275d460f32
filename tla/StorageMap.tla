------------------------------ MODULE StorageMap ------------------------------
(***************************************************************************)
(* The maps of the contract storage library (crates/fadroma/storage/map.rs)*)
(* are an IterableStorage of entries and, for every key, the index of its  *)
(* entry.  Map keeps the key in the entry as well: removing an entry moves *)
(* the last one into its place, and the index of the key that was moved    *)
(* must be corrected.  InsertOnlyMap has no Remove and keeps no keys.      *)
(***************************************************************************)
EXTENDS Naturals, FiniteSets

CONSTANTS Key, Value,
          NoEntry, NoLength,
          NoIndex,      \* a key under which no index is stored
          MaxEntries,   \* bound: the entries that fit
          Removable     \* TRUE for Map, FALSE for InsertOnlyMap

Entry == [key : Key, item : Value]

ASSUME StorageMapAssumption ==
    /\ MaxEntries \in Nat
    /\ NoIndex \notin Nat
    /\ NoLength \notin Nat
    /\ NoEntry \notin Entry
    /\ Removable \in BOOLEAN

VARIABLES entries, entries_len, entries_cached,   \* the entries
          index                        \* the index stored under each key

mapVars == <<entries, entries_len, entries_cached, index>>

Entries == INSTANCE IterableStorage
               WITH Item <- Entry, Missing <- NoEntry, Unknown <- NoLength, MaxLen <- MaxEntries,
                    slots <- entries, stored_len <- entries_len, cached <- entries_cached

MapInit == Entries!Init /\ index = [k \in Key |-> NoIndex]

\* Every call of the contract works through maps made anew.
New == Entries!Open /\ UNCHANGED index

SaveIndex(k, i) == index' = [index EXCEPT ![k] = i]

PushItem(k, e) == Entries!Push(e) /\ SaveIndex(k, Entries!len)

\* insert of a new key, and get_or_insert, get_or_insert_with and
\* get_or_insert_default, which only read the entry of a key that has one.
Add(k, v) == /\ index[k] = NoIndex
             /\ PushItem(k, [key |-> k, item |-> v])

\* insert of a key that has an entry.
Overwrite(k, v) == /\ index[k] # NoIndex
                   /\ Entries!Set(index[k], [key |-> k, item |-> v])
                   /\ UNCHANGED index

RemoveKeepsIndex(k) ==
    LET i == index[k]
        swapped == entries[Entries!len - 1].key
    IN  /\ Removable
        /\ i # NoIndex
        /\ Entries!SwapRemove(i)
        /\ index' = IF i = Entries!len - 1
                    THEN index
                    ELSE [index EXCEPT ![swapped] = i]

RemoveUnindexesSwapped(k) ==
    LET i == index[k]
        swapped == entries[Entries!len - 1].key
    IN  /\ Removable
        /\ i # NoIndex
        /\ Entries!SwapRemove(i)
        /\ index' = [index EXCEPT ![k] = NoIndex, ![swapped] = NoIndex]

Remove(k) ==
    LET i == index[k]
        removed == [index EXCEPT ![k] = NoIndex]
        swapped == entries[Entries!len - 1].key
    IN  /\ Removable
        /\ i # NoIndex
        /\ Entries!SwapRemove(i)
        /\ index' = IF i = Entries!len - 1
                    THEN removed
                    ELSE [removed EXCEPT ![swapped] = i]

MapNext == \/ New
           \/ \E k \in Key : \/ Remove(k)
                             \/ \E v \in Value : Add(k, v) \/ Overwrite(k, v)

MapSpec == MapInit /\ [][MapNext]_mapVars
-----------------------------------------------------------------------------
(* Types, that a handle's length is the stored one, and that an index is   *)
(* one of a slot that may hold an entry.                                   *)
MapTypeOK == /\ Entries!TypeOK
             /\ index \in [Key -> 0..(MaxEntries - 1) \cup {NoIndex}]

(* The two structures agree: the index of a key leads to that key's entry, *)
(* and every entry is the one its own key leads to, so that no entry is    *)
(* unreachable, duplicated, or reachable under another key.                *)
Consistent ==
    /\ \A k \in Key : index[k] # NoIndex =>
           /\ index[k] < entries_len
           /\ entries[index[k]].key = k
    /\ \A i \in Entries!Index : i < entries_len =>
           entries[i] # NoEntry /\ index[entries[i].key] = i

(* Without removals it is good for ever, as InsertOnlyMap promises.        *)
IndexIsStable == [][\A k \in Key : index[k] # NoIndex => index'[k] = index[k]]_mapVars

(* It behaves as a map: after any sequence of insertions and removals a    *)
(* key finds the value last written under it.                              *)
Stored == {k \in Key : index[k] # NoIndex}
Abstract == INSTANCE KeyValueMap
                WITH map <- [k \in Stored |-> entries[index[k]].item]
ImplementsMap == Abstract!Spec
=============================================================================
