------------------------------ MODULE MC_Storage ------------------------------
(* Small instances of what the storage library offers a contract: items in *)
(* their spaces, a map, and an indexed collection with its iterator.  The  *)
(* three are used side by side and share no state once their namespaces    *)
(* differ, and each behaviour exercises one of them, named by `part'.      *)
EXTENDS MC_ItemSpace, StorageMap, StorageIter

VARIABLE part

ASSUME ListAssumption == IterAssumption

AllInit == /\ part \in {"items", "map", "list"}
           /\ ItemInit /\ MapInit /\ IterInit

AllNext == \/ /\ part = "items" /\ ItemNext
              /\ UNCHANGED <<part, mapVars, vars>>
           \/ /\ part = "map" /\ MapNext
              /\ UNCHANGED <<part, itemVars, vars>>
           \/ /\ part = "list" /\ IterNext
              /\ UNCHANGED <<part, itemVars, mapVars>>

AllSpec == AllInit /\ [][AllNext]_<<part, itemVars, mapVars, vars>>
=============================================================================
