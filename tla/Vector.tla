-------------------------------- MODULE Vector --------------------------------
(***************************************************************************)
(* What an indexed collection promises: "just like a Vec".  Items are      *)
(* appended, overwritten in place, taken from the end, or removed by       *)
(* moving the last one into the hole.                                      *)
(***************************************************************************)
EXTENDS Naturals, Sequences

CONSTANT Item

VARIABLE vec

Init == vec = <<>>

PushBack(x) == vec' = Append(vec, x)

SetAt(i, x) == i \in 1..Len(vec) /\ vec' = [vec EXCEPT ![i] = x]

RemoveAt(i) == /\ i \in 1..Len(vec)
               /\ vec' = SubSeq([vec EXCEPT ![i] = vec[Len(vec)]],
                                1, Len(vec) - 1)

Next == \/ \E x \in Item : \/ PushBack(x)
                           \/ \E i \in 1..Len(vec) : SetAt(i, x)
        \/ \E i \in 1..Len(vec) : RemoveAt(i)

Spec == Init /\ [][Next]_vec
=============================================================================
