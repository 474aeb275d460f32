----------------------------- MODULE DoubleEnded -----------------------------
(***************************************************************************)
(* What a double-ended iterator over the positions 0..n-1 promises: it     *)
(* gives out each position at most once, the least remaining one from the  *)
(* front and the greatest from the back; nth and nth_back discard some     *)
(* first, and an exhausted iterator stays exhausted until a new one is     *)
(* opened in its place.                                                    *)
(***************************************************************************)
EXTENDS Naturals, FiniteSets

CONSTANT End      \* what an exhausted iterator gives out

VARIABLES remaining, given

Below(i) == {j \in remaining : j < i}
Above(i) == {j \in remaining : j > i}

Fresh == /\ remaining = 0..(Cardinality(remaining) - 1)
         /\ given = End

Init == Fresh

Reopen == Fresh'

Exhausted == /\ remaining' = {}
             /\ given' = End

Nth(n) == IF n >= Cardinality(remaining)
          THEN Exhausted
          ELSE \E i \in remaining : /\ Cardinality(Below(i)) = n
                                    /\ given' = i
                                    /\ remaining' = Above(i)

NthBack(n) == IF n >= Cardinality(remaining)
              THEN Exhausted
              ELSE \E i \in remaining : /\ Cardinality(Above(i)) = n
                                        /\ given' = i
                                        /\ remaining' = Below(i)

Next == \/ Reopen
        \/ \E n \in 0..Cardinality(remaining) : Nth(n) \/ NthBack(n)

Spec == Init /\ [][Next]_<<remaining, given>>
=============================================================================
