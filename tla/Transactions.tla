----------------------------- MODULE Transactions -----------------------------
(***************************************************************************)
(* The promise of a journal of nested scopes: a scope that is rolled back  *)
(* leaves the world exactly as it was when the scope was opened, and a     *)
(* commit closes every open scope at once.  Nothing is said of how the     *)
(* earlier worlds are found again.                                         *)
(***************************************************************************)
EXTENDS Naturals, Sequences

CONSTANT World

VARIABLES world,    \* what the transaction works on
          opened    \* the world at the opening of each open scope, oldest first

tvars == <<world, opened>>

Init == /\ world \in World
        /\ opened = <<>>

Begin == /\ opened' = Append(opened, world)
         /\ UNCHANGED world

\* Work is done inside the scopes, or outside of any transaction.
Update == /\ world' \in World
          /\ UNCHANGED opened

RollbackTo(i) == /\ world' = opened[i]
                 /\ opened' = SubSeq(opened, 1, i - 1)

CommitAll == /\ opened # <<>>
             /\ opened' = <<>>
             /\ UNCHANGED world

Next == \/ Begin
        \/ Update
        \/ \E i \in 1..Len(opened) : RollbackTo(i)
        \/ CommitAll

Spec == Init /\ [][Next]_tvars
=============================================================================
