-------------------------------- MODULE Cells --------------------------------
(***************************************************************************)
(* What the storage of items promises (crates/fadroma/storage): a cell for *)
(* every item of every space, each independent of all the others.  What is *)
(* put in a cell is found there until it is replaced or removed.  A new    *)
(* release of a contract, whose types may have changed, may find that what *)
(* is there can no longer be read, but finds nothing else.                 *)
(***************************************************************************)
CONSTANTS
    Cell,       \* the items
    ValueOf     \* the values that each may hold

VARIABLES
    content     \* what is in each cell: <<>>, <<value>>, or Unreadable

\* Not a value, not nothing: loading yields an error.
Unreadable == <<"not", "readable">>

Init == content = [c \in Cell |-> <<>>]

Put(c, v) == content' = [content EXCEPT ![c] = <<v>>]

Clear(c) == content' = [content EXCEPT ![c] = <<>>]

Outdate ==
    /\ DOMAIN content' = Cell
    /\ \A c \in Cell :
        \/ content'[c] = content[c]
        \/ content[c] # <<>> /\ content'[c] = Unreadable

Next ==
    \/ \E c \in Cell : \E v \in ValueOf[c] : Put(c, v)
    \/ \E c \in Cell : Clear(c)
    \/ Outdate

Spec == Init /\ [][Next]_content
===============================================================================
