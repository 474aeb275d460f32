----------------------------- MODULE StorageIter -----------------------------
(***************************************************************************)
(* The iterator of the storage collections (Iter in                        *)
(* crates/fadroma/storage/iterable.rs), over the collection of             *)
(* IterableStorage.  It takes the length once, walks from both ends, and   *)
(* unwraps whatever it loads.  The collection cannot change under it: it   *)
(* holds a shared reference to the storage.  Positions are u64.            *)
(***************************************************************************)
EXTENDS IterableStorage, FiniteSets

CONSTANTS Top,     \* u64::MAX
          End      \* what the iterator gives out when it is exhausted: None

IterAssumption == IterableAssumption /\ Top \in Nat /\ MaxLen <= Top /\ End \notin Nat

VARIABLES walking,       \* an iterator is alive
          current, end,  \* the window it still has to walk
          given          \* the position it loaded last

window == <<current, end, given>>
vars == <<slots, stored_len, cached, walking, window>>

Position == 0..Top

SaturatingAdd(i, n) == IF i + n > Top THEN Top ELSE i + n
SaturatingSub(i, n) == IF n > i THEN 0 ELSE i - n
WrappingAdd(i, n) == (i + n) % (Top + 1)

IterInit == /\ Init
            /\ walking = FALSE
            /\ current = 0 /\ end = 0 /\ given = End

\* iter: the length is the handle's, or is read from the storage.
IterOpen == /\ ~walking
            /\ walking' = TRUE
            /\ current' = 0 /\ end' = len /\ given' = End
            /\ UNCHANGED ivars

IterDrop == /\ walking
            /\ walking' = FALSE
            /\ current' = 0 /\ end' = 0 /\ given' = End
            /\ UNCHANGED ivars

Walk(i, c, e) == /\ walking
                 /\ given' = i /\ current' = c /\ end' = e
                 /\ UNCHANGED <<ivars, walking>>

\* next, when the window starts at c.
NextFrom(c) == \/ c >= end /\ Walk(End, c, end)
               \/ c < end /\ Walk(c, c + 1, end)

LateDecrement(e) == \/ current >= e /\ Walk(End, current, e)
                    \/ current < e /\ Walk(e, current, e - 1)

\* next_back, when the window ends at e.
NextBackBefore(e) == \/ current >= e /\ Walk(End, current, e)
                     \/ current < e /\ Walk(e - 1, current, e - 1)

NthWrapping(n) == NextFrom(WrappingAdd(current, n))

Nth(n) == NextFrom(SaturatingAdd(current, n))

NthBack(n) == NextBackBefore(SaturatingSub(end, n))

SizeHint == SaturatingSub(end, current)

IterNext == \/ ~walking /\ Next /\ UNCHANGED <<walking, window>>
            \/ IterOpen \/ IterDrop
            \/ NextFrom(current) \/ NextBackBefore(end)
            \/ \E n \in Position : Nth(n) \/ NthBack(n)

IterSpec == IterInit /\ [][IterNext]_vars
-----------------------------------------------------------------------------
Window == {i \in Position : current <= i /\ i < end}

(* What it loads is there, so that the unwraps of load_next cannot panic:  *)
(* it relies on a collection without holes below the length it was given.  *)
(* And ExactSizeIterator::len is the number of items to come, also when    *)
(* both ends have met or nth has gone past the end.                        *)
LoadsWhatItCounts == /\ given # End => given \in Index /\ slots[given] # Missing
                     /\ SizeHint = Cardinality(Window)

(* However next, nth, next_back and nth_back are mixed, and however large  *)
(* their arguments, it gives out what a double-ended iterator must.        *)
DE == INSTANCE DoubleEnded WITH remaining <- Window
ImplementsDoubleEnded == DE!Spec
=============================================================================
