----------------------------- MODULE StorageProofs -----------------------------
(***************************************************************************)
(* Proofs about the storage collections, for any items, keys and lengths:  *)
(* IterableStorage has no holes and is a vector, its iterator loads what   *)
(* is there and counts what is left, and StorageMap finds every entry      *)
(* under its own key and is a map.  Of what is stored, numbers, lengths    *)
(* and strings of bytes are read back as they were written.                *)
(***************************************************************************)
EXTENDS StorageIter, StorageMap, Primitives, Sums, SequenceTheorems, TLAPS

IInv == TypeOK /\ Dense

LEMMA InitIInv == ASSUME IterableAssumption PROVE Init => IInv
BY DEF IterableAssumption, Init, IInv, TypeOK, Dense, Index

\* The length of a handle, fresh or used, is the stored one.
LEMMA HandleLen ==
    ASSUME IterableAssumption, IInv
    PROVE  /\ len = stored_len /\ stored_len \in Nat /\ stored_len <= MaxLen
           /\ SaturatingDec(stored_len) \in Index
           /\ stored_len # 0 => SaturatingDec(stored_len) = stored_len - 1
BY DEF IterableAssumption, IInv, TypeOK, Index, len, SaturatingDec

LEMMA PushIInv == ASSUME IterableAssumption, IInv, NEW x \in Item, Push(x) PROVE IInv'
BY HandleLen DEF IterableAssumption, IInv, TypeOK, Dense, Index, Push, SetLen

LEMMA PopIInv == ASSUME IterableAssumption, IInv, Pop PROVE IInv'
<1>1. CASE stored_len = 0
  BY <1>1, HandleLen DEF IterableAssumption, IInv, TypeOK, Dense, Index, Pop, PopFrom, SetLen, SaturatingDec
<1>2. CASE stored_len # 0
  BY <1>2, HandleLen DEF IterableAssumption, IInv, TypeOK, Dense, Index, Pop, PopFrom, SetLen
<1> QED BY <1>1, <1>2

\* An index whose slot holds an item is below the length, and vice versa.
LEMMA WriteIInv ==
    ASSUME IterableAssumption, IInv, NEW i \in Index, NEW x \in Item, Set(i, x) \/ Update(i, x)
    PROVE  IInv' /\ i < stored_len
BY HandleLen DEF IterableAssumption, IInv, TypeOK, Dense, Index, Set, Update

LEMMA SwapRemoveIInv ==
    ASSUME IterableAssumption, IInv, NEW i \in Index, SwapRemove(i)
    PROVE  IInv'
<1>1. CASE i = stored_len - 1
  BY <1>1, HandleLen, PopIInv DEF SwapRemove
<1>2. CASE i # stored_len - 1
  <2>1. /\ stored_len # 0 /\ i < stored_len - 1
        /\ stored_len' = stored_len - 1 /\ cached' = stored_len - 1
        /\ slots' = [[slots EXCEPT ![i] = slots[stored_len - 1]] EXCEPT ![stored_len - 1] = Missing]
    BY <1>2, HandleLen DEF Index, SwapRemove, PopFrom, SetLen
  <2>2. slots[stored_len - 1] \in Item
    BY <2>1, HandleLen DEF IterableAssumption, IInv, TypeOK, Dense, Index
  <2> QED BY <2>1, <2>2, HandleLen DEF IterableAssumption, IInv, TypeOK, Dense, Index
<1> QED BY <1>1, <1>2

LEMMA NextIInv == ASSUME IterableAssumption PROVE IInv /\ [Next]_ivars => IInv'
<1> SUFFICES ASSUME IInv, [Next]_ivars PROVE IInv'
  OBVIOUS
<1>1. CASE Open \/ UNCHANGED ivars
  BY <1>1 DEF IInv, TypeOK, Dense, Open, ivars
<1> QED BY <1>1, PushIInv, PopIInv, WriteIInv, SwapRemoveIInv DEF Next

(* After any calls through any handles, the slots below the length are     *)
(* taken and the others are free.                                          *)
THEOREM AlwaysDense == ASSUME IterableAssumption PROVE Spec => []Dense
<1>1. IInv => Dense
  BY DEF IInv
<1> QED BY InitIInv, NextIInv, <1>1, PTL DEF Spec
-----------------------------------------------------------------------------
(* The vector.                                                             *)

Items == [i \in 1..stored_len |-> slots[i - 1]]

LEMMA ListIsSeq ==
    ASSUME NEW s, NEW n \in Nat, \A i \in 1..n : s[i - 1] \in Item
    PROVE  LET list == [i \in 1..n |-> s[i - 1]]
           IN  /\ list \in Seq(Item) /\ Len(list) = n
               /\ \A i \in 1..n : list[i] = s[i - 1]
OBVIOUS

LEMMA ItemsAreSeq ==
    ASSUME IterableAssumption, IInv
    PROVE  /\ Items \in Seq(Item) /\ Len(Items) = stored_len
           /\ \A i \in 1..stored_len : Items[i] = slots[i - 1] /\ slots[i - 1] \in Item
<1>1. \A i \in 1..stored_len : slots[i - 1] \in Item
  BY HandleLen DEF IterableAssumption, IInv, TypeOK, Dense, Index
<1> QED BY <1>1, HandleLen, ListIsSeq DEF Items

LEMMA ItemsNext ==
    ASSUME IterableAssumption, IInv'
    PROVE  /\ Items' \in Seq(Item) /\ Len(Items') = stored_len'
           /\ \A i \in 1..stored_len' : Items'[i] = slots'[i - 1] /\ slots'[i - 1] \in Item
<1>1. stored_len' \in Nat /\ \A i \in 1..stored_len' : slots'[i - 1] \in Item
  BY DEF IterableAssumption, IInv, TypeOK, Dense, Index
<1> QED BY <1>1, ListIsSeq DEF Items

LEMMA PushAppends ==
    ASSUME IterableAssumption, IInv, IInv', NEW x \in Item, Push(x)
    PROVE  Items' = Append(Items, x)
<1>1. stored_len' = stored_len + 1 /\ stored_len < MaxLen /\ slots' = [slots EXCEPT ![stored_len] = x]
  BY HandleLen DEF Push, SetLen
<1>2. /\ Append(Items, x) \in Seq(Item) /\ Len(Append(Items, x)) = stored_len + 1
      /\ \A i \in 1..(stored_len + 1) :
           Append(Items, x)[i] = IF i = stored_len + 1 THEN x ELSE slots[i - 1]
  BY ItemsAreSeq, HandleLen
<1>3. \A i \in 1..(stored_len + 1) :
         slots'[i - 1] = IF i = stored_len + 1 THEN x ELSE slots[i - 1]
  BY <1>1, HandleLen DEF IInv, TypeOK, Index
<1> QED BY <1>1, <1>2, <1>3, ItemsNext, SeqEqual

LEMMA WriteSets ==
    ASSUME IterableAssumption, IInv, IInv', NEW i \in Index, NEW x \in Item, Set(i, x) \/ Update(i, x)
    PROVE  i + 1 \in 1..stored_len /\ Items' = [Items EXCEPT ![i + 1] = x]
<1>1. i < stored_len /\ stored_len' = stored_len /\ slots' = [slots EXCEPT ![i] = x]
  BY WriteIInv DEF Set, Update
<1>2. i + 1 \in 1..stored_len
  BY <1>1, HandleLen DEF IterableAssumption, Index
<1>3. /\ [Items EXCEPT ![i + 1] = x] \in Seq(Item) /\ Len([Items EXCEPT ![i + 1] = x]) = stored_len
      /\ \A j \in 1..stored_len :
           [Items EXCEPT ![i + 1] = x][j] = IF j = i + 1 THEN x ELSE slots[j - 1]
  BY <1>2, ItemsAreSeq, ExceptSeq
<1>4. \A j \in 1..stored_len : slots'[j - 1] = IF j = i + 1 THEN x ELSE slots[j - 1]
  BY <1>1, HandleLen DEF IterableAssumption, IInv, TypeOK, Index
<1> QED BY <1>1, <1>2, <1>3, <1>4, ItemsNext, SeqEqual

\* The vector without its i-th item, whose place the last one takes.
Without(i) == SubSeq([Items EXCEPT ![i] = Items[Len(Items)]], 1, Len(Items) - 1)

LEMMA WithoutItem ==
    ASSUME IterableAssumption, IInv, NEW i \in 1..stored_len
    PROVE  /\ Without(i) \in Seq(Item) /\ Len(Without(i)) = stored_len - 1
           /\ \A j \in 1..(stored_len - 1) :
                Without(i)[j] = IF j = i THEN slots[stored_len - 1] ELSE slots[j - 1]
<1> DEFINE moved == [Items EXCEPT ![i] = Items[Len(Items)]]
<1>1. stored_len \in Nat /\ stored_len \in 1..stored_len
  BY HandleLen
<1>2. Len(Items) = stored_len /\ Items[Len(Items)] = slots[stored_len - 1] /\ Items[Len(Items)] \in Item
  BY <1>1, ItemsAreSeq
<1>3. /\ moved \in Seq(Item) /\ Len(moved) = stored_len
      /\ \A j \in 1..stored_len : moved[j] = IF j = i THEN slots[stored_len - 1] ELSE slots[j - 1]
  BY <1>2, ItemsAreSeq, ExceptSeq
<1> HIDE DEF moved
<1>4. \A j \in 1..(stored_len - 1) : moved[j] \in Item
  BY <1>1, <1>3, ElementOfSeq
<1>5. /\ SubSeq(moved, 1, stored_len - 1) \in Seq(Item)
      /\ Len(SubSeq(moved, 1, stored_len - 1)) = stored_len - 1
      /\ \A j \in 1..(stored_len - 1) : SubSeq(moved, 1, stored_len - 1)[j] = moved[j]
  BY <1>1, <1>4, SubSeqProperties
<1> QED BY <1>1, <1>2, <1>3, <1>5 DEF Without, moved

LEMMA RemoveTakes ==
    ASSUME IterableAssumption, IInv, IInv', NEW i \in Index, SwapRemove(i)
    PROVE  i + 1 \in 1..stored_len /\ Items' = Without(i + 1)
<1>1. i + 1 \in 1..stored_len /\ stored_len # 0
  BY HandleLen DEF IterableAssumption, Index, SwapRemove
<1>2. /\ stored_len' = stored_len - 1
      /\ slots' = [(IF i = stored_len - 1 THEN slots ELSE [slots EXCEPT ![i] = slots[stored_len - 1]])
                     EXCEPT ![stored_len - 1] = Missing]
  BY <1>1, HandleLen DEF SwapRemove, Pop, PopFrom, SetLen
<1>3. \A j \in 1..(stored_len - 1) :
         slots'[j - 1] = IF j = i + 1 THEN slots[stored_len - 1] ELSE slots[j - 1]
  BY <1>1, <1>2, HandleLen DEF IterableAssumption, IInv, TypeOK, Index
<1>4. /\ Without(i + 1) \in Seq(Item) /\ Len(Without(i + 1)) = stored_len - 1
      /\ \A j \in 1..(stored_len - 1) :
           Without(i + 1)[j] = IF j = i + 1 THEN slots[stored_len - 1] ELSE slots[j - 1]
  BY <1>1, WithoutItem
<1>5. /\ Items' \in Seq(Item) /\ Len(Items') = stored_len - 1
      /\ \A j \in 1..(stored_len - 1) : Items'[j] = slots'[j - 1]
  BY <1>2, ItemsNext
<1>6. Items' = Without(i + 1)
  BY <1>3, <1>4, <1>5, SeqEqual
<1> QED BY <1>1, <1>6

LEMMA PopTakes ==
    ASSUME IterableAssumption, IInv, IInv', Pop
    PROVE  \/ UNCHANGED Items
           \/ stored_len \in 1..stored_len /\ Items' = Without(stored_len)
<1>1. CASE stored_len = 0
  <2>1. stored_len' = 0
    BY <1>1, HandleLen DEF Pop, PopFrom, SetLen, SaturatingDec
  <2> QED BY <1>1, <2>1, ItemsAreSeq, ItemsNext, SeqEqual
<1>2. CASE stored_len # 0
  <2>1. stored_len \in 1..stored_len /\ stored_len' = stored_len - 1
        /\ slots' = [slots EXCEPT ![stored_len - 1] = Missing]
    BY <1>2, HandleLen DEF Pop, PopFrom, SetLen
  <2>2. \A j \in 1..(stored_len - 1) : slots'[j - 1] = slots[j - 1]
    BY <2>1, HandleLen DEF IterableAssumption, IInv, TypeOK, Index
  <2> QED BY <2>1, <2>2, HandleLen, WithoutItem, ItemsNext, SeqEqual
<1> QED BY <1>1, <1>2

(* It is a vector: every call is one step on the items below the length,   *)
(* or none that anybody could notice.                                      *)
THEOREM IsVector == ASSUME IterableAssumption PROVE Spec => ImplementsVector
<1>1. Init => Ideal!Init
  <2> SUFFICES ASSUME stored_len = 0 PROVE Items = <<>>
    BY DEF Init, Ideal!Init, Items
  <2>1. Items = [i \in 1..0 |-> slots[i - 1]]
    BY DEF Items
  <2> QED BY <2>1
<1>2. IInv /\ IInv' /\ [Next]_ivars => [Ideal!Next]_Items
  <2> SUFFICES ASSUME IInv, IInv', [Next]_ivars
               PROVE  Ideal!Next \/ UNCHANGED Items
    OBVIOUS
  <2>1. CASE Open \/ UNCHANGED ivars
    BY <2>1 DEF Open, ivars, Items
  <2>2. ASSUME NEW x \in Item, Push(x) PROVE Ideal!Next
    BY <2>2, PushAppends DEF Ideal!Next, Ideal!PushBack, Items
  <2>3. ASSUME NEW x \in Item, NEW i \in Index, Set(i, x) \/ Update(i, x)
        PROVE  Ideal!Next
    <3>1. i + 1 \in 1..Len(Items) /\ Items' = [Items EXCEPT ![i + 1] = x]
      BY <2>3, WriteSets, ItemsAreSeq
    <3> QED BY <3>1 DEF Ideal!Next, Ideal!SetAt, Items
  <2>4. ASSUME NEW i \in 1..stored_len, Items' = Without(i)
        PROVE  Ideal!Next
    <3>1. i \in 1..Len(Items)
      BY ItemsAreSeq
    <3> QED BY <2>4, <3>1 DEF Ideal!Next, Ideal!RemoveAt, Without, Items
  <2>5. CASE Pop
    BY <2>4, <2>5, PopTakes
  <2>6. ASSUME NEW i \in Index, SwapRemove(i) PROVE Ideal!Next
    BY <2>4, <2>6, RemoveTakes
  <2> QED BY <2>1, <2>2, <2>3, <2>5, <2>6 DEF Next
<1> QED BY InitIInv, NextIInv, <1>1, <1>2, PTL DEF Spec, ImplementsVector, Ideal!Spec, Items
-----------------------------------------------------------------------------
(* The iterator.                                                           *)

\* The window ends where the collection did when the iterator was opened, and
\* may begin anywhere up to the greatest number.
WindowInv == /\ current \in 0..Top
             /\ end \in Nat /\ end <= stored_len
             /\ given # End => given \in Nat /\ given < stored_len
             /\ ~walking => given = End /\ current = 0 /\ end = 0

IterInv == IInv /\ WindowInv

\* The length an iterator starts from is within the numbers it counts with.
LEMMA LengthFits ==
    ASSUME IterAssumption, IterInv
    PROVE  len = stored_len /\ stored_len \in 0..MaxLen /\ stored_len <= Top
           /\ stored_len \in Nat /\ Top \in Nat /\ MaxLen \in Nat
<1>1. IterableAssumption /\ IInv
  BY DEF IterAssumption, IterInv
<1>2. len = stored_len
  BY <1>1, HandleLen
<1>3. stored_len \in 0..MaxLen /\ MaxLen \in Nat
  BY <1>1 DEF IterableAssumption, IInv, TypeOK, Index
<1> QED BY <1>2, <1>3 DEF IterAssumption

LEMMA SaturatedAdd ==
    ASSUME IterAssumption, NEW c \in 0..Top, NEW n \in Position
    PROVE  SaturatingAdd(c, n) \in 0..Top
BY DEF IterAssumption, Position, SaturatingAdd

LEMMA SaturatedSub ==
    ASSUME NEW e \in Nat, NEW n \in Nat
    PROVE  SaturatingSub(e, n) \in Nat /\ SaturatingSub(e, n) <= e
BY DEF SaturatingSub

LEMMA NextWindow ==
    ASSUME IterAssumption, IterInv, NEW c \in 0..Top, NextFrom(c)
    PROVE  IterInv'
<1>1. IInv'
  BY DEF NextFrom, Walk, IterInv, IInv, TypeOK, Dense, ivars
<1>2. stored_len \in Nat /\ stored_len <= Top
  BY LengthFits
<1>3. WindowInv'
  BY <1>2 DEF IterAssumption, NextFrom, Walk, IterInv, WindowInv, ivars
<1> QED BY <1>1, <1>3 DEF IterInv

LEMMA BackWindow ==
    ASSUME IterAssumption, IterInv, NEW e \in Nat, e <= end, NextBackBefore(e)
    PROVE  IterInv'
<1>1. IInv'
  BY DEF NextBackBefore, Walk, IterInv, IInv, TypeOK, Dense, ivars
<1>2. stored_len \in Nat /\ stored_len <= Top
  BY LengthFits
<1>3. WindowInv'
  BY <1>2 DEF IterAssumption, NextBackBefore, Walk, IterInv, WindowInv, ivars
<1> QED BY <1>1, <1>3 DEF IterInv

LEMMA InitIterInv == ASSUME IterAssumption PROVE IterInit => IterInv
<1>1. IterableAssumption
  BY DEF IterAssumption
<1>2. Init => IInv
  BY <1>1, InitIInv
<1> QED BY <1>2 DEF IterAssumption, IterInit, IterInv, WindowInv, Init

LEMMA NextIterInv == ASSUME IterAssumption PROVE IterInv /\ [IterNext]_vars => IterInv'
<1> SUFFICES ASSUME IterInv, [IterNext]_vars PROVE IterInv'
  OBVIOUS
<1>1. IterableAssumption
  BY DEF IterAssumption
<1>2. CASE ~walking /\ Next /\ UNCHANGED <<walking, window>>
  <2>1. IInv'
    BY <1>1, <1>2, NextIInv DEF IterInv
  <2>2. stored_len' \in Nat
    BY <1>1, <2>1 DEF IterableAssumption, IInv, TypeOK, Index
  <2> QED BY <1>2, <2>1, <2>2 DEF IterInv, WindowInv, window
<1>3. CASE IterOpen \/ IterDrop \/ UNCHANGED vars
  <2>1. IInv'
    BY <1>3 DEF IterOpen, IterDrop, vars, ivars, IterInv, IInv, TypeOK, Dense
  <2>2. WindowInv'
    BY <1>3, LengthFits DEF IterAssumption, IterOpen, IterDrop, vars, window, ivars, IterInv, WindowInv
  <2> QED BY <2>1, <2>2 DEF IterInv
<1>4. CASE NextFrom(current)
  BY <1>4, NextWindow DEF IterInv, WindowInv
<1>5. ASSUME NEW n \in Position, Nth(n) PROVE IterInv'
  BY <1>5, NextWindow, SaturatedAdd DEF Nth, IterInv, WindowInv
<1>6. CASE NextBackBefore(end)
  BY <1>6, BackWindow DEF IterInv, WindowInv
<1>7. ASSUME NEW n \in Position, NthBack(n) PROVE IterInv'
  <2>1. n \in Nat /\ end \in Nat
    BY DEF IterAssumption, Position, IterInv, WindowInv
  <2> QED BY <1>7, <2>1, BackWindow, SaturatedSub DEF NthBack
<1> QED BY <1>2, <1>3, <1>4, <1>5, <1>6, <1>7 DEF IterNext

LEMMA WindowSize ==
    ASSUME IterAssumption, IterInv
    PROVE  SizeHint = Cardinality(Window)
<1>1. current \in Nat /\ end \in Nat /\ end <= Top
  BY LengthFits DEF IterInv, WindowInv
<1>2. Window = current..(end - 1)
  BY <1>1 DEF IterAssumption, Window, Position
<1>3. Cardinality(current..(end - 1)) = IF current > end - 1 THEN 0 ELSE end - 1 - current + 1
  BY <1>1, FS_Interval
<1> QED BY <1>1, <1>2, <1>3 DEF SizeHint, SaturatingSub

(* However an iterator is driven, and however far nth jumps, it never      *)
(* loads a slot that is empty, and its length is the number of items left. *)
THEOREM IteratorLoads == ASSUME IterAssumption PROVE IterSpec => []LoadsWhatItCounts
<1>1. IterInv => LoadsWhatItCounts
  <2> SUFFICES ASSUME IterInv PROVE LoadsWhatItCounts
    OBVIOUS
  <2>1. given # End => given \in Index /\ slots[given] # Missing
    BY LengthFits DEF IterInv, WindowInv, IInv, Dense, Index
  <2> QED BY <2>1, WindowSize DEF LoadsWhatItCounts
<1> QED BY InitIterInv, NextIterInv, <1>1, PTL DEF IterSpec

(* It gives out what a double-ended iterator must.  Windows are intervals, *)
(* and a step from c or before e gives out the position with c - current   *)
(* positions below it, or end - e above it.                                *)
LEMMA SameCardinality == \A S : DE!Cardinality(S) = Cardinality(S)
BY DEF Cardinality, DE!Cardinality

LEMMA IntervalSize ==
    ASSUME NEW a \in Nat, NEW b \in Nat
    PROVE  /\ a <= b => Cardinality(a..(b - 1)) = b - a
           /\ a >= b => a..(b - 1) = {} /\ Cardinality(a..(b - 1)) = 0
<1>1. Cardinality(a..(b - 1)) = IF a > b - 1 THEN 0 ELSE b - 1 - a + 1
  BY FS_Interval
<1>2. a >= b => a..(b - 1) = {}
  OBVIOUS
<1> QED BY <1>1, <1>2

LEMMA WindowIsInterval ==
    ASSUME IterAssumption, IterInv
    PROVE  Window = current..(end - 1) /\ current \in Nat /\ end \in Nat
<1>1. current \in Nat /\ end \in Nat /\ end <= Top /\ Top \in Nat
  BY LengthFits DEF IterInv, WindowInv
<1> QED BY <1>1 DEF Window, Position

LEMMA WindowIsNext == ASSUME IterAssumption, IterInv' PROVE Window' = current'..(end' - 1)
<1>1. current' \in Nat /\ end' \in Nat /\ end' <= Top /\ Top \in Nat
  BY DEF IterAssumption, IterableAssumption, IterInv, WindowInv, IInv, TypeOK, Index
<1> QED BY <1>1 DEF Window, Position

LEMMA ForwardGives ==
    ASSUME IterAssumption, IterInv, IterInv', NEW c \in 0..Top, current <= c, NextFrom(c)
    PROVE  DE!Next
<1>1. /\ Window = current..(end - 1) /\ current \in Nat /\ end \in Nat
      /\ Window' = current'..(end' - 1)
  BY WindowIsInterval, WindowIsNext
<1>2. c \in Nat
  BY DEF IterAssumption
<1>3. CASE c >= end
  <2>1. Window' = {} /\ given' = End
    BY <1>1, <1>2, <1>3, IntervalSize DEF NextFrom, Walk
  <2>2. Cardinality(Window) \in Nat
    BY <1>1, IntervalSize
  <2>3. DE!Nth(Cardinality(Window))
    BY <2>1, <2>2, SameCardinality DEF DE!Nth, DE!Exhausted
  <2> QED BY <2>2, <2>3, SameCardinality DEF DE!Next
<1>4. CASE c < end
  <2>1. c \in Window /\ given' = c /\ current' = c + 1 /\ end' = end
    BY <1>1, <1>2, <1>4 DEF NextFrom, Walk
  <2>2. DE!Below(c) = current..(c - 1)
    BY <1>1, <1>2, <1>4 DEF DE!Below
  <2>3. DE!Above(c) = Window'
    BY <1>1, <1>2, <1>4, <2>1 DEF DE!Above
  <2>4. /\ Cardinality(DE!Below(c)) = c - current
        /\ Cardinality(Window) = end - current
    BY <1>1, <1>2, <1>4, <2>2, IntervalSize
  <2>5. c - current \in Nat /\ c - current < end - current /\ end - current \in Nat
    BY <1>1, <1>2, <1>4
  <2>6. DE!Nth(c - current)
    BY <2>1, <2>3, <2>4, <2>5, SameCardinality DEF DE!Nth
  <2> QED BY <2>4, <2>5, <2>6, SameCardinality DEF DE!Next
<1> QED BY <1>1, <1>2, <1>3, <1>4

LEMMA BackwardGives ==
    ASSUME IterAssumption, IterInv, IterInv', NEW e \in Nat, e <= end, NextBackBefore(e)
    PROVE  DE!Next
<1>1. /\ Window = current..(end - 1) /\ current \in Nat /\ end \in Nat
      /\ Window' = current'..(end' - 1)
  BY WindowIsInterval, WindowIsNext
<1>2. CASE current >= e
  <2>1. Window' = {} /\ given' = End
    BY <1>1, <1>2, IntervalSize DEF NextBackBefore, Walk
  <2>2. Cardinality(Window) \in Nat
    BY <1>1, IntervalSize
  <2>3. DE!NthBack(Cardinality(Window))
    BY <2>1, <2>2, SameCardinality DEF DE!NthBack, DE!Exhausted
  <2> QED BY <2>2, <2>3, SameCardinality DEF DE!Next
<1>3. CASE current < e
  <2>1. e - 1 \in Window /\ given' = e - 1 /\ current' = current /\ end' = e - 1
    BY <1>1, <1>3 DEF NextBackBefore, Walk
  <2>2. DE!Above(e - 1) = e..(end - 1)
    BY <1>1, <1>3 DEF DE!Above
  <2>3. DE!Below(e - 1) = Window'
    BY <1>1, <1>3, <2>1 DEF DE!Below
  <2>4. /\ Cardinality(DE!Above(e - 1)) = end - e
        /\ Cardinality(Window) = end - current
    BY <1>1, <1>3, <2>2, IntervalSize
  <2>5. end - e \in Nat /\ end - e < end - current /\ end - current \in Nat
    BY <1>1, <1>3
  <2>6. DE!NthBack(end - e)
    BY <2>1, <2>3, <2>4, <2>5, SameCardinality DEF DE!NthBack
  <2> QED BY <2>4, <2>5, <2>6, SameCardinality DEF DE!Next
<1> QED BY <1>1, <1>2, <1>3

THEOREM IteratorIsDoubleEnded == ASSUME IterAssumption PROVE IterSpec => ImplementsDoubleEnded
<1>1. IterInit => DE!Init
  <2> SUFFICES ASSUME current = 0, end = 0, given = End PROVE DE!Fresh
    BY DEF IterInit, DE!Init
  <2>1. Window = {}
    BY DEF Window, Position
  <2> QED BY <2>1, FS_EmptySet, SameCardinality DEF DE!Fresh
<1>2. IterInv /\ IterInv' /\ [IterNext]_vars => [DE!Next]_<<Window, given>>
  <2> SUFFICES ASSUME IterInv, IterInv', [IterNext]_vars
               PROVE  DE!Next \/ UNCHANGED <<Window, given>>
    OBVIOUS
  <2>1. current \in 0..Top /\ current \in Nat /\ end \in Nat /\ Top \in Nat
    BY LengthFits DEF IterInv, WindowInv
  <2>2. CASE UNCHANGED window
    BY <2>2 DEF window, Window
  <2>3. CASE IterOpen \/ IterDrop
    <3>1. current' = 0 /\ end' \in Nat /\ given' = End
      BY <2>3, LengthFits DEF IterOpen, IterDrop
    <3>2. Window' = 0..(end' - 1)
      BY <3>1, WindowIsNext
    <3>3. Cardinality(Window') = end'
      BY <3>1, <3>2, IntervalSize
    <3> QED BY <3>1, <3>2, <3>3, SameCardinality DEF DE!Next, DE!Reopen, DE!Fresh
  <2>4. CASE NextFrom(current)
    BY <2>1, <2>4, ForwardGives
  <2>5. ASSUME NEW n \in Position, Nth(n) PROVE DE!Next
    <3>1. SaturatingAdd(current, n) \in 0..Top /\ current <= SaturatingAdd(current, n)
      BY <2>1, SaturatedAdd DEF Position, SaturatingAdd
    <3> QED BY <2>5, <3>1, ForwardGives DEF Nth
  <2>6. CASE NextBackBefore(end)
    BY <2>1, <2>6, BackwardGives
  <2>7. ASSUME NEW n \in Position, NthBack(n) PROVE DE!Next
    <3>1. n \in Nat
      BY <2>1 DEF Position
    <3> QED BY <2>1, <2>7, <3>1, SaturatedSub, BackwardGives DEF NthBack
  <2> QED BY <2>2, <2>3, <2>4, <2>5, <2>6, <2>7 DEF IterNext, vars, window
<1> QED BY InitIterInv, NextIterInv, <1>1, <1>2, PTL DEF IterSpec, ImplementsDoubleEnded, DE!Spec
-----------------------------------------------------------------------------
(* StorageMap.  Consistent is inductive beside the types: an entry is      *)
(* found again under its own key, so the entry that a removal moves is     *)
(* under a key other than the removed one.                                 *)

MapInv == MapTypeOK /\ Consistent

(* With the types, the length of a handle is the stored one.               *)
LEMMA EntriesLen == MapTypeOK => Entries!len = entries_len /\ entries_len \in Nat
BY StorageMapAssumption
   DEF MapTypeOK, Entries!TypeOK, Entries!Index, Entries!len

LEMMA InitMapInv == MapInit => MapInv
BY StorageMapAssumption
   DEF MapInit, MapInv, MapTypeOK, Consistent, Entries!Init, Entries!TypeOK, Entries!Index

LEMMA NewMapInv == MapInv /\ New => MapInv'
BY DEF MapInv, MapTypeOK, Consistent, New, Entries!Open, Entries!TypeOK, Entries!Index

(* A pushed entry lies above all the others, under a key that had none.    *)
LEMMA AddMapInv ==
    ASSUME MapInv, NEW k \in Key, NEW v \in Value, Add(k, v)
    PROVE  MapInv'
<1> DEFINE e == [key |-> k, item |-> v]
<1>1. /\ index[k] = NoIndex
      /\ entries_len < MaxEntries
      /\ entries_len' = entries_len + 1 /\ entries_cached' = entries_len + 1
      /\ entries' = [entries EXCEPT ![entries_len] = e]
      /\ index' = [index EXCEPT ![k] = entries_len]
  BY EntriesLen DEF MapInv, Add, PushItem, SaveIndex, Entries!Push, Entries!SetLen
<1>2. e \in Entry /\ e.key = k
  BY DEF Entry
<1>3. /\ entries \in [0..MaxEntries -> Entry \cup {NoEntry}]
      /\ entries_len \in 0..MaxEntries
      /\ index \in [Key -> 0..(MaxEntries - 1) \cup {NoIndex}]
  BY DEF MapInv, MapTypeOK, Entries!TypeOK, Entries!Index
<1> HIDE DEF e
<1>4. MapTypeOK'
  BY <1>1, <1>2, <1>3, StorageMapAssumption
     DEF MapTypeOK, Entries!TypeOK, Entries!Index
<1>5. ASSUME NEW k2 \in Key, index'[k2] # NoIndex
      PROVE  index'[k2] < entries_len' /\ entries'[index'[k2]].key = k2
  BY <1>1, <1>2, <1>3, <1>5, StorageMapAssumption DEF MapInv, Consistent
<1>6. ASSUME NEW i \in Entries!Index, i < entries_len'
      PROVE  entries'[i] # NoEntry /\ index'[entries'[i].key] = i
  <2>1. CASE i = entries_len
    BY <2>1, <1>1, <1>2, <1>3, StorageMapAssumption
  <2>2. CASE i < entries_len
    <3>1. entries'[i] = entries[i]
      BY <2>2, <1>1, <1>3, <1>6 DEF Entries!Index
    <3>2. entries[i] # NoEntry /\ index[entries[i].key] = i
      BY <2>2 DEF MapInv, Consistent
    <3>3. entries[i].key \in Key /\ entries[i].key # k
      BY <3>2, <1>1, <1>3, StorageMapAssumption DEF Entries!Index, Entry
    <3> QED BY <3>1, <3>2, <3>3, <1>1, <1>3
  <2> QED BY <2>1, <2>2, <1>1, <1>3, <1>6 DEF Entries!Index
<1> QED BY <1>4, <1>5, <1>6 DEF MapInv, Consistent, Entries!Index

(* An entry is replaced by another one of the same key.                    *)
LEMMA OverwriteMapInv ==
    ASSUME MapInv, NEW k \in Key, NEW v \in Value, Overwrite(k, v)
    PROVE  MapInv'
<1> DEFINE e == [key |-> k, item |-> v]
<1>1. /\ index[k] # NoIndex
      /\ entries' = [entries EXCEPT ![index[k]] = e]
      /\ UNCHANGED <<index, entries_len, entries_cached>>
  BY DEF Overwrite, Entries!Set
<1>2. e \in Entry /\ e.key = k
  BY DEF Entry
<1>3. /\ entries \in [0..MaxEntries -> Entry \cup {NoEntry}]
      /\ entries_len \in 0..MaxEntries
      /\ index \in [Key -> 0..(MaxEntries - 1) \cup {NoIndex}]
  BY DEF MapInv, MapTypeOK, Entries!TypeOK, Entries!Index
<1> HIDE DEF e
<1>4. MapTypeOK'
  BY <1>1, <1>2, <1>3 DEF MapInv, MapTypeOK, Entries!TypeOK, Entries!Index
<1>5. ASSUME NEW k2 \in Key, index'[k2] # NoIndex
      PROVE  index'[k2] < entries_len' /\ entries'[index'[k2]].key = k2
  BY <1>1, <1>2, <1>3, <1>5 DEF MapInv, Consistent
<1>6. ASSUME NEW i \in Entries!Index, i < entries_len'
      PROVE  entries'[i] # NoEntry /\ index'[entries'[i].key] = i
  BY <1>1, <1>2, <1>3, <1>6, StorageMapAssumption
     DEF MapInv, Consistent, Entries!Index
<1> QED BY <1>4, <1>5, <1>6 DEF MapInv, Consistent, Entries!Index

Last  == entries_len - 1
Moved == entries[Last].key

(* The last entry is removed, or moved into the place of the removed one.  *)
LEMMA RemoveEffect ==
    ASSUME MapInv, NEW k \in Key, Remove(k)
    PROVE  /\ index[k] \in 0..MaxEntries /\ index[k] < entries_len
           /\ Last \in 0..MaxEntries /\ entries_len # 0
           /\ entries_len' = Last /\ entries_cached' = Last
           /\ entries' = [j \in 0..MaxEntries |-> IF j = Last THEN NoEntry
                                            ELSE IF j = index[k] THEN entries[Last]
                                            ELSE entries[j]]
           /\ index' = [k2 \in Key |-> IF index[k] # Last /\ k2 = Moved THEN index[k]
                                       ELSE IF k2 = k THEN NoIndex
                                       ELSE index[k2]]
           /\ index[k] # Last => Moved \in Key /\ Moved # k /\ index[Moved] = Last
           /\ entries[Last] \in Entry
<1> DEFINE i == index[k]
<1>1. /\ entries \in [0..MaxEntries -> Entry \cup {NoEntry}]
      /\ entries_len \in 0..MaxEntries
      /\ index \in [Key -> 0..(MaxEntries - 1) \cup {NoIndex}]
      /\ NoIndex \notin Nat /\ NoEntry \notin Entry /\ MaxEntries \in Nat
  BY StorageMapAssumption DEF MapInv, MapTypeOK, Entries!TypeOK, Entries!Index
<1>2. i \in 0..MaxEntries /\ i < entries_len /\ entries[i].key = k
  BY <1>1 DEF MapInv, Consistent, Remove
<1>3. \A j \in 0..MaxEntries : j < entries_len =>
        /\ entries[j] \in Entry /\ entries[j].key \in Key
        /\ index[entries[j].key] = j
  BY <1>1 DEF MapInv, Consistent, Entry, Entries!Index
<1>4. /\ Last \in 0..MaxEntries /\ entries_len # 0 /\ Last = entries_len - 1
      /\ Entries!len = entries_len
      /\ Entries!SaturatingDec(Entries!len) = Last
  BY <1>1, <1>2, EntriesLen DEF MapInv, Entries!SaturatingDec, Last
<1>5. entries_len' = Last /\ entries_cached' = Last
  BY <1>4 DEF Remove, Entries!SwapRemove, Entries!Pop, Entries!PopFrom,
              Entries!SetLen
<1>6. entries' = [j \in 0..MaxEntries |-> IF j = Last THEN NoEntry
                                    ELSE IF j = i THEN entries[Last]
                                    ELSE entries[j]]
  BY <1>1, <1>2, <1>4
     DEF Remove, Entries!SwapRemove, Entries!Pop, Entries!PopFrom
<1>7. index' = [k2 \in Key |-> IF i # Last /\ k2 = Moved THEN i
                               ELSE IF k2 = k THEN NoIndex
                               ELSE index[k2]]
  BY <1>1, <1>4 DEF Remove, Moved
<1>8. i # Last => Moved \in Key /\ Moved # k /\ index[Moved] = Last
  BY <1>1, <1>2, <1>3, <1>4 DEF Moved
<1>9. entries[Last] \in Entry
  BY <1>1, <1>3, <1>4
<1> QED BY <1>2, <1>4, <1>5, <1>6, <1>7, <1>8, <1>9

LEMMA RemoveMapInv ==
    ASSUME MapInv, NEW k \in Key, Remove(k)
    PROVE  MapInv'
<1> DEFINE i == index[k]
<1>1. /\ entries \in [0..MaxEntries -> Entry \cup {NoEntry}]
      /\ entries_len \in 0..MaxEntries
      /\ index \in [Key -> 0..(MaxEntries - 1) \cup {NoIndex}]
      /\ NoIndex \notin Nat /\ NoEntry \notin Entry /\ MaxEntries \in Nat
  BY StorageMapAssumption DEF MapInv, MapTypeOK, Entries!TypeOK, Entries!Index
<1>2. i \in 0..MaxEntries /\ i < entries_len /\ entries[i].key = k
  BY <1>1 DEF MapInv, Consistent, Remove
<1>3. \A j \in 0..MaxEntries : j < entries_len =>
        /\ entries[j] \in Entry /\ entries[j].key \in Key
        /\ index[entries[j].key] = j
  BY <1>1 DEF MapInv, Consistent, Entry, Entries!Index
<1>4. Last \in 0..MaxEntries /\ entries_len # 0 /\ Last = entries_len - 1
  BY RemoveEffect DEF Last
<1>5. entries_len' = Last /\ entries_cached' = Last
  BY RemoveEffect
<1>6. entries' = [j \in 0..MaxEntries |-> IF j = Last THEN NoEntry
                                    ELSE IF j = i THEN entries[Last]
                                    ELSE entries[j]]
  BY RemoveEffect
<1>7. index' = [k2 \in Key |-> IF i # Last /\ k2 = Moved THEN i
                               ELSE IF k2 = k THEN NoIndex
                               ELSE index[k2]]
  BY RemoveEffect
<1>8. i # Last => Moved \in Key /\ Moved # k /\ index[Moved] = Last
  BY RemoveEffect
<1>9. entries[Last] \in Entry
  BY RemoveEffect
<1>10. MapTypeOK'
  <2>1. entries' \in [0..MaxEntries -> Entry \cup {NoEntry}]
    BY <1>1, <1>6, <1>9
  <2>2. index' \in [Key -> 0..(MaxEntries - 1) \cup {NoIndex}]
    BY <1>1, <1>2, <1>7
  <2> QED BY <2>1, <2>2, <1>4, <1>5 DEF MapTypeOK, Entries!TypeOK, Entries!Index
<1>11. ASSUME NEW k2 \in Key, index'[k2] # NoIndex
       PROVE  index'[k2] < entries_len' /\ entries'[index'[k2]].key = k2
  <2>1. CASE i # Last /\ k2 = Moved
    BY <2>1, <1>1, <1>2, <1>4, <1>5, <1>6, <1>7 DEF Moved
  <2>2. CASE ~(i # Last /\ k2 = Moved)
    <3>1. index'[k2] = index[k2] /\ k2 # k /\ index[k2] # NoIndex
      BY <2>2, <1>7, <1>11
    <3>2. /\ index[k2] \in 0..MaxEntries /\ index[k2] < entries_len
          /\ entries[index[k2]].key = k2
      BY <3>1, <1>1 DEF MapInv, Consistent
    <3>3. index[k2] # Last /\ index[k2] # i
      BY <3>1, <3>2, <2>2, <1>2 DEF Moved
    <3> QED BY <3>1, <3>2, <3>3, <1>1, <1>4, <1>5, <1>6
  <2> QED BY <2>1, <2>2
<1>12. ASSUME NEW j \in 0..MaxEntries, j < entries_len'
       PROVE  entries'[j] # NoEntry /\ index'[entries'[j].key] = j
  <2>1. j < Last /\ j < entries_len
    BY <1>1, <1>4, <1>5, <1>12
  <2>2. CASE j = i
    BY <2>1, <2>2, <1>1, <1>6, <1>7, <1>8, <1>9 DEF Moved
  <2>3. CASE j # i
    <3>1. entries'[j] = entries[j]
      BY <2>1, <2>3, <1>1, <1>4, <1>6
    <3>2. entries[j] \in Entry /\ entries[j].key \in Key /\ index[entries[j].key] = j
      BY <2>1, <1>3
    <3>3. entries[j].key # k /\ (i # Last => entries[j].key # Moved)
      BY <3>2, <2>1, <2>3, <1>1, <1>4, <1>8
    <3> QED BY <3>1, <3>2, <3>3, <1>1, <1>7
  <2> QED BY <2>2, <2>3
<1> QED BY <1>10, <1>11, <1>12 DEF MapInv, Consistent, Entries!Index

LEMMA NextMapInv == MapInv /\ [MapNext]_mapVars => MapInv'
<1> SUFFICES ASSUME MapInv, [MapNext]_mapVars
             PROVE  MapInv'
  OBVIOUS
<1>1. CASE UNCHANGED mapVars
  BY <1>1 DEF mapVars, MapInv, MapTypeOK, Consistent, Entries!TypeOK
<1>2. CASE New
  BY <1>2, NewMapInv
<1>3. ASSUME NEW k \in Key, Remove(k)
      PROVE  MapInv'
  BY <1>3, RemoveMapInv
<1>4. ASSUME NEW k \in Key, NEW v \in Value, Add(k, v) \/ Overwrite(k, v)
      PROVE  MapInv'
  BY <1>4, AddMapInv, OverwriteMapInv
<1> QED BY <1>1, <1>2, <1>3, <1>4 DEF MapNext

(* The stored length, the handle's, the entries and the indices keep their *)
(* types in every reachable state of either map.                           *)
THEOREM TypeCorrect == MapSpec => []MapTypeOK
<1>1. MapInv => MapTypeOK
  BY DEF MapInv
<1> QED BY InitMapInv, NextMapInv, <1>1, PTL DEF MapSpec

(* The entries and the indices of a map agree after any insertions and     *)
(* removals, whichever fresh or used handles made them.                    *)
THEOREM MapConsistent == MapSpec => []Consistent
<1>1. MapInv => Consistent
  BY DEF MapInv
<1> QED BY InitMapInv, NextMapInv, <1>1, PTL DEF MapSpec

(* Without removals the index of a key never changes: get_by_index keeps   *)
(* finding the entry that insert returned the index of.                    *)
THEOREM IndexStable ==
    ASSUME Removable = FALSE
    PROVE  MapSpec => IndexIsStable
<1>1. MapInv /\ [MapNext]_mapVars
        => [\A k \in Key : index[k] # NoIndex => index'[k] = index[k]]_mapVars
  <2> SUFFICES ASSUME MapInv, MapNext, NEW k \in Key, index[k] # NoIndex
               PROVE  index'[k] = index[k]
    OBVIOUS
  <2>1. index \in [Key -> 0..(MaxEntries - 1) \cup {NoIndex}]
    BY DEF MapInv, MapTypeOK, Entries!Index
  <2>2. ASSUME NEW k2 \in Key, NEW v \in Value, Add(k2, v)
        PROVE  index'[k] = index[k]
    BY <2>1, <2>2 DEF Add, PushItem, SaveIndex
  <2> QED BY <2>2 DEF MapNext, New, Overwrite, Remove
<1> QED BY InitMapInv, NextMapInv, <1>1, PTL DEF MapSpec, IndexIsStable
-----------------------------------------------------------------------------
(* The map.                                                                *)

Bound == [k \in Stored |-> entries[index[k]].item]

LEMMA WriteBinds ==
    ASSUME MapInv, NEW k \in Key, NEW v \in Value, Add(k, v) \/ Overwrite(k, v)
    PROVE  Abstract!Bind(k, v)
<1> DEFINE e == [key |-> k, item |-> v]
           at == IF index[k] = NoIndex THEN entries_len ELSE index[k]
<1>1. /\ entries \in [0..MaxEntries -> Entry \cup {NoEntry}]
      /\ entries_len \in 0..MaxEntries
      /\ index \in [Key -> 0..(MaxEntries - 1) \cup {NoIndex}]
      /\ NoIndex \notin Nat /\ MaxEntries \in Nat
  BY StorageMapAssumption DEF MapInv, MapTypeOK, Entries!TypeOK, Entries!Index
<1>2. /\ entries' = [entries EXCEPT ![at] = e]
      /\ index' = [index EXCEPT ![k] = at]
      /\ at \in 0..MaxEntries
  BY <1>1, EntriesLen DEF MapInv, Add, PushItem, SaveIndex, Overwrite, Entries!Push, Entries!SetLen, Entries!Set
<1>3. e.item = v
  OBVIOUS
<1>4. \A x \in Stored \ {k} : index[x] # at
  BY <1>1 DEF Stored, MapInv, Consistent
<1> HIDE DEF e, at
<1>5. Stored' = Stored \cup {k}
  BY <1>1, <1>2 DEF Stored
<1>6. \A x \in Stored' : entries'[index'[x]].item = IF x = k THEN v ELSE entries[index[x]].item
  BY <1>1, <1>2, <1>3, <1>4, <1>5 DEF Stored
<1>7. Bound' = [x \in Stored \cup {k} |-> IF x = k THEN v ELSE entries[index[x]].item]
  BY <1>5, <1>6 DEF Bound
<1>8. DOMAIN Bound = Stored /\ \A x \in Stored : Bound[x] = entries[index[x]].item
  BY DEF Bound
<1>9. Bound' = [x \in DOMAIN Bound \cup {k} |-> IF x = k THEN v ELSE Bound[x]]
  BY <1>7, <1>8
<1> QED BY <1>9 DEF Abstract!Bind, Bound

LEMMA RemoveDeletes ==
    ASSUME MapInv, NEW k \in Key, Remove(k)
    PROVE  Abstract!Delete(k)
<1>1. /\ index \in [Key -> 0..(MaxEntries - 1) \cup {NoIndex}]
      /\ NoIndex \notin Nat /\ MaxEntries \in Nat /\ index[k] # NoIndex
  BY StorageMapAssumption DEF MapInv, MapTypeOK, Remove, Entries!TypeOK, Entries!Index
<1>2. Stored' = Stored \ {k}
  BY <1>1, RemoveEffect DEF Stored
<1>3. ASSUME NEW x \in Stored \ {k}
      PROVE  entries'[index'[x]].item = entries[index[x]].item
  <2>1. CASE index[k] # Last /\ x = Moved
    BY <1>1, <2>1, RemoveEffect DEF Stored
  <2>2. CASE ~(index[k] # Last /\ x = Moved)
    <3>1. index'[x] = index[x] /\ index[x] \in 0..MaxEntries
      BY <1>1, <2>2, RemoveEffect DEF Stored
    <3>2. index[x] # index[k] /\ index[x] # Last
      BY <1>1, <2>2, RemoveEffect DEF Stored, MapInv, Consistent, Moved
    <3>3. entries'[index[x]] = entries[index[x]]
      <4>1. entries' = [j \in 0..MaxEntries |-> IF j = Last THEN NoEntry
                                                ELSE IF j = index[k] THEN entries[Last]
                                                ELSE entries[j]]
        BY RemoveEffect
      <4>2. PICK j \in 0..MaxEntries : j = index[x]
        BY <3>1
      <4>3. j # Last /\ j # index[k]
        BY <3>2, <4>2
      <4>4. entries'[j] = entries[j]
        BY <4>1, <4>2, <4>3
      <4> QED BY <4>2, <4>4
    <3> QED BY <3>1, <3>3
  <2> QED BY <2>1, <2>2
<1>4. Bound' = [x \in Stored \ {k} |-> entries[index[x]].item]
  BY <1>2, <1>3 DEF Bound
<1>5. DOMAIN Bound = Stored /\ \A x \in Stored : Bound[x] = entries[index[x]].item
  BY DEF Bound
<1>6. Bound' = [x \in DOMAIN Bound \ {k} |-> Bound[x]]
  BY <1>4, <1>5
<1> QED BY <1>6 DEF Abstract!Delete, Bound

(* It is a map: a key keeps the value last written under it, wherever      *)
(* removals of other keys move its entry.                                  *)
THEOREM IsMap == MapSpec => ImplementsMap
<1>1. MapInit => Abstract!Init
  <2> SUFFICES ASSUME MapInit PROVE Bound = [x \in {} |-> x]
    BY DEF Abstract!Init, Bound
  <2>1. Stored = {}
    BY DEF MapInit, Stored
  <2> QED BY <2>1 DEF Bound
<1>2. MapInv /\ [MapNext]_mapVars => [Abstract!Next]_Bound
  <2> SUFFICES ASSUME MapInv, [MapNext]_mapVars PROVE Abstract!Next \/ UNCHANGED Bound
    OBVIOUS
  <2>1. CASE New \/ UNCHANGED mapVars
    BY <2>1 DEF New, Entries!Open, mapVars, Bound, Stored
  <2>2. ASSUME NEW k \in Key, NEW v \in Value, Add(k, v) \/ Overwrite(k, v)
        PROVE  Abstract!Next
    BY <2>2, WriteBinds DEF Abstract!Next
  <2>3. ASSUME NEW k \in Key, Remove(k)
        PROVE  Abstract!Next
    BY <2>3, RemoveDeletes DEF Abstract!Next
  <2> QED BY <2>1, <2>2, <2>3 DEF MapNext
<1> QED BY InitMapInv, NextMapInv, <1>1, <1>2, PTL DEF MapSpec, ImplementsMap, Abstract!Spec, Bound
-----------------------------------------------------------------------------
(***************************************************************************)
(* What is written for numbers, lengths and strings of bytes is read back  *)
(* (Primitives).                                                           *)
(***************************************************************************)
Byte == 0..(Base - 1)

IsRest(base, n, rest) ==
    rest = [i \in 0..n |-> IF i = 0 THEN n ELSE rest[i - 1] \div base]

Rest(base, n) == CHOOSE rest : IsRest(base, n, rest)

IsSize(rest, n, size) == rest[size] = 0 /\ \A j \in 0..(size - 1) : rest[j] # 0

LEMMA DigitsAreChosen ==
    ASSUME NEW base, NEW n
    PROVE  Digits(base, n)
             = [i \in 1..(CHOOSE size \in 0..n : IsSize(Rest(base, n), n, size))
                    |-> Rest(base, n)[i - 1] % base]
BY DEF Digits, IsRest, Rest, IsSize

\* What is left of a number, at each of its digits.
Leaves(base, n, k, rest) ==
    /\ \A i \in 0..k : rest[i] \in Nat
    /\ rest[0] = n /\ rest[k] = 0
    /\ \A i \in 1..k : rest[i] = rest[i - 1] \div base /\ rest[i - 1] > 0

LEMMA Quotient ==
    ASSUME NEW base \in Nat, base > 1, NEW n \in Nat
    PROVE  /\ n \div base \in Nat /\ n % base \in 0..(base - 1)
           /\ n = base * (n \div base) + (n % base)
           /\ n > 0 => n \div base < n
OBVIOUS

LEMMA RestIs ==
    ASSUME NEW base \in Nat, base > 1, NEW n \in Nat
    PROVE  /\ \A i \in 0..n : Rest(base, n)[i] \in Nat
           /\ Rest(base, n)[0] = n
           /\ \A i \in 1..n : Rest(base, n)[i] = Rest(base, n)[i - 1] \div base
<1> DEFINE F == [i \in 1..n |-> [x \in Nat |-> x \div base]]
<1>1. PICK g : Iterates(n, n, F, g)
  BY IteratesExist
<1>2. \A i \in 1..n : \A x \in Nat : F[i][x] = x \div base /\ F[i][x] \in Nat
  BY Quotient
<1> HIDE DEF F
<1>3. \A i \in 0..n : g[i] \in Nat
  <2>1. \A i \in 1..n : \A x \in Nat : F[i][x] \in Nat
    BY <1>2
  <2> QED BY <1>1, <2>1, IteratesStay
<1>4. ASSUME NEW i \in 0..n
      PROVE  g[i] = IF i = 0 THEN n ELSE g[i - 1] \div base
  <2>1. g[i] = IF i = 0 THEN n ELSE F[i][g[i - 1]]
    BY <1>1 DEF Iterates
  <2>2. i # 0 => i \in 1..n /\ i - 1 \in 0..n
    OBVIOUS
  <2> QED BY <1>2, <1>3, <2>1, <2>2
<1>5. g = [i \in 0..n |-> g[i]]
  BY <1>1 DEF Iterates
<1>6. IsRest(base, n, g)
  BY <1>4, <1>5 DEF IsRest
<1>7. PICK r : r = Rest(base, n) /\ IsRest(base, n, r)
  BY <1>6 DEF Rest
<1>8. \A i \in 0..n : r[i] = IF i = 0 THEN n ELSE r[i - 1] \div base
  BY <1>7 DEF IsRest
<1> DEFINE G == {i \in 0..n : r[i] \in Nat}
<1>9. 0 \in G
  <2>1. 0 \in 0..n
    OBVIOUS
  <2> QED BY <1>8, <2>1
<1>10. ASSUME NEW i \in 1..n, i > 0, i - 1 \in G
       PROVE  i \in G
  <2>1. i \in 0..n /\ i # 0 /\ r[i - 1] \in Nat
    BY <1>10
  <2>2. r[i] = r[i - 1] \div base
    BY <1>8, <2>1
  <2> QED BY <2>1, <2>2, Quotient
<1> HIDE DEF G
<1>11. 0 \in 0..n
  OBVIOUS
<1>12. \A i \in 0..n : i \in G
  BY <1>9, <1>10, <1>11, StepByStep
<1>13. \A i \in 0..n : r[i] \in Nat
  BY <1>12 DEF G
<1>14. r[0] = n /\ \A i \in 1..n : r[i] = r[i - 1] \div base
  <2>1. 0 \in 0..n /\ \A i \in 1..n : i \in 0..n /\ i # 0
    OBVIOUS
  <2> QED BY <1>8, <2>1
<1> QED BY <1>7, <1>13, <1>14

\* Each division makes it smaller, so that n of them are enough.
LEMMA SizeExists ==
    ASSUME NEW base \in Nat, base > 1, NEW n \in Nat
    PROVE  \E size \in 0..n : IsSize(Rest(base, n), n, size)
<1>1. PICK r : r = Rest(base, n)
  OBVIOUS
<1>2. /\ \A i \in 0..n : r[i] \in Nat
      /\ r[0] = n
      /\ \A i \in 1..n : r[i] = r[i - 1] \div base
  BY <1>1, RestIs
<1> DEFINE H == {i \in 0..n : r[i] <= n - i}
<1>3. 0 \in H
  BY <1>2
<1>4. ASSUME NEW i \in 1..n, i > 0, i - 1 \in H
      PROVE  i \in H
  <2>1. PICK a, b : a = r[i - 1] /\ b = r[i]
    OBVIOUS
  <2>2. a \in Nat /\ b \in Nat /\ b = a \div base /\ a <= n - (i - 1)
    BY <1>2, <1>4, <2>1
  <2>3. CASE a = 0
    <3>1. b = 0
      BY <2>2, <2>3
    <3>2. i \in 0..n /\ b <= n - i
      BY <3>1
    <3> QED BY <2>1, <3>2
  <2>4. CASE a # 0
    <3>1. b < a
      BY <2>2, <2>4, Quotient
    <3>2. b <= n - i
      BY <2>2, <3>1
    <3> QED BY <2>1, <3>2
  <2> QED BY <2>3, <2>4
<1> HIDE DEF H
<1>5. \A i \in 0..n : i \in H
  <2>1. 0 \in 0..n
    OBVIOUS
  <2> QED BY <1>3, <1>4, <2>1, StepByStep
<1>6. r[n] = 0
  <2>1. n \in 0..n /\ n \in H
    BY <1>5
  <2>2. r[n] \in Nat /\ r[n] <= n - n
    BY <1>2, <2>1 DEF H
  <2> QED BY <2>2
<1>7. CASE n = 0
  <2>1. IsSize(r, n, 0)
    BY <1>6, <1>7 DEF IsSize
  <2> QED BY <1>1, <1>7, <2>1
<1>8. CASE n # 0
  <2> DEFINE E == {i \in 1..n : \E j \in 1..i : r[j] = 0}
  <2>1. n \in E /\ E \subseteq 1..n
    BY <1>6, <1>8
  <2> HIDE DEF E
  <2>2. PICK k \in E : k - 1 \notin E
    BY <2>1, SmallestNumber
  <2>3. k \in 1..n /\ \E j \in 1..k : r[j] = 0
    BY <2>2 DEF E
  <2>4. \A j \in 1..(k - 1) : r[j] # 0
    <3>1. CASE k = 1
      BY <3>1
    <3>2. CASE k # 1
      <4>1. k - 1 \in 1..n
        BY <2>3, <3>2
      <4> QED BY <2>2, <4>1 DEF E
    <3> QED BY <3>1, <3>2
  <2>5. r[k] = 0
    <3>1. PICK j \in 1..k : r[j] = 0
      BY <2>3
    <3>2. j = k
      <4>1. j \notin 1..(k - 1)
        BY <2>4, <3>1
      <4> QED BY <2>3, <4>1
    <3> QED BY <3>1, <3>2
  <2>6. r[0] # 0
    BY <1>2, <1>8
  <2>7. \A j \in 0..(k - 1) : r[j] # 0
    <3>1. \A j \in 0..(k - 1) : j = 0 \/ j \in 1..(k - 1)
      BY <2>3
    <3> QED BY <2>4, <2>6, <3>1
  <2>8. IsSize(r, n, k) /\ k \in 0..n
    BY <2>3, <2>5, <2>7 DEF IsSize
  <2> QED BY <1>1, <2>8
<1> QED BY <1>7, <1>8

LEMMA DigitsAre ==
    ASSUME NEW base \in Nat, base > 1, NEW n \in Nat
    PROVE  \E k \in Nat : \E rest : /\ Leaves(base, n, k, rest)
                                    /\ Digits(base, n) = [i \in 1..k |-> rest[i - 1] % base]
<1>1. PICK r : r = Rest(base, n)
  OBVIOUS
<1>2. PICK k : k = (CHOOSE size \in 0..n : IsSize(r, n, size))
  OBVIOUS
<1>3. k \in 0..n /\ IsSize(r, n, k)
  BY <1>1, <1>2, SizeExists
<1>4. Digits(base, n) = [i \in 1..k |-> r[i - 1] % base]
  BY <1>1, <1>2, DigitsAreChosen
<1>5. /\ \A i \in 0..n : r[i] \in Nat
      /\ r[0] = n
      /\ \A i \in 1..n : r[i] = r[i - 1] \div base
  BY <1>1, RestIs
<1>6. Leaves(base, n, k, r)
  <2>1. \A i \in 0..k : r[i] \in Nat
    BY <1>3, <1>5
  <2>2. r[k] = 0
    BY <1>3 DEF IsSize
  <2>3. ASSUME NEW i \in 1..k
        PROVE  r[i] = r[i - 1] \div base /\ r[i - 1] > 0
    <3>1. i \in 1..n /\ i - 1 \in 0..(k - 1) /\ i - 1 \in 0..n
      BY <1>3
    <3>2. r[i - 1] # 0
      BY <1>3, <3>1 DEF IsSize
    <3> QED BY <1>5, <3>1, <3>2
  <2> QED BY <1>5, <2>1, <2>2, <2>3 DEF Leaves
<1> QED BY <1>3, <1>4, <1>6

LEMMA LeavesIs ==
    ASSUME NEW base \in Nat, base > 1, NEW n \in Nat, NEW k \in Nat, NEW rest,
           Leaves(base, n, k, rest), NEW i \in 1..k
    PROVE  /\ rest[i - 1] \in Nat /\ rest[i] \in Nat /\ rest[i - 1] > 0
           /\ rest[i - 1] % base \in 0..(base - 1)
           /\ rest[i - 1] = base * rest[i] + (rest[i - 1] % base)
<1>1. i \in 0..k /\ i - 1 \in 0..k
  OBVIOUS
<1>2. PICK a, b : a = rest[i - 1] /\ b = rest[i]
  OBVIOUS
<1>3. a \in Nat /\ b \in Nat /\ b = a \div base /\ a > 0
  BY <1>1, <1>2 DEF Leaves
<1> QED BY <1>2, <1>3, Quotient

(* What digits are worth.                                                  *)
IsWorth(base, digits, k, worth) ==
    worth = [i \in 0..k |-> IF i = 0 THEN 0 ELSE digits[k + 1 - i] + base * worth[i - 1]]

LEMMA WorthIsChosen ==
    ASSUME NEW base, NEW digits
    PROVE  Worth(base, digits)
             = (CHOOSE worth : IsWorth(base, digits, Len(digits), worth))[Len(digits)]
BY DEF Worth, IsWorth

LEMMA WorthSteps ==
    ASSUME NEW base \in Nat, NEW k \in Nat, NEW digits \in [1..k -> Nat]
    PROVE  \E g : /\ Worth(base, digits) = g[k] /\ g[0] = 0
                  /\ \A i \in 1..k : g[i] = digits[k + 1 - i] + base * g[i - 1]
<1> DEFINE F == [i \in 1..k |-> [x \in Nat |-> digits[k + 1 - i] + base * x]]
<1>1. PICK g : Iterates(k, 0, F, g)
  BY IteratesExist
<1>2. ASSUME NEW i \in 1..k, NEW x \in Nat
      PROVE  F[i][x] = digits[k + 1 - i] + base * x /\ F[i][x] \in Nat
  <2>1. k + 1 - i \in 1..k
    OBVIOUS
  <2>2. PICK d \in Nat : d = digits[k + 1 - i]
    BY <2>1
  <2>3. base * x \in Nat
    OBVIOUS
  <2>4. F[i][x] = d + base * x
    BY <2>2
  <2> QED BY <2>2, <2>3, <2>4
<1> HIDE DEF F
<1>3. \A i \in 0..k : g[i] \in Nat
  <2>1. 0 \in Nat /\ \A i \in 1..k : \A x \in Nat : F[i][x] \in Nat
    BY <1>2
  <2> QED BY <1>1, <2>1, IteratesStay
<1>4. ASSUME NEW i \in 0..k
      PROVE  g[i] = IF i = 0 THEN 0 ELSE digits[k + 1 - i] + base * g[i - 1]
  <2>1. g[i] = IF i = 0 THEN 0 ELSE F[i][g[i - 1]]
    BY <1>1 DEF Iterates
  <2>2. i # 0 => i \in 1..k /\ i - 1 \in 0..k
    OBVIOUS
  <2> QED BY <1>2, <1>3, <2>1, <2>2
<1>5. g = [i \in 0..k |-> g[i]]
  BY <1>1 DEF Iterates
<1>6. IsWorth(base, digits, k, g)
  BY <1>4, <1>5 DEF IsWorth
<1>7. PICK h : h = (CHOOSE worth : IsWorth(base, digits, k, worth))
  OBVIOUS
<1>8. IsWorth(base, digits, k, h)
  BY <1>6, <1>7
<1>9. Len(digits) = k
  OBVIOUS
<1>10. Worth(base, digits) = h[k]
  BY <1>7, <1>9, WorthIsChosen
<1>11. h[0] = 0 /\ \A i \in 1..k : h[i] = digits[k + 1 - i] + base * h[i - 1]
  <2>1. \A i \in 0..k : h[i] = IF i = 0 THEN 0 ELSE digits[k + 1 - i] + base * h[i - 1]
    BY <1>8 DEF IsWorth
  <2>2. 0 \in 0..k /\ \A i \in 1..k : i \in 0..k /\ i # 0
    OBVIOUS
  <2> QED BY <2>1, <2>2
<1> QED BY <1>10, <1>11

LEMMA DigitsAreDigits ==
    ASSUME NEW base \in Nat, base > 1, NEW n \in Nat
    PROVE  \E k \in Nat : Digits(base, n) \in [1..k -> 0..(base - 1)]
<1>k. PICK k \in Nat : \E rest : /\ Leaves(base, n, k, rest)
                                 /\ Digits(base, n) = [i \in 1..k |-> rest[i - 1] % base]
  BY DigitsAre
<1>1. PICK rest : /\ Leaves(base, n, k, rest)
                  /\ Digits(base, n) = [i \in 1..k |-> rest[i - 1] % base]
  BY <1>k
<1>2. \A i \in 1..k : rest[i - 1] % base \in 0..(base - 1)
  BY <1>1, LeavesIs
<1> QED BY <1>1, <1>2

(* The digits of a number are worth that number.                           *)
LEMMA DigitsAreWorth ==
    ASSUME NEW base \in Nat, base > 1, NEW n \in Nat
    PROVE  Worth(base, Digits(base, n)) = n
<1>k. PICK k \in Nat : \E rest : /\ Leaves(base, n, k, rest)
                                 /\ Digits(base, n) = [i \in 1..k |-> rest[i - 1] % base]
  BY DigitsAre
<1>1. PICK rest : /\ Leaves(base, n, k, rest)
                  /\ Digits(base, n) = [i \in 1..k |-> rest[i - 1] % base]
  BY <1>k
<1>2. PICK digits : digits = Digits(base, n)
  OBVIOUS
<1>3. \A i \in 1..k : digits[i] = rest[i - 1] % base /\ digits[i] \in Nat
  <2>1. \A i \in 1..k : rest[i - 1] % base \in Nat
    BY <1>1, LeavesIs
  <2> QED BY <1>1, <1>2, <2>1
<1>4. digits \in [1..k -> Nat]
  BY <1>1, <1>2, <1>3
<1>5. PICK g : /\ Worth(base, digits) = g[k] /\ g[0] = 0
               /\ \A i \in 1..k : g[i] = digits[k + 1 - i] + base * g[i - 1]
  BY <1>4, WorthSteps
<1> DEFINE G == {i \in 0..k : g[i] = rest[k - i]}
<1>6. 0 \in G
  <2>1. rest[k - 0] = 0 /\ 0 \in 0..k
    BY <1>1 DEF Leaves
  <2> QED BY <1>5, <2>1
<1>7. ASSUME NEW i \in 1..k, i > 0, i - 1 \in G
      PROVE  i \in G
  <2>1. PICK j \in 1..k : j = k + 1 - i
    OBVIOUS
  <2>2. j - 1 = k - i /\ j = k - (i - 1)
    BY <2>1
  <2>3. g[i - 1] = rest[j]
    BY <1>7, <2>2
  <2>4. g[i] = (rest[j - 1] % base) + base * rest[j]
    BY <1>3, <1>5, <2>1, <2>3
  <2>5. rest[j - 1] = base * rest[j] + (rest[j - 1] % base)
    BY <1>1, LeavesIs
  <2>6. rest[j] \in Nat /\ rest[j - 1] % base \in Nat
    <3>1. rest[j] \in Nat /\ rest[j - 1] % base \in 0..(base - 1)
      BY <1>1, LeavesIs
    <3> QED BY <3>1
  <2>7. PICK a, b : a \in Nat /\ a = base * rest[j] /\ b = rest[j - 1] % base
    BY <2>6
  <2>8. g[i] = rest[j - 1]
    BY <2>4, <2>5, <2>6, <2>7
  <2> QED BY <2>2, <2>8
<1> HIDE DEF G
<1>8. \A i \in 0..k : i \in G
  <2>1. 0 \in 0..k
    OBVIOUS
  <2> QED BY <1>6, <1>7, <2>1, StepByStep
<1>9. g[k] = rest[0]
  <2>1. k \in G /\ k - k = 0
    BY <1>8
  <2> QED BY <2>1 DEF G
<1>10. rest[0] = n
  BY <1>1 DEF Leaves
<1> QED BY <1>2, <1>5, <1>9, <1>10

IsPower(base, n, power) ==
    power = [i \in 0..n |-> IF i = 0 THEN 1 ELSE base * power[i - 1]]

LEMMA PowerIsChosen ==
    ASSUME NEW base, NEW n
    PROVE  Power(base, n) = (CHOOSE power : IsPower(base, n, power))[n]
BY DEF Power, IsPower

LEMMA PowerExists ==
    ASSUME NEW base \in Nat, NEW n \in Nat
    PROVE  \E power : IsPower(base, n, power) /\ Power(base, n) = power[n]
<1> DEFINE F == [i \in 1..n |-> [x \in Nat |-> base * x]]
<1>1. PICK g : Iterates(n, 1, F, g)
  BY IteratesExist
<1>2. \A i \in 1..n : \A x \in Nat : F[i][x] = base * x /\ F[i][x] \in Nat
  OBVIOUS
<1> HIDE DEF F
<1>3. \A i \in 0..n : g[i] \in Nat
  <2>1. 1 \in Nat /\ \A i \in 1..n : \A x \in Nat : F[i][x] \in Nat
    BY <1>2
  <2> QED BY <1>1, <2>1, IteratesStay
<1>4. ASSUME NEW i \in 0..n
      PROVE  g[i] = IF i = 0 THEN 1 ELSE base * g[i - 1]
  <2>1. g[i] = IF i = 0 THEN 1 ELSE F[i][g[i - 1]]
    BY <1>1 DEF Iterates
  <2>2. i # 0 => i \in 1..n /\ i - 1 \in 0..n
    OBVIOUS
  <2> QED BY <1>2, <1>3, <2>1, <2>2
<1>5. g = [i \in 0..n |-> g[i]]
  BY <1>1 DEF Iterates
<1>6. IsPower(base, n, g)
  BY <1>4, <1>5 DEF IsPower
<1>7. PICK h : h = (CHOOSE power : IsPower(base, n, power))
  OBVIOUS
<1> QED BY <1>6, <1>7, PowerIsChosen

\* Two powers have the same course.
LEMMA PowersAgree ==
    ASSUME NEW base, NEW n \in Nat, NEW k \in 0..n, NEW f, NEW g,
           IsPower(base, k, f), IsPower(base, n, g)
    PROVE  f[k] = g[k]
<1> DEFINE G == {i \in 0..k : f[i] = g[i]}
<1>1. /\ \A i \in 0..k : f[i] = IF i = 0 THEN 1 ELSE base * f[i - 1]
      /\ \A i \in 0..n : g[i] = IF i = 0 THEN 1 ELSE base * g[i - 1]
  BY DEF IsPower
<1>2. 0 \in G
  <2>1. 0 \in 0..k /\ 0 \in 0..n
    OBVIOUS
  <2> QED BY <1>1, <2>1
<1>3. ASSUME NEW i \in 1..k, i > 0, i - 1 \in G
      PROVE  i \in G
  <2>1. i \in 0..k /\ i \in 0..n /\ i # 0 /\ f[i - 1] = g[i - 1]
    BY <1>3
  <2> QED BY <1>1, <2>1
<1> HIDE DEF G
<1>4. k \in Nat /\ 0 \in 0..k /\ k \in 0..k
  OBVIOUS
<1>5. \A i \in 0..k : i \in G
  BY <1>2, <1>3, <1>4, StepByStep
<1> QED BY <1>4, <1>5 DEF G

LEMMA PowerIs ==
    ASSUME NEW base \in Nat, NEW n \in Nat
    PROVE  Power(base, 0) = 1 /\ Power(base, n + 1) = base * Power(base, n)
<1>1. Power(base, 0) = 1
  <2>1. PICK f : IsPower(base, 0, f) /\ Power(base, 0) = f[0]
    BY PowerExists
  <2> QED BY <2>1 DEF IsPower
<1>2. PICK f : IsPower(base, n, f) /\ Power(base, n) = f[n]
  BY PowerExists
<1>3. PICK g : IsPower(base, n + 1, g) /\ Power(base, n + 1) = g[n + 1]
  <2>1. n + 1 \in Nat
    OBVIOUS
  <2> QED BY <2>1, PowerExists
<1>4. f[n] = g[n]
  <2>1. n + 1 \in Nat /\ n \in 0..(n + 1)
    OBVIOUS
  <2> QED BY <1>2, <1>3, <2>1, PowersAgree
<1>5. g[n + 1] = base * g[n]
  <2>1. n + 1 \in 0..(n + 1) /\ n + 1 # 0 /\ (n + 1) - 1 = n
    OBVIOUS
  <2>2. g[n + 1] = IF n + 1 = 0 THEN 1 ELSE base * g[(n + 1) - 1]
    BY <1>3, <2>1 DEF IsPower
  <2> QED BY <2>1, <2>2
<1> QED BY <1>1, <1>2, <1>3, <1>4, <1>5

LEMMA PowerGrows ==
    ASSUME NEW base \in Nat, base > 0, NEW n \in Nat
    PROVE  \A i \in 0..n : Power(base, i) \in Nat /\ Power(base, i) > 0
<1> DEFINE G == {i \in 0..n : Power(base, i) \in Nat /\ Power(base, i) > 0}
<1>1. 0 \in G
  BY PowerIs
<1>2. ASSUME NEW i \in 1..n, i > 0, i - 1 \in G
      PROVE  i \in G
  <2>1. PICK p : p = Power(base, i - 1)
    OBVIOUS
  <2>2. i - 1 \in Nat /\ (i - 1) + 1 = i
    OBVIOUS
  <2>3. Power(base, i) = base * p
    BY <2>1, <2>2, PowerIs
  <2>4. p \in Nat /\ p > 0
    BY <1>2, <2>1
  <2>5. base * p \in Nat /\ base * p > 0
    BY <2>4
  <2> QED BY <2>3, <2>5
<1> HIDE DEF G
<1>3. 0 \in 0..n
  OBVIOUS
<1>4. \A i \in 0..n : i \in G
  BY <1>1, <1>2, <1>3, StepByStep
<1> QED BY <1>4 DEF G

LEMMA PowerNat ==
    ASSUME NEW base \in Nat, base > 0, NEW n \in Nat
    PROVE  Power(base, n) \in Nat /\ Power(base, n) > 0
<1>1. n \in 0..n
  OBVIOUS
<1> QED BY <1>1, PowerGrows

\* The greater of two powers has the greater exponent.
LEMMA PowerMonotone ==
    ASSUME NEW base \in Nat, base > 0, NEW n \in Nat, NEW k \in 0..n
    PROVE  Power(base, k) <= Power(base, n)
<1> DEFINE G == {i \in 0..n : Power(base, k) <= Power(base, i)}
<1>1. k \in G
  <2>1. Power(base, k) \in Nat
    BY PowerNat
  <2> QED BY <2>1
<1>2. ASSUME NEW i \in 1..n, i > k, i - 1 \in G
      PROVE  i \in G
  <2>1. PICK p, q : p = Power(base, i - 1) /\ q = Power(base, k)
    OBVIOUS
  <2>2. i - 1 \in Nat /\ (i - 1) + 1 = i
    OBVIOUS
  <2>3. Power(base, i) = base * p
    BY <2>1, <2>2, PowerIs
  <2>4. p \in Nat /\ q \in Nat /\ q <= p
    BY <1>2, <2>1, <2>2, PowerNat
  <2>5. p <= base * p
    <3>1. base = (base - 1) + 1 /\ base - 1 \in Nat
      OBVIOUS
    <3>2. base * p = (base - 1) * p + p /\ (base - 1) * p >= 0
      BY <2>4, <3>1
    <3> QED BY <2>4, <3>2
  <2>6. q <= base * p
    BY <2>4, <2>5
  <2> QED BY <2>1, <2>3, <2>6
<1> HIDE DEF G
<1>3. \A i \in k..n : i \in G
  BY <1>1, <1>2, StepByStep
<1>4. n \in k..n
  OBVIOUS
<1> QED BY <1>3, <1>4 DEF G

LEMMA DigitBelow ==
    ASSUME NEW base \in Nat, NEW d \in 0..(base - 1), NEW a \in Nat, NEW p \in Nat
    PROVE  (a < p => base * a + d < base * p) /\ (p <= a => base * p <= base * a + d)
<1>1. CASE a < p
  <2>1. PICK c \in Nat : p = a + 1 + c
    <3>1. p - a - 1 \in Nat /\ p = a + 1 + (p - a - 1)
      BY <1>1
    <3> QED BY <3>1
  <2>2. base * p = base * a + base + base * c /\ base * c \in Nat
    BY <2>1
  <2>3. base * a \in Nat
    OBVIOUS
  <2> QED BY <1>1, <2>2, <2>3
<1>2. CASE p <= a
  <2>1. PICK c \in Nat : a = p + c
    <3>1. a - p \in Nat /\ a = p + (a - p)
      BY <1>2
    <3> QED BY <3>1
  <2>2. base * a = base * p + base * c /\ base * c \in Nat
    BY <2>1
  <2>3. base * p \in Nat
    OBVIOUS
  <2> QED BY <1>2, <2>2, <2>3
<1> QED BY <1>1, <1>2

(* As many digits as there are, and no fewer.                              *)
LEMMA DigitsAreFewest ==
    ASSUME NEW base \in Nat, base > 1, NEW n \in Nat
    PROVE  /\ Len(Digits(base, n)) \in Nat
           /\ n < Power(base, Len(Digits(base, n)))
           /\ n > 0 => /\ Len(Digits(base, n)) > 0
                       /\ Power(base, Len(Digits(base, n)) - 1) <= n
<1>k. PICK k \in Nat : \E rest : /\ Leaves(base, n, k, rest)
                                 /\ Digits(base, n) = [i \in 1..k |-> rest[i - 1] % base]
  BY DigitsAre
<1>1. PICK rest : /\ Leaves(base, n, k, rest)
                  /\ Digits(base, n) = [i \in 1..k |-> rest[i - 1] % base]
  BY <1>k
<1>2. Len(Digits(base, n)) = k
  <2>1. \A i \in 1..k : rest[i - 1] % base \in 0..(base - 1)
    BY <1>1, LeavesIs
  <2> QED BY <1>1, <2>1
<1>3. \A i \in 0..k : rest[i] \in Nat
  BY <1>1 DEF Leaves
<1> DEFINE G == {i \in 0..k : /\ rest[k - i] < Power(base, i)
                              /\ i > 0 => Power(base, i - 1) <= rest[k - i]}
<1>4. 0 \in G
  <2>1. rest[k - 0] = 0 /\ Power(base, 0) = 1
    BY <1>1, PowerIs DEF Leaves
  <2> QED BY <2>1
<1>5. ASSUME NEW i \in 1..k, i > 0, i - 1 \in G
      PROVE  i \in G
  <2>1. PICK j \in 1..k : j = k + 1 - i
    OBVIOUS
  <2>2. PICK a, b, d, p : /\ a = rest[j] /\ b = rest[j - 1] /\ d = rest[j - 1] % base
                          /\ p = Power(base, i - 1)
    OBVIOUS
  <2>3. /\ a \in Nat /\ b \in Nat /\ b > 0 /\ d \in 0..(base - 1)
        /\ b = base * a + d
    <3>1. /\ rest[j - 1] \in Nat /\ rest[j] \in Nat /\ rest[j - 1] > 0
          /\ rest[j - 1] % base \in 0..(base - 1)
          /\ rest[j - 1] = base * rest[j] + (rest[j - 1] % base)
      BY <1>1, LeavesIs
    <3> QED BY <2>2, <3>1
  <2>4. i - 1 \in Nat /\ (i - 1) + 1 = i /\ j - 1 = k - i /\ j = k - (i - 1)
    BY <2>1
  <2>5. p \in Nat /\ p > 0 /\ Power(base, i) = base * p
    BY <2>2, <2>4, PowerIs, PowerNat
  <2>6. a < p /\ (i - 1 > 0 => Power(base, (i - 1) - 1) <= a)
    BY <1>5, <2>2, <2>4
  <2>7. b < Power(base, i)
    BY <2>3, <2>5, <2>6, DigitBelow
  <2>8. p <= b
    <3>1. CASE i = 1
      <4>1. p = 1
        BY <2>2, <3>1, PowerIs
      <4> QED BY <2>3, <4>1
    <3>2. CASE i # 1
      <4>1. PICK q : q = Power(base, i - 2)
        OBVIOUS
      <4>2. i - 2 \in Nat /\ (i - 2) + 1 = i - 1 /\ (i - 1) - 1 = i - 2 /\ i - 1 > 0
        BY <3>2
      <4>3. q \in Nat /\ p = base * q
        BY <2>2, <4>1, <4>2, PowerIs, PowerNat
      <4>4. q <= a
        BY <2>6, <4>1, <4>2
      <4> QED BY <2>3, <4>3, <4>4, DigitBelow
    <3> QED BY <3>1, <3>2
  <2> QED BY <2>2, <2>4, <2>7, <2>8
<1> HIDE DEF G
<1>6. k \in G
  <2>1. 0 \in 0..k /\ k \in 0..k
    OBVIOUS
  <2> QED BY <1>4, <1>5, <2>1, StepByStep
<1>7. rest[k - k] = n
  BY <1>1 DEF Leaves
<1>8. n < Power(base, k) /\ (k > 0 => Power(base, k - 1) <= n)
  BY <1>6, <1>7 DEF G
<1>9. n > 0 => k > 0
  BY <1>1 DEF Leaves
<1> QED BY <1>2, <1>8, <1>9

\* A number below a power has no more digits than the exponent.
LEMMA DigitsFit ==
    ASSUME NEW base \in Nat, base > 1, NEW n \in Nat, NEW size \in Nat,
           n < Power(base, size)
    PROVE  Len(Digits(base, n)) <= size
<1>1. PICK k : k = Len(Digits(base, n))
  OBVIOUS
<1>2. k \in Nat /\ n < Power(base, k) /\ (n > 0 => k > 0 /\ Power(base, k - 1) <= n)
  BY <1>1, DigitsAreFewest
<1>3. SUFFICES ASSUME k > size
               PROVE  FALSE
  BY <1>1, <1>2
<1>4. n > 0
  <2>k. PICK j \in Nat : \E rest : /\ Leaves(base, n, j, rest)
                                   /\ Digits(base, n) = [i \in 1..j |-> rest[i - 1] % base]
    BY DigitsAre
  <2>1. PICK rest : /\ Leaves(base, n, j, rest)
                    /\ Digits(base, n) = [i \in 1..j |-> rest[i - 1] % base]
    BY <2>k
  <2>2. j = k
    <3>1. \A i \in 1..j : rest[i - 1] % base \in 0..(base - 1)
      BY <2>1, LeavesIs
    <3> QED BY <1>1, <2>1, <3>1
  <2>3. 1 \in 1..j /\ 1 - 1 = 0
    BY <1>3, <2>2
  <2>4. rest[1 - 1] > 0 /\ rest[0] = n
    BY <2>1, <2>3 DEF Leaves
  <2> QED BY <2>3, <2>4
<1>5. k - 1 \in Nat /\ size \in 0..(k - 1)
  BY <1>2, <1>3
<1>6. Power(base, size) <= Power(base, k - 1)
  BY <1>5, PowerMonotone
<1>7. Power(base, size) \in Nat /\ Power(base, k - 1) \in Nat
  BY <1>5, PowerNat
<1> QED BY <1>2, <1>4, <1>6, <1>7

(* The bytes are the next ones of the stream.                              *)
Ahead(de, bytes) ==
    /\ de \in [bytes : Seq(Byte), read : Nat]
    /\ de.read + Len(bytes) <= Len(de.bytes)
    /\ \A i \in 1..Len(bytes) : de.bytes[de.read + i] = bytes[i]

\* The stream n bytes later.
Later(de, n) == [de EXCEPT !.read = @ + n]

LEMMA MoreIs == More \in Nat /\ More > 1 /\ Base = More + More
<1>1. Base \in Nat /\ Base > 2 /\ Base % 2 = 0
  BY BaseAssumption
<1> QED BY <1>1 DEF More

LEMMA LaterIs ==
    ASSUME NEW de \in [bytes : Seq(Byte), read : Nat], NEW n \in Nat
    PROVE  /\ Later(de, n) \in [bytes : Seq(Byte), read : Nat]
           /\ Later(de, n).bytes = de.bytes /\ Later(de, n).read = de.read + n
BY DEF Later

LEMMA LaterStill ==
    ASSUME NEW de \in [bytes : Seq(Byte), read : Nat], NEW m \in Nat, NEW n \in Nat
    PROVE  Later(Later(de, m), n) = Later(de, m + n)
<1>1. PICK r \in Nat : r = de.read
  OBVIOUS
<1>2. (r + m) + n = r + (m + n)
  OBVIOUS
<1> QED BY <1>1, <1>2 DEF Later

LEMMA PartIs ==
    ASSUME NEW b \in Seq(Byte), NEW r \in Nat, NEW s \in Seq(Byte), NEW n \in Nat,
           n = Len(s), r + n <= Len(b), \A i \in 1..n : b[r + i] = s[i]
    PROVE  SubSeq(b, r + 1, r + n) = s
<1>1. /\ SubSeq(b, r + 1, r + n) \in Seq(Byte)
      /\ Len(SubSeq(b, r + 1, r + n)) = n
      /\ \A i \in 1..n : SubSeq(b, r + 1, r + n)[i] = b[r + i]
  OBVIOUS
<1>2. \A i \in 1..n : SubSeq(b, r + 1, r + n)[i] = s[i]
  BY <1>1
<1> QED BY <1>1, <1>2, SeqEqual

LEMMA ReadAhead ==
    ASSUME NEW bytes \in Seq(Byte), NEW de, Ahead(de, bytes)
    PROVE  ReadN(de, Len(bytes)) = Got(bytes, Later(de, Len(bytes)))
<1>1. PICK n \in Nat, r \in Nat, s \in Seq(Byte) : n = Len(bytes) /\ r = de.read /\ s = de.bytes
  BY DEF Ahead
<1>2. r + n <= Len(s) /\ \A i \in 1..n : s[r + i] = bytes[i]
  BY <1>1 DEF Ahead
<1>3. SubSeq(s, r + 1, r + n) = bytes
  BY <1>1, <1>2, PartIs, SMTT(20)
<1>4. ~(de.read + n > Len(de.bytes))
  BY <1>1, <1>2
<1> QED BY <1>1, <1>3, <1>4 DEF ReadN, Later

LEMMA AheadParts ==
    ASSUME NEW s \in Seq(Byte), NEW t \in Seq(Byte), NEW de, Ahead(de, s \o t)
    PROVE  Ahead(de, s) /\ Ahead(Later(de, Len(s)), t)
<1>1. PICK m \in Nat, n \in Nat : m = Len(s) /\ n = Len(t)
  OBVIOUS
<1>2. /\ Len(s \o t) = m + n
      /\ \A i \in 1..m : (s \o t)[i] = s[i]
      /\ \A i \in 1..n : (s \o t)[m + i] = t[i]
  BY <1>1
<1>3. PICK r \in Nat, b \in Seq(Byte) : r = de.read /\ b = de.bytes
  BY DEF Ahead
<1>4. r + (m + n) <= Len(b) /\ \A i \in 1..(m + n) : b[r + i] = (s \o t)[i]
  BY <1>2, <1>3 DEF Ahead
<1>5. Ahead(de, s)
  <2>1. \A i \in 1..m : i \in 1..(m + n)
    OBVIOUS
  <2>2. \A i \in 1..m : b[r + i] = s[i]
    BY <1>2, <1>4, <2>1
  <2>3. r + m <= Len(b)
    BY <1>4
  <2> QED BY <1>1, <1>3, <2>2, <2>3 DEF Ahead
<1>6. Ahead(Later(de, m), t)
  <2>1. /\ Later(de, m) \in [bytes : Seq(Byte), read : Nat]
        /\ Later(de, m).bytes = b /\ Later(de, m).read = r + m
    BY <1>3, LaterIs DEF Ahead
  <2>2. ASSUME NEW i \in 1..n
        PROVE  b[(r + m) + i] = t[i]
    <3>1. m + i \in 1..(m + n) /\ r + (m + i) = (r + m) + i
      OBVIOUS
    <3> QED BY <1>2, <1>4, <3>1
  <2>3. (r + m) + n <= Len(b)
    BY <1>4
  <2> QED BY <1>1, <2>1, <2>2, <2>3 DEF Ahead
<1> QED BY <1>1, <1>5, <1>6

LEMMA ByteAhead ==
    ASSUME NEW b \in Byte, NEW de, Ahead(de, <<b>>)
    PROVE  ReadByte(de) = Got(b, Later(de, 1))
<1>1. <<b>> \in Seq(Byte) /\ Len(<<b>>) = 1
  OBVIOUS
<1>2. ReadN(de, 1) = Got(<<b>>, Later(de, 1))
  BY <1>1, ReadAhead
<1> QED BY <1>2 DEF ReadByte, AndThen, Got

(* Integers.  A number is read back by every type that has room for it,    *)
(* not only by the one it was written for: a contract may make an integer  *)
(* wider when it is upgraded (impl_uint).                                  *)
THEOREM NumbersAreReadBack ==
    ASSUME NEW size \in 0..(Base - 1), NEW n \in Nat, n < Power(Base, size),
           NEW de, Ahead(de, WriteUint(n).bytes)
    PROVE  ReadUint(de, size) = Got(n, Later(de, Len(WriteUint(n).bytes)))
<1>1. Base \in Nat /\ Base > 1 /\ size \in Nat
  BY BaseAssumption
<1>k. PICK k \in Nat : \E digits : /\ digits = Digits(Base, n) /\ digits \in [1..k -> Byte]
                                   /\ k = Len(digits)
  <2>1. PICK k \in Nat : Digits(Base, n) \in [1..k -> 0..(Base - 1)]
    BY <1>1, DigitsAreDigits
  <2> QED BY <2>1 DEF Byte
<1>2. PICK digits : /\ digits = Digits(Base, n) /\ digits \in [1..k -> Byte]
                    /\ k = Len(digits)
  BY <1>k
<1>3. k <= size /\ k \in Byte
  <2>1. k <= size
    BY <1>1, <1>2, DigitsFit
  <2> QED BY <1>1, <2>1 DEF Byte
<1>4. digits \in Seq(Byte)
  BY <1>2
<1>5. <<k>> \in Seq(Byte) /\ Len(<<k>>) = 1
  BY <1>3
<1>6. WriteUint(n).bytes = <<k>> \o digits
  BY <1>2 DEF WriteUint, Written
<1>7. Ahead(de, <<k>>) /\ Ahead(Later(de, 1), digits)
  BY <1>4, <1>5, <1>6, AheadParts
<1>8. ReadByte(de) = Got(k, Later(de, 1))
  BY <1>3, <1>7, ByteAhead
<1>9. ReadN(Later(de, 1), k) = Got(digits, Later(Later(de, 1), k))
  BY <1>2, <1>4, <1>7, ReadAhead
<1>10. Worth(Base, digits) = n
  BY <1>1, <1>2, DigitsAreWorth
<1>11. ReadUint(de, size) = Got(n, Later(Later(de, 1), k))
  BY <1>3, <1>8, <1>9, <1>10 DEF ReadUint, AndThen, Got
<1>12. Later(Later(de, 1), k) = Later(de, 1 + k)
  BY LaterStill DEF Ahead
<1>13. Len(<<k>> \o digits) = 1 + k
  BY <1>2, <1>4, <1>5
<1> QED BY <1>6, <1>11, <1>12, <1>13

(* The groups of a length: the bit is set in all but the last.             *)
GroupsOf(length, k, groups) ==
    /\ groups \in [1..k -> Byte]
    /\ groups[k] < More /\ \A i \in 1..(k - 1) : groups[i] >= More
    /\ Worth(More, [i \in 1..k |-> groups[i] % More]) = length
    /\ length < Power(More, k) /\ (k > 1 => Power(More, k - 1) <= length)

LEMMA PowerOfMore ==
    ASSUME NEW n \in Nat
    PROVE  Power(More, n) \in Nat
<1>1. More \in Nat /\ More > 0
  BY MoreIs
<1> QED BY <1>1, PowerNat

LEMMA MarkedIs ==
    ASSUME NEW d \in 0..(More - 1)
    PROVE  /\ d \in Byte /\ d % More = d
           /\ More + d \in Byte /\ More + d >= More /\ (More + d) % More = d
<1>1. PICK m \in Nat : m = More /\ m > 1 /\ Base = m + m
  BY MoreIs
<1>2. d \in 0..(m - 1) /\ d < m + m /\ m + d < m + m
  BY <1>1
<1>3. d % m = d /\ (m + d) % m = d
  BY <1>1, <1>2
<1> QED BY <1>1, <1>2, <1>3 DEF Byte

LEMMA GroupsAre ==
    ASSUME NEW length \in Nat
    PROVE  \E k \in Nat : k > 0 /\ GroupsOf(length, k, LenGroups(length))
<1>1. More \in Nat /\ More > 1
  BY MoreIs
<1>2. CASE length = 0
  <2>1. LenGroups(length) = <<0>>
    BY <1>2 DEF LenGroups
  <2>2. PICK g : g = <<0>>
    OBVIOUS
  <2>3. 0 \in Byte /\ 0 % More = 0 /\ 0 < More
    <3>1. 0 \in 0..(More - 1) /\ 0 < More
      BY <1>1
    <3>2. 0 \in Byte /\ 0 % More = 0
      BY <3>1, MarkedIs
    <3> QED BY <3>1, <3>2
  <2>4. g \in [1..1 -> Byte] /\ g[1] = 0
    BY <2>2, <2>3
  <2>5. PICK d : d = [i \in 1..1 |-> g[i] % More]
    OBVIOUS
  <2>6. d \in [1..1 -> Nat] /\ d[1] = 0
    BY <2>3, <2>4, <2>5
  <2>7. Worth(More, d) = 0
    <3>1. PICK w : /\ Worth(More, d) = w[1] /\ w[0] = 0
                   /\ \A i \in 1..1 : w[i] = d[1 + 1 - i] + More * w[i - 1]
      BY <1>1, <2>6, WorthSteps
    <3>2. w[1] = d[1] + More * w[0]
      BY <3>1
    <3> QED BY <1>1, <2>6, <3>1, <3>2
  <2>8. length < Power(More, 1)
    BY <1>1, <1>2, PowerNat
  <2>9. GroupsOf(length, 1, g)
    BY <1>2, <2>3, <2>4, <2>5, <2>7, <2>8 DEF GroupsOf
  <2> QED BY <2>1, <2>2, <2>9
<1>3. CASE length # 0
  <2>k. PICK k \in Nat : \E d : /\ d = Digits(More, length) /\ d \in [1..k -> 0..(More - 1)]
                                /\ k = Len(d) /\ DOMAIN d = 1..k
    <3>1. PICK k \in Nat : Digits(More, length) \in [1..k -> 0..(More - 1)]
      BY <1>1, DigitsAreDigits
    <3> QED BY <3>1
  <2>1. PICK d : /\ d = Digits(More, length) /\ d \in [1..k -> 0..(More - 1)]
                 /\ k = Len(d) /\ DOMAIN d = 1..k
    BY <2>k
  <2>2. PICK g : g = [i \in 1..k |-> IF i < k THEN More + d[i] ELSE d[i]]
    OBVIOUS
  <2>3. LenGroups(length) = g
    BY <1>3, <2>1, <2>2 DEF LenGroups
  <2>4. k > 0 /\ length < Power(More, k) /\ Power(More, k - 1) <= length
    <3>1. Len(Digits(More, length)) = k
      BY <2>1
    <3>2. /\ length < Power(More, Len(Digits(More, length)))
          /\ length > 0 => /\ Len(Digits(More, length)) > 0
                        /\ Power(More, Len(Digits(More, length)) - 1) <= length
      BY <1>1, DigitsAreFewest
    <3>3. length > 0
      BY <1>3
    <3> QED BY <3>1, <3>2, <3>3
  <2>5. ASSUME NEW i \in 1..k
        PROVE  /\ g[i] \in Byte /\ g[i] % More = d[i]
               /\ i < k => g[i] >= More
               /\ i = k => g[i] < More
    <3>1. d[i] \in 0..(More - 1)
      BY <2>1
    <3>2. g[i] = IF i < k THEN More + d[i] ELSE d[i]
      BY <2>2
    <3> QED BY <1>1, <3>1, <3>2, MarkedIs
  <2>6. [i \in 1..k |-> g[i] % More] = d
    <3>1. [i \in 1..k |-> g[i] % More] = [i \in 1..k |-> d[i]]
      BY <2>5
    <3> QED BY <2>1, <3>1
  <2>7. Worth(More, d) = length
    BY <1>1, <2>1, DigitsAreWorth
  <2>8. g \in [1..k -> Byte] /\ g[k] < More /\ \A i \in 1..(k - 1) : g[i] >= More
    <3>1. k \in 1..k /\ \A i \in 1..(k - 1) : i \in 1..k /\ i < k
      BY <2>4
    <3>2. g \in [1..k -> Byte]
      BY <2>2, <2>5
    <3> QED BY <2>5, <3>1, <3>2
  <2>9. GroupsOf(length, k, g)
    BY <2>4, <2>6, <2>7, <2>8 DEF GroupsOf
  <2> QED BY <2>3, <2>4, <2>9
<1> QED BY <1>2, <1>3

LEMMA Encodable ==
    ASSUME NEW length \in 0..MaxByteLen
    PROVE  EncodeLen(length) = Written(LenGroups(length)) /\ length \in Nat
<1>1. Power(More, MaxSize) \in Nat
  BY SizeAssumption, PowerOfMore
<1>2. MaxByteLen \in Int
  BY <1>1 DEF MaxByteLen
<1>3. ~(length > MaxByteLen) /\ length \in Nat
  BY <1>2
<1> QED BY <1>3 DEF EncodeLen

\* Where the groups of a length end in a stream.
Ends(de) == {i \in (de.read + 1)..Len(de.bytes) : de.bytes[i] < More}

LEMMA DecodeLenIs ==
    ASSUME NEW de, NEW last \in Ends(de), \A i \in Ends(de) : i \in Nat /\ last <= i,
           NEW groups, groups = SubSeq(de.bytes, de.read + 1, last)
    PROVE  DecodeLen(de) = Got(Worth(More, [i \in DOMAIN groups |-> groups[i] % More]),
                               [de EXCEPT !.read = last])
<1>1. PICK first : first = (CHOOSE i \in Ends(de) : \A j \in Ends(de) : i <= j)
  OBVIOUS
<1>2. first = last
  <2>1. first \in Ends(de) /\ \A j \in Ends(de) : first <= j
    BY <1>1
  <2>2. first \in Nat /\ last \in Nat /\ first <= last /\ last <= first
    BY <2>1
  <2> QED BY <2>2
<1>3. Ends(de) # {}
  OBVIOUS
<1>4. DecodeLen(de)
        = IF Ends(de) = {}
          THEN NotRead("EndOfStream", [de EXCEPT !.read = Len(de.bytes)])
          ELSE Got(Worth(More, [i \in DOMAIN SubSeq(de.bytes, de.read + 1, first) |->
                                  SubSeq(de.bytes, de.read + 1, first)[i] % More]),
                   [de EXCEPT !.read = first])
  BY <1>1 DEF DecodeLen, Ends
<1> QED BY <1>2, <1>3, <1>4

(* Every length that can be encoded is read back, from any stream and at   *)
(* any place of it, and what is read is what was written and no more (the  *)
(* test of all possible inputs that byte_len.rs leaves out for the time it *)
(* takes).                                                                 *)
THEOREM LengthsAreReadBack ==
    ASSUME NEW length \in 0..MaxByteLen, NEW de, Ahead(de, EncodeLen(length).bytes)
    PROVE  /\ EncodeLen(length).err = "none"
           /\ DecodeLen(de) = Got(length, Later(de, Len(EncodeLen(length).bytes)))
<1>1. EncodeLen(length) = Written(LenGroups(length)) /\ length \in Nat
  BY Encodable
<1>k. PICK k \in Nat : \E g : k > 0 /\ g = LenGroups(length) /\ GroupsOf(length, k, g)
  BY <1>1, GroupsAre
<1>2. PICK g : k > 0 /\ g = LenGroups(length) /\ GroupsOf(length, k, g)
  BY <1>k
<1>3. EncodeLen(length).bytes = g /\ EncodeLen(length).err = "none"
  BY <1>1, <1>2 DEF Written
<1>4. g \in Seq(Byte) /\ Len(g) = k /\ DOMAIN g = 1..k
  BY <1>2 DEF GroupsOf
<1>5. PICK r \in Nat, b \in Seq(Byte), n \in Nat : r = de.read /\ b = de.bytes /\ n = Len(b)
  BY DEF Ahead
<1>6. r + k <= n /\ \A i \in 1..k : b[r + i] = g[i]
  BY <1>3, <1>4, <1>5 DEF Ahead
<1>7. r + k \in Ends(de)
  <2>1. r + k \in (r + 1)..n /\ k \in 1..k
    BY <1>2, <1>6
  <2>2. b[r + k] < More
    BY <1>2, <1>6, <2>1 DEF GroupsOf
  <2> QED BY <1>5, <2>1, <2>2 DEF Ends
<1>8. ASSUME NEW j \in Ends(de)
      PROVE  j \in Nat /\ r + k <= j
  <2>1. j \in (r + 1)..n /\ b[j] < More
    BY <1>5 DEF Ends
  <2>2. SUFFICES ASSUME j < r + k
                 PROVE  FALSE
    BY <2>1
  <2>3. j - r \in 1..(k - 1) /\ j - r \in 1..k /\ r + (j - r) = j
    BY <2>1, <2>2
  <2>4. g[j - r] >= More /\ b[j] = g[j - r]
    BY <1>2, <1>6, <2>3 DEF GroupsOf
  <2>5. b[j] \in Nat /\ More \in Nat
    <3>1. j \in 1..n
      BY <2>1
    <3>2. b[j] \in Byte
      BY <1>5, <3>1
    <3> QED BY <3>2, BaseAssumption, MoreIs DEF Byte
  <2> QED BY <2>1, <2>4, <2>5
<1>9. SubSeq(b, r + 1, r + k) = g
  <2>1. k = Len(g) /\ r + k <= Len(b) /\ \A i \in 1..k : b[r + i] = g[i]
    BY <1>4, <1>5, <1>6
  <2> QED BY <1>4, <2>1, PartIs
<1>10. DecodeLen(de) = Got(Worth(More, [i \in DOMAIN g |-> g[i] % More]),
                           [de EXCEPT !.read = r + k])
  <2>1. g = SubSeq(de.bytes, de.read + 1, r + k)
    BY <1>5, <1>9
  <2> QED BY <1>7, <1>8, <2>1, DecodeLenIs
<1>11. Worth(More, [i \in DOMAIN g |-> g[i] % More]) = length
  BY <1>2, <1>4 DEF GroupsOf
<1>12. [de EXCEPT !.read = r + k] = Later(de, k)
  BY <1>5 DEF Later
<1> QED BY <1>3, <1>4, <1>10, <1>11, <1>12

(* The length of a sequence takes as few bytes as could hold it, and no    *)
(* more than ByteLen::MAX_SIZE, whatever the items that follow it begin    *)
(* with: what LengthsAreShortest asks for in the storage.                  *)
THEOREM LengthsTakeFewest ==
    ASSUME NEW length \in 0..MaxByteLen, NEW items \in Seq(Byte)
    PROVE  Shortest(EncodeLen(length).bytes \o items, length)
<1>1. EncodeLen(length) = Written(LenGroups(length)) /\ length \in Nat
  BY Encodable
<1>k. PICK k \in Nat : \E g : k > 0 /\ g = LenGroups(length) /\ GroupsOf(length, k, g)
  BY <1>1, GroupsAre
<1>2. PICK g : k > 0 /\ g = LenGroups(length) /\ GroupsOf(length, k, g)
  BY <1>k
<1>3. EncodeLen(length).bytes = g
  BY <1>1, <1>2 DEF Written
<1>4. g \in Seq(Byte) /\ Len(g) = k
  BY <1>2 DEF GroupsOf
<1>5. PICK s : s = g \o items
  OBVIOUS
<1>6. PICK n \in Nat : n >= k /\ DOMAIN s = 1..n
  <2>1. PICK m \in Nat : m = Len(items)
    OBVIOUS
  <2>2. g \o items \in Seq(Byte) /\ Len(g \o items) = k + m
    BY <1>4, <2>1
  <2>3. k + m \in Nat /\ k + m >= k
    OBVIOUS
  <2>4. DOMAIN s = 1..(k + m)
    BY <1>5, <2>2
  <2> QED BY <2>3, <2>4
<1>7. \A i \in 1..k : s[i] = g[i]
  BY <1>4, <1>5
<1>8. More \in Nat /\ More > 1 /\ \A i \in 1..k : g[i] \in Nat
  BY <1>2, BaseAssumption, MoreIs DEF GroupsOf, Byte
<1> DEFINE IsEnd(i) == s[i] < More /\ \A j \in 1..(i - 1) : s[j] >= More
<1>9. k \in DOMAIN s /\ IsEnd(k)
  <2>1. k \in 1..k /\ \A j \in 1..(k - 1) : j \in 1..k
    BY <1>2
  <2> QED BY <1>2, <1>6, <1>7, <2>1 DEF GroupsOf
<1>10. \A i \in DOMAIN s : IsEnd(i) => i = k
  <2>1. SUFFICES ASSUME NEW i \in 1..n, IsEnd(i), i # k
                 PROVE  FALSE
    BY <1>6
  <2>2. CASE i < k
    <3>1. i \in 1..k /\ i \in 1..(k - 1)
      BY <2>2
    <3>2. g[i] >= More /\ s[i] < More /\ s[i] = g[i]
      BY <1>2, <1>7, <2>1, <3>1 DEF GroupsOf
    <3> QED BY <1>8, <3>1, <3>2
  <2>3. CASE i > k
    <3>1. k \in 1..(i - 1) /\ k \in 1..k
      BY <1>2, <2>3
    <3>2. s[k] >= More /\ s[k] = g[k] /\ g[k] < More
      BY <1>2, <1>7, <2>1, <3>1 DEF GroupsOf
    <3> QED BY <1>8, <3>1, <3>2
  <2> QED BY <2>1, <2>2, <2>3
<1>11. Groups(s) = k
  BY <1>9, <1>10 DEF Groups
<1>12. length < Power(More, k) /\ (k > 1 => Power(More, k - 1) <= length)
  BY <1>2 DEF GroupsOf
<1>13. k <= MaxSize
  <2>1. SUFFICES ASSUME k > MaxSize
                 PROVE  FALSE
    BY <1>2, SizeAssumption
  <2>2. MaxSize \in 0..(k - 1) /\ k - 1 \in Nat /\ k > 1
    BY <2>1, SizeAssumption
  <2>3. Power(More, MaxSize) <= Power(More, k - 1)
    BY <1>8, <2>2, PowerMonotone
  <2>4. Power(More, MaxSize) \in Nat /\ Power(More, k - 1) \in Nat
    BY <2>2, SizeAssumption, PowerOfMore
  <2>5. length <= Power(More, MaxSize) - 1
    BY <2>4 DEF MaxByteLen
  <2> QED BY <1>1, <1>12, <2>2, <2>3, <2>4, <2>5
<1>14. Power(More, k) \in Nat /\ (k > 1 => Power(More, k - 1) \in Nat)
  <2>1. k > 1 => k - 1 \in Nat
    OBVIOUS
  <2> QED BY <2>1, PowerOfMore
<1>15. k \in 1..MaxSize
  BY <1>2, <1>13, SizeAssumption
<1> QED BY <1>1, <1>3, <1>5, <1>11, <1>12, <1>14, <1>15 DEF Shortest

(* A string of bytes is read back, by itself or in the middle of others.   *)
THEOREM BytesAreReadBack ==
    ASSUME NEW bytes \in Seq(Byte), Len(bytes) <= MaxByteLen,
           NEW de, Ahead(de, WriteBytes(bytes).bytes)
    PROVE  ReadBytes(de) = Got(bytes, Later(de, Len(WriteBytes(bytes).bytes)))
<1>1. PICK n \in Nat : n = Len(bytes)
  OBVIOUS
<1>2. n \in 0..MaxByteLen
  <2>1. MaxByteLen \in Int
    <3>1. Power(More, MaxSize) \in Nat
      BY SizeAssumption, PowerOfMore
    <3> QED BY <3>1 DEF MaxByteLen
  <2> QED BY <1>1, <2>1
<1>3. EncodeLen(n) = Written(LenGroups(n)) /\ n \in Nat
  BY <1>2, Encodable
<1>k. PICK k \in Nat : \E g : k > 0 /\ g = LenGroups(n) /\ GroupsOf(n, k, g)
  BY <1>3, GroupsAre
<1>4. PICK g : k > 0 /\ g = LenGroups(n) /\ GroupsOf(n, k, g)
  BY <1>k
<1>5. g \in Seq(Byte) /\ Len(g) = k
  BY <1>4 DEF GroupsOf
<1>6. EncodeLen(n).bytes = g /\ EncodeLen(n).err = "none"
  BY <1>3, <1>4 DEF Written
<1>7. WriteBytes(bytes).bytes = g \o bytes
  BY <1>1, <1>6 DEF WriteBytes, Then, Written
<1>8. Ahead(de, g) /\ Ahead(Later(de, k), bytes)
  BY <1>5, <1>7, AheadParts
<1>9. DecodeLen(de) = Got(n, Later(de, k))
  BY <1>2, <1>5, <1>6, <1>8, LengthsAreReadBack
<1>10. ReadN(Later(de, k), n) = Got(bytes, Later(Later(de, k), n))
  BY <1>1, <1>8, ReadAhead
<1>11. ReadBytes(de) = Got(bytes, Later(Later(de, k), n))
  BY <1>9, <1>10 DEF ReadBytes, AndThen, Got
<1>12. Later(Later(de, k), n) = Later(de, k + n)
  BY LaterStill DEF Ahead
<1>13. Len(g \o bytes) = k + n
  BY <1>1, <1>5
<1> QED BY <1>7, <1>11, <1>12, <1>13
=============================================================================
