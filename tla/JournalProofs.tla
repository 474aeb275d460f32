---------------------------- MODULE JournalProofs ----------------------------
(***************************************************************************)
(* Proofs about the undo journal, for any contracts, storages, accounts    *)
(* and coins: about the instances first, then about the bank.              *)
(***************************************************************************)
EXTENDS EnsembleState, EnsembleBank, Sums, TLAPS

(***************************************************************************)
(* The instances (EnsembleState).                                          *)
(***************************************************************************)
(* A nonempty set of naturals has a least element.                         *)
LEMMA LeastExists ==
    ASSUME NEW T \in SUBSET Nat, T # {}
    PROVE  \E x \in T : \A y \in T : x <= y
<1>1. \E x \in T : \A y \in T : ~(<<y, x>> \in OpToRel(<, Nat))
  BY NatLessThanWellFounded, WFMin, Zenon
<1>2. PICK x \in T : \A y \in T : ~(<<y, x>> \in OpToRel(<, Nat))
  BY <1>1
<1>3. \A y \in T : ~(y < x)
  BY <1>2 DEF OpToRel
<1> QED BY <1>3

(* A nonempty set of positions has a greatest element.                     *)
LEMMA GreatestExists ==
    ASSUME NEW n \in Nat, NEW T \in SUBSET (1..n), T # {}
    PROVE  \E x \in T : \A y \in T : y <= x
<1> DEFINE U == {n - y : y \in T}
<1>1. U \in SUBSET Nat /\ U # {}
  <2>1. PICK t \in T : TRUE
    OBVIOUS
  <2>2. n - t \in U
    BY <2>1
  <2>3. \A y \in T : n - y \in Nat
    OBVIOUS
  <2> QED BY <2>2, <2>3
<1>2. PICK u \in U : \A v \in U : u <= v
  BY <1>1, LeastExists
<1>3. PICK x \in T : u = n - x
  BY <1>2
<1>4. \A y \in T : n - x <= n - y
  BY <1>2, <1>3
<1> QED BY <1>4
-----------------------------------------------------------------------------
(* Reverting, as a function of the journal and of the instances.           *)

Journals == Seq(Seq(Op))

(* What a scope restores under a key it wrote is a value or a hole.        *)
LEMMA RestoredType ==
    ASSUME NEW scope \in Seq(Op), NEW a, NEW k, WritesTo(scope, a, k) # {}
    PROVE  Restored(scope, a, k) \in Value \cup {Missing}
<1> DEFINE W == WritesTo(scope, a, k)
<1>1. W \in SUBSET (1..Len(scope)) /\ Len(scope) \in Nat
  BY DEF WritesTo
<1>2. \E n \in W : \A m \in W : m <= n
  BY <1>1, GreatestExists
<1>3. (CHOOSE n \in W : \A m \in W : m <= n) \in W
  BY <1>2
<1>4. \A n \in W : scope[n] \in Op /\ scope[n].op = "write"
  BY <1>1 DEF WritesTo
<1>5. \A n \in W : scope[n].old \in Value \cup {Missing}
  BY <1>4 DEF Op, CreateOp, WriteOp
<1> QED BY <1>3, <1>5 DEF Restored

(* The scope that decides a key is the oldest one that wrote it.           *)
LEMMA OldestDecides ==
    ASSUME NEW w, NEW J \in Journals, NEW i \in 1..Len(J), NEW a, NEW k,
           Touching(J, i, a, k) # {}
    PROVE  \E s \in Touching(J, i, a, k) :
              /\ \A t \in Touching(J, i, a, k) : s <= t
              /\ KeyReverted(w, J, i, a, k) = Restored(J[s], a, k)
<1> DEFINE T == Touching(J, i, a, k)
<1>1. T \in SUBSET Nat
  BY DEF Touching, Journals
<1>2. \E s \in T : \A t \in T : s <= t
  BY <1>1, LeastExists
<1> DEFINE s == CHOOSE s \in T : \A t \in T : s <= t
<1>3. s \in T /\ \A t \in T : s <= t
  BY <1>2
<1>4. KeyReverted(w, J, i, a, k) = Restored(J[s], a, k)
  BY DEF KeyReverted
<1> QED BY <1>3, <1>4

LEMMA OldestIsUnique ==
    ASSUME NEW w, NEW J \in Journals, NEW i \in 1..Len(J), NEW a, NEW k,
           NEW s \in Touching(J, i, a, k),
           \A t \in Touching(J, i, a, k) : s <= t
    PROVE  KeyReverted(w, J, i, a, k) = Restored(J[s], a, k)
<1>1. PICK r \in Touching(J, i, a, k) :
             /\ \A t \in Touching(J, i, a, k) : r <= t
             /\ KeyReverted(w, J, i, a, k) = Restored(J[r], a, k)
  BY OldestDecides
<1>2. r <= s /\ s <= r
  BY <1>1
<1>3. r \in Nat /\ s \in Nat
  BY DEF Touching, Journals
<1>4. r = s
  BY <1>2, <1>3
<1> QED BY <1>1, <1>4

(* Reverting an instance that stays gives it back values and holes.        *)
LEMMA KeyRevertedType ==
    ASSUME NEW w \in Instances, NEW J \in Journals, NEW i \in 1..Len(J),
           NEW a \in Address, NEW k \in Key, w[a] # NoInstance
    PROVE  KeyReverted(w, J, i, a, k) \in Value \cup {Missing}
<1>1. CASE Touching(J, i, a, k) = {}
  <2>1. w[a] \in Storage
    BY DEF Instances
  <2> QED BY <1>1, <2>1 DEF KeyReverted, Storage
<1>2. CASE Touching(J, i, a, k) # {}
  <2>1. PICK s \in Touching(J, i, a, k) :
             KeyReverted(w, J, i, a, k) = Restored(J[s], a, k)
    BY <1>2, OldestDecides
  <2>2. J[s] \in Seq(Op) /\ WritesTo(J[s], a, k) # {}
    BY <2>1 DEF Touching, Journals
  <2> QED BY <2>1, <2>2, RestoredType
<1> QED BY <1>1, <1>2

(* Reverting yields instances.                                             *)
LEMMA RevertedType ==
    ASSUME NEW w \in Instances, NEW J \in Journals, NEW i \in 1..Len(J)
    PROVE  Reverted(w, J, i) \in Instances
<1>1. ASSUME NEW a \in Address, ~Gone(w, J, i, a)
      PROVE  [k \in Key |-> KeyReverted(w, J, i, a, k)] \in Storage
  BY <1>1, KeyRevertedType DEF Gone, Storage
<1> QED BY <1>1 DEF Reverted, Instances

(* A scope just opened changes nothing about reverting the older ones, and *)
(* reverting it alone changes nothing at all.                              *)
LEMMA RevertNewScope ==
    ASSUME NEW w \in Instances, NEW J \in Journals
    PROVE  /\ \A i \in 1..Len(J) : Reverted(w, Append(J, <<>>), i)
                                      = Reverted(w, J, i)
           /\ Reverted(w, Append(J, <<>>), Len(J) + 1) = w
<1> DEFINE K == Append(J, <<>>)
<1>1. /\ Len(K) = Len(J) + 1
      /\ \A s \in 1..Len(J) : K[s] = J[s]
      /\ K[Len(J) + 1] = <<>>
      /\ K \in Journals
      /\ Len(J) \in Nat
  BY DEF Journals
<1> HIDE DEF K
<1>2. \A a, k : ~Creates(<<>>, a) /\ WritesTo(<<>>, a, k) = {}
  BY DEF Creates, WritesTo
<1>3. ASSUME NEW i \in 1..Len(J)
      PROVE  Reverted(w, K, i) = Reverted(w, J, i)
  <2>1. ASSUME NEW a \in Address
        PROVE  Gone(w, K, i, a) <=> Gone(w, J, i, a)
    BY <1>1, <1>2 DEF Gone
  <2>2. ASSUME NEW a \in Address, NEW k \in Key
        PROVE  KeyReverted(w, K, i, a, k) = KeyReverted(w, J, i, a, k)
    <3>1. Touching(K, i, a, k) = Touching(J, i, a, k)
      BY <1>1, <1>2 DEF Touching
    <3>2. CASE Touching(J, i, a, k) = {}
      BY <3>1, <3>2 DEF KeyReverted
    <3>3. CASE Touching(J, i, a, k) # {}
      <4>1. PICK s \in Touching(J, i, a, k) :
                 \A t \in Touching(J, i, a, k) : s <= t
        BY <3>3, OldestDecides
      <4>2. K[s] = J[s]
        BY <1>1, <4>1 DEF Touching
      <4>3. K \in Journals /\ i \in 1..Len(K)
        BY <1>1
      <4>4. KeyReverted(w, K, i, a, k) = Restored(K[s], a, k)
        BY <3>1, <4>1, <4>3, OldestIsUnique
      <4> QED BY <4>1, <4>2, <4>4, OldestIsUnique
    <3> QED BY <3>2, <3>3
  <2> QED BY <2>1, <2>2 DEF Reverted
<1>4. Reverted(w, K, Len(J) + 1) = w
  <2>1. \A a \in Address : Gone(w, K, Len(J) + 1, a) <=> w[a] = NoInstance
    BY <1>1, <1>2 DEF Gone
  <2>2. \A a, k : Touching(K, Len(J) + 1, a, k) = {}
    BY <1>1, <1>2 DEF Touching
  <2>3. \A a, k : KeyReverted(w, K, Len(J) + 1, a, k) = w[a][k]
    BY <2>2 DEF KeyReverted
  <2>4. ASSUME NEW a \in Address, w[a] # NoInstance
        PROVE  w[a] = [k \in Key |-> w[a][k]]
    BY <2>4 DEF Instances, Storage
  <2> QED BY <2>1, <2>3, <2>4 DEF Reverted, Instances
<1> QED BY <1>3, <1>4 DEF K

(* Reverting part of the way and then further is reverting all the way.    *)
LEMMA RevertComposes ==
    ASSUME NEW w \in Instances, NEW J \in Journals,
           NEW j \in 1..Len(J), NEW i \in 1..(j - 1)
    PROVE  Reverted(Reverted(w, J, j), SubSeq(J, 1, j - 1), i)
           = Reverted(w, J, i)
<1> DEFINE K == SubSeq(J, 1, j - 1)
           v == Reverted(w, J, j)
<1>1. /\ Len(K) = j - 1
      /\ \A s \in 1..(j - 1) : K[s] = J[s]
      /\ K \in Journals
      /\ Len(J) \in Nat
      /\ i \in 1..Len(J) /\ i \in 1..Len(K)
  BY DEF Journals
<1>2. /\ v = Reverted(w, J, j)
      /\ v \in Instances
  BY RevertedType
<1> HIDE DEF K, v
<1>3. ASSUME NEW a \in Address
      PROVE  Gone(v, K, i, a) <=> Gone(w, J, i, a)
  <2>1. v[a] = NoInstance <=> Gone(w, J, j, a)
    <3>1. CASE Gone(w, J, j, a)
      BY <1>2, <3>1 DEF Reverted
    <3>2. CASE ~Gone(w, J, j, a)
      <4>1. v[a] = [k \in Key |-> KeyReverted(w, J, j, a, k)]
        BY <1>2, <3>2 DEF Reverted
      <4>2. v[a] \in [Key -> Value \cup {Missing}]
        BY <3>2, <4>1, KeyRevertedType DEF Gone
      <4> QED BY <3>2, <4>2, EnsembleStateAssumption
    <3> QED BY <3>1, <3>2
  <2>2. \A s \in i..Len(J) : s \in i..Len(K) \/ s \in j..Len(J)
    BY <1>1
  <2>3. \A s \in i..Len(K) : s \in i..Len(J) /\ K[s] = J[s]
    BY <1>1
  <2>4. \A s \in j..Len(J) : s \in i..Len(J)
    BY <1>1
  <2> QED BY <2>1, <2>2, <2>3, <2>4 DEF Gone
<1>4. ASSUME NEW a \in Address, NEW k \in Key, ~Gone(w, J, i, a)
      PROVE  KeyReverted(v, K, i, a, k) = KeyReverted(w, J, i, a, k)
  <2>1. Touching(K, i, a, k) = Touching(J, i, a, k) \cap (1..(j - 1))
    BY <1>1 DEF Touching
  <2>2. CASE Touching(K, i, a, k) = {}
    <3>1. ~Gone(w, J, j, a)
      BY <1>1, <1>4 DEF Gone
    <3>2. v[a][k] = KeyReverted(w, J, j, a, k)
      BY <1>2, <3>1 DEF Reverted
    <3>3. KeyReverted(v, K, i, a, k) = KeyReverted(w, J, j, a, k)
      BY <2>2, <3>2 DEF KeyReverted
    <3>4. Touching(J, j, a, k) = Touching(J, i, a, k)
      <4>1. \A s \in i..Len(J) : s \in 1..(j - 1) \/ s \in j..Len(J)
        BY <1>1
      <4>2. \A s \in j..Len(J) : s \in i..Len(J)
        BY <1>1
      <4> QED BY <2>1, <2>2, <4>1, <4>2 DEF Touching
    <3>5. KeyReverted(w, J, j, a, k) = KeyReverted(w, J, i, a, k)
      <4>1. CASE Touching(J, i, a, k) = {}
        BY <3>4, <4>1 DEF KeyReverted
      <4>2. CASE Touching(J, i, a, k) # {}
        BY <1>1, <3>4, <4>2, OldestDecides, OldestIsUnique
      <4> QED BY <4>1, <4>2
    <3> QED BY <3>3, <3>5
  <2>3. CASE Touching(K, i, a, k) # {}
    <3>1. PICK s \in Touching(K, i, a, k) :
               /\ \A t \in Touching(K, i, a, k) : s <= t
               /\ KeyReverted(v, K, i, a, k) = Restored(K[s], a, k)
      BY <1>1, <2>3, OldestDecides
    <3>2. K[s] = J[s]
      BY <1>1, <2>1, <3>1
    <3>3. ASSUME NEW t \in Touching(J, i, a, k)
          PROVE  s <= t
      <4>1. s \in 1..(j - 1) /\ t \in 1..Len(J)
        BY <1>1, <2>1 DEF Touching
      <4>2. t \in 1..(j - 1) => s <= t
        BY <2>1, <3>1
      <4> QED BY <1>1, <4>1, <4>2
    <3>4. KeyReverted(w, J, i, a, k) = Restored(J[s], a, k)
      BY <1>1, <2>1, <3>1, <3>3, OldestIsUnique
    <3> QED BY <3>1, <3>2, <3>4
  <2> QED BY <2>2, <2>3
<1> QED
  <2>1. Reverted(v, K, i) = Reverted(w, J, i)
    BY <1>3, <1>4 DEF Reverted
  <2> QED BY <2>1 DEF K, v
-----------------------------------------------------------------------------
(* One more record in a scope.                                             *)

Written(J, op) == [J EXCEPT ![Len(J)] = Append(J[Len(J)], op)]

Extends(S, scope, op) ==
    /\ S \in Seq(Op)
    /\ Len(S) = Len(scope) + 1
    /\ \A n \in 1..Len(scope) : S[n] = scope[n]
    /\ S[Len(scope) + 1] = op

Hits(op, a, k) == op.op = "write" /\ op.address = a /\ op.key = k

(* The record is the only new creation that a scope can hold.              *)
LEMMA CreatesWithRecord ==
    ASSUME NEW scope \in Seq(Op), NEW op, NEW a, NEW S, Extends(S, scope, op)
    PROVE  Creates(S, a) <=> \/ Creates(scope, a)
                             \/ op.op = "create" /\ op.address = a
BY DEF Creates, Extends

(* It leaves alone the keys that it does not name.                         *)
LEMMA RecordMisses ==
    ASSUME NEW scope \in Seq(Op), NEW op, NEW a, NEW k,
           NEW S, Extends(S, scope, op), ~Hits(op, a, k)
    PROVE  /\ WritesTo(S, a, k) = WritesTo(scope, a, k)
           /\ WritesTo(scope, a, k) # {} =>
                 Restored(S, a, k) = Restored(scope, a, k)
<1> DEFINE W == WritesTo(scope, a, k)
<1>1. WritesTo(S, a, k) = W
  BY DEF WritesTo, Extends, Hits
<1>2. ASSUME W # {}
      PROVE  Restored(S, a, k) = Restored(scope, a, k)
  <2>1. W \in SUBSET (1..Len(scope)) /\ Len(scope) \in Nat
    BY DEF WritesTo
  <2> DEFINE last == CHOOSE n \in W : \A m \in W : m <= n
  <2>2. last \in W
    <3>1. \E n \in W : \A m \in W : m <= n
      BY <1>2, <2>1, GreatestExists
    <3> QED BY <3>1
  <2>3. S[last] = scope[last]
    BY <2>1, <2>2 DEF Extends
  <2> QED BY <1>1, <2>3 DEF Restored
<1> QED BY <1>1, <1>2

(* The first record of a key is the one its scope restores.                *)
LEMMA RecordHits ==
    ASSUME NEW scope \in Seq(Op), NEW op, NEW a, NEW k,
           NEW S, Extends(S, scope, op), Hits(op, a, k),
           WritesTo(scope, a, k) = {}
    PROVE  /\ WritesTo(S, a, k) # {}
           /\ Restored(S, a, k) = op.old
<1> DEFINE n == Len(scope) + 1
<1>1. n \in Nat /\ DOMAIN S = 1..n /\ S[n] = op
  BY DEF Extends
<1>2. WritesTo(S, a, k) = {n}
  BY <1>1 DEF WritesTo, Extends, Hits
<1>3. (CHOOSE i \in {n} : \A m \in {n} : m <= i) = n
  BY <1>1
<1> QED BY <1>1, <1>2, <1>3 DEF Restored

(* The journal with one more record in its last scope.                     *)
LEMMA RecordedJournal ==
    ASSUME NEW J \in Journals, J # <<>>, NEW op \in Op
    PROVE  /\ Len(J) \in Nat \ {0}
           /\ J[Len(J)] \in Seq(Op)
           /\ Written(J, op) \in Journals
           /\ Len(Written(J, op)) = Len(J)
           /\ Extends(Written(J, op)[Len(J)], J[Len(J)], op)
           /\ \A s \in 1..Len(J) : s # Len(J) => Written(J, op)[s] = J[s]
BY DEF Journals, Written, Extends

(* A record leaves what other scopes, and this one under other keys, say.  *)
LEMMA RecordElsewhere ==
    ASSUME NEW J \in Journals, J # <<>>, NEW op \in Op,
           NEW w, NEW v, NEW i \in 1..Len(J), NEW a, NEW k,
           ~Hits(op, a, k),
           v[a][k] = w[a][k]
    PROVE  KeyReverted(v, Written(J, op), i, a, k) = KeyReverted(w, J, i, a, k)
<1> DEFINE K == Written(J, op)
           n == Len(J)
<1>1. n \in Nat \ {0} /\ J[n] \in Seq(Op)
  BY RecordedJournal
<1>2. /\ K \in Journals
      /\ Len(K) = n
      /\ Extends(K[n], J[n], op)
      /\ \A s \in 1..n : s # n => K[s] = J[s]
  BY RecordedJournal
<1> HIDE DEF K
<1>3. \A s \in 1..n :
        /\ WritesTo(K[s], a, k) = WritesTo(J[s], a, k)
        /\ WritesTo(J[s], a, k) # {} => Restored(K[s], a, k) = Restored(J[s], a, k)
  <2>1. /\ WritesTo(K[n], a, k) = WritesTo(J[n], a, k)
        /\ WritesTo(J[n], a, k) # {} => Restored(K[n], a, k) = Restored(J[n], a, k)
    BY <1>1, <1>2, RecordMisses
  <2> QED BY <1>2, <2>1
<1>4. Touching(K, i, a, k) = Touching(J, i, a, k)
  <2>1. \A s \in i..n : s \in 1..n
    BY <1>1
  <2> QED BY <1>2, <1>3, <2>1 DEF Touching
<1>5. CASE Touching(J, i, a, k) = {}
  BY <1>4, <1>5 DEF KeyReverted, K
<1>6. CASE Touching(J, i, a, k) # {}
  <2>1. PICK s \in Touching(J, i, a, k) :
             /\ \A t \in Touching(J, i, a, k) : s <= t
             /\ KeyReverted(w, J, i, a, k) = Restored(J[s], a, k)
    BY <1>6, OldestDecides
  <2>2. KeyReverted(v, K, i, a, k) = Restored(K[s], a, k)
    BY <1>2, <1>4, <2>1, OldestIsUnique
  <2>3. s \in 1..n /\ WritesTo(J[s], a, k) # {}
    BY <1>1, <2>1 DEF Touching
  <2> QED BY <1>3, <2>1, <2>2, <2>3 DEF K
<1> QED BY <1>5, <1>6

(* The first record of a key in the last scope undoes the write it records.*)
LEMMA RecordUndoes ==
    ASSUME NEW J \in Journals, J # <<>>, NEW op \in Op,
           NEW w, NEW v, NEW i \in 1..Len(J), NEW a, NEW k,
           Hits(op, a, k), op.old = w[a][k],
           WritesTo(J[Len(J)], a, k) = {}
    PROVE  KeyReverted(v, Written(J, op), i, a, k) = KeyReverted(w, J, i, a, k)
<1> DEFINE K == Written(J, op)
           n == Len(J)
<1>1. n \in Nat \ {0} /\ J[n] \in Seq(Op)
  BY RecordedJournal
<1>2. /\ K \in Journals
      /\ Len(K) = n
      /\ Extends(K[n], J[n], op)
      /\ \A s \in 1..n : s # n => K[s] = J[s]
  BY RecordedJournal
<1> HIDE DEF K
<1>3. WritesTo(K[n], a, k) # {} /\ Restored(K[n], a, k) = w[a][k]
  <2>1. Hits(op, a, k) /\ WritesTo(J[n], a, k) = {}
    OBVIOUS
  <2>2. WritesTo(K[n], a, k) # {} /\ Restored(K[n], a, k) = op.old
    BY <1>1, <1>2, <2>1, RecordHits DEF Hits
  <2> QED BY <2>2
<1>4. Touching(K, i, a, k) = Touching(J, i, a, k) \cup {n}
  <2>1. \A s \in i..n : s \in 1..n
    BY <1>1
  <2>2. n \in i..n
    BY <1>1
  <2> QED BY <1>2, <1>3, <2>1, <2>2 DEF Touching
<1>5. \A s \in Touching(J, i, a, k) : s \in 1..n /\ s # n
  BY <1>1 DEF Touching
<1>6. CASE Touching(J, i, a, k) = {}
  <2>1. Touching(K, i, a, k) = {n} /\ n <= n
    BY <1>1, <1>4, <1>6
  <2>2. KeyReverted(v, K, i, a, k) = Restored(K[n], a, k)
    BY <1>2, <2>1, OldestIsUnique
  <2>3. KeyReverted(w, J, i, a, k) = w[a][k]
    BY <1>6 DEF KeyReverted
  <2> QED BY <1>3, <2>2, <2>3 DEF K
<1>7. CASE Touching(J, i, a, k) # {}
  <2>1. PICK s \in Touching(J, i, a, k) :
             /\ \A t \in Touching(J, i, a, k) : s <= t
             /\ KeyReverted(w, J, i, a, k) = Restored(J[s], a, k)
    BY <1>7, OldestDecides
  <2>2. s <= n
    BY <1>1, <1>5, <2>1
  <2>3. s \in Touching(K, i, a, k) /\ \A t \in Touching(K, i, a, k) : s <= t
    BY <1>4, <2>1, <2>2
  <2>4. KeyReverted(v, K, i, a, k) = Restored(K[s], a, k)
    BY <1>2, <2>3, OldestIsUnique
  <2> QED BY <1>2, <1>5, <2>1, <2>4 DEF K
<1> QED BY <1>6, <1>7

(* Writing a key for the first time in a scope, and recording what it held,*)
(* changes nothing about what reverting finds.                             *)
LEMMA RevertWrite ==
    ASSUME NEW w \in Instances, NEW J \in Journals, J # <<>>,
           NEW a \in Address, NEW k \in Key, w[a] # NoInstance,
           NEW new \in Value \cup {Missing},
           WritesTo(J[Len(J)], a, k) = {},
           NEW op \in Op, Hits(op, a, k), op.old = w[a][k],
           NEW i \in 1..Len(J)
    PROVE  Reverted([w EXCEPT ![a][k] = new], Written(J, op), i)
           = Reverted(w, J, i)
<1> DEFINE v == [w EXCEPT ![a][k] = new]
           K == Written(J, op)
           n == Len(J)
<1>1. w[a] \in Storage
  BY DEF Instances
<1>2. op.op = "write" /\ op.address = a /\ op.key = k
  BY DEF Hits
<1>3. /\ n \in Nat \ {0}
      /\ J[n] \in Seq(Op)
      /\ Len(K) = n
      /\ Extends(K[n], J[n], op)
      /\ \A s \in 1..n : s # n => K[s] = J[s]
  BY <1>2, RecordedJournal
<1>4. \A b \in Address : b # a => v[b] = w[b]
  BY DEF Instances
<1>5. v[a] = [w[a] EXCEPT ![k] = new]
  BY DEF Instances
<1>6. v[a] \in Storage /\ v[a] # NoInstance
  BY <1>1, <1>5, EnsembleStateAssumption DEF Storage
<1>7. \A l \in Key : l # k => v[a][l] = w[a][l]
  BY <1>1, <1>5 DEF Storage
<1> HIDE DEF v, K
<1>8. ASSUME NEW b \in Address
      PROVE  Gone(v, K, i, b) <=> Gone(w, J, i, b)
  <2>1. v[b] = NoInstance <=> w[b] = NoInstance
    BY <1>4, <1>6
  <2>2. \A s \in 1..n : Creates(K[s], b) <=> Creates(J[s], b)
    BY <1>2, <1>3, CreatesWithRecord
  <2>3. \A s \in i..n : s \in 1..n
    BY <1>3
  <2> QED BY <1>3, <2>1, <2>2, <2>3 DEF Gone
<1>9. ASSUME NEW b \in Address, NEW l \in Key
      PROVE  KeyReverted(v, K, i, b, l) = KeyReverted(w, J, i, b, l)
  <2>1. CASE b = a /\ l = k
    <3>1. Hits(op, b, l)
      BY <1>2, <2>1 DEF Hits
    <3> QED BY <1>2, <2>1, <3>1, RecordUndoes DEF K
  <2>2. CASE ~(b = a /\ l = k)
    <3>1. ~Hits(op, b, l)
      BY <1>2, <2>2 DEF Hits
    <3>2. v[b][l] = w[b][l]
      BY <1>4, <1>7, <2>2
    <3> QED BY <1>2, <3>1, <3>2, RecordElsewhere DEF K
  <2> QED BY <2>1, <2>2
<1> QED
  <2>1. Reverted(v, K, i) = Reverted(w, J, i)
    BY <1>8, <1>9 DEF Reverted
  <2> QED BY <2>1 DEF v, K

(* The same of the creation of an instance, the first record of its scope. *)
LEMMA RevertCreate ==
    ASSUME NEW w \in Instances, NEW J \in Journals, J # <<>>,
           NEW a \in Address, w[a] = NoInstance,
           NEW storage \in Storage,
           NEW op \in Op, op.op = "create", op.address = a,
           NEW i \in 1..Len(J)
    PROVE  Reverted([w EXCEPT ![a] = storage], Written(J, op), i)
           = Reverted(w, J, i)
<1> DEFINE v == [w EXCEPT ![a] = storage]
           K == Written(J, op)
           n == Len(J)
<1>1. op \in Op /\ op.op = "create" /\ op.address = a
  OBVIOUS
<1>2. /\ n \in Nat \ {0}
      /\ J[n] \in Seq(Op)
      /\ Len(K) = n
      /\ Extends(K[n], J[n], op)
      /\ \A s \in 1..n : s # n => K[s] = J[s]
  BY <1>1, RecordedJournal
<1>3. \A b \in Address : b # a => v[b] = w[b]
  BY DEF Instances
<1> HIDE DEF v, K
<1>4. Gone(v, K, i, a) /\ Gone(w, J, i, a)
  <2>1. Creates(K[n], a) /\ n \in i..Len(K)
    BY <1>1, <1>2, CreatesWithRecord
  <2> QED BY <2>1 DEF Gone
<1>5. ASSUME NEW b \in Address, b # a
      PROVE  Gone(v, K, i, b) <=> Gone(w, J, i, b)
  <2>1. \A s \in 1..n : Creates(K[s], b) <=> Creates(J[s], b)
    BY <1>1, <1>2, <1>5, CreatesWithRecord
  <2>2. \A s \in i..n : s \in 1..n
    BY <1>2
  <2> QED BY <1>2, <1>3, <1>5, <2>1, <2>2 DEF Gone
<1>6. ASSUME NEW b \in Address, NEW l \in Key, b # a
      PROVE  KeyReverted(v, K, i, b, l) = KeyReverted(w, J, i, b, l)
  <2>1. ~Hits(op, b, l) /\ v[b][l] = w[b][l]
    BY <1>1, <1>3, <1>6 DEF Hits
  <2> QED BY <1>1, <2>1, RecordElsewhere DEF K
<1> QED
  <2>1. Reverted(v, K, i) = Reverted(w, J, i)
    BY <1>4, <1>5, <1>6 DEF Reverted
  <2> QED BY <2>1 DEF v, K
-----------------------------------------------------------------------------
(* The inductive invariant: while no scope writes a key twice, the records *)
(* of the open scopes determine the instances at each of their openings.   *)
IInv == TypeOK /\ RollbackIsExact

LEMMA InitIInv == Init => IInv
<1> SUFFICES ASSUME Init PROVE IInv
  OBVIOUS
<1>1. instances \in Instances
  BY DEF Init, Instances
<1> QED BY <1>1 DEF Init, IInv, TypeOK, RollbackIsExact

(* Every write of a contract, in whichever scope is on top.                *)
LEMMA WriteIInv ==
    ASSUME WritesPerKey = 1, IInv,
           NEW a \in Address, NEW k \in Key,
           NEW new \in Value \cup {Missing},
           MayWrite(a, k), Write(a, k, new)
    PROVE  IInv'
<1> DEFINE n == Len(scopes)
           op == [op |-> "write", address |-> a, key |-> k,
                  old |-> instances[a][k]]
<1>1. /\ instances \in Instances
      /\ scopes \in Journals
      /\ saved \in Seq(Instances)
      /\ Len(saved) = n
      /\ scopes # <<>>
      /\ n \in Nat \ {0}
      /\ instances[a] # NoInstance
  BY DEF IInv, TypeOK, Journals, MayWrite, InScope
<1>2. instances[a] \in Storage
  BY <1>1 DEF Instances
<1>3. op \in Op /\ Hits(op, a, k) /\ op.old = instances[a][k]
  BY <1>2 DEF Op, WriteOp, Storage, Hits
<1>4. WritesTo(Top, a, k) = {}
  <2>1. WritesTo(Top, a, k) \in SUBSET (1..Len(Top)) /\ Len(Top) \in Nat
    BY <1>1 DEF WritesTo, Top, Journals
  <2>2. IsFiniteSet(WritesTo(Top, a, k))
    <3>1. IsFiniteSet(1..Len(Top))
      BY <2>1, FS_Interval
    <3> QED BY <2>1, <3>1, FS_Subset
  <2>3. Cardinality(WritesTo(Top, a, k)) < 1
    BY DEF MayWrite
  <2> QED BY <2>2, <2>3, FS_CardinalityType, FS_EmptySet
<1>5. /\ instances' = [instances EXCEPT ![a][k] = new]
      /\ scopes' = Written(scopes, op)
      /\ saved' = saved
  BY DEF Write, Record, Top, Written
<1>6. scopes' \in Journals /\ Len(scopes') = n
  BY <1>1, <1>3, <1>5, RecordedJournal
<1>7. instances' \in Instances
  BY <1>1, <1>2, <1>5 DEF Instances, Storage
<1>8. ASSUME NEW i \in 1..n
      PROVE  Reverted(instances', scopes', i) = saved'[i]
  <2>1. Reverted(instances', scopes', i) = Reverted(instances, scopes, i)
    <3> HIDE DEF op
    <3>1. WritesTo(scopes[Len(scopes)], a, k) = {}
      BY <1>4 DEF Top
    <3>2. Reverted([instances EXCEPT ![a][k] = new], Written(scopes, op), i)
          = Reverted(instances, scopes, i)
      BY <1>1, <1>3, <3>1, RevertWrite DEF Hits
    <3> QED BY <1>5, <3>2
  <2> QED BY <1>1, <1>5, <2>1 DEF IInv, RollbackIsExact
<1> QED BY <1>1, <1>5, <1>6, <1>7, <1>8
        DEF IInv, TypeOK, RollbackIsExact, Journals

LEMMA CreateIInv ==
    ASSUME IInv, NEW a \in Address, CreateContractInstance(a)
    PROVE  IInv'
<1> DEFINE n == Len(scopes)
           op == [op |-> "create", address |-> a]
           empty == [k \in Key |-> Missing]
<1>1. /\ instances \in Instances
      /\ scopes \in Journals
      /\ saved \in Seq(Instances)
      /\ Len(saved) = n
      /\ scopes # <<>>
      /\ n \in Nat \ {0}
      /\ instances[a] = NoInstance
  BY DEF IInv, TypeOK, Journals, CreateContractInstance, InScope
<1>2. op \in Op /\ op.op = "create" /\ op.address = a /\ empty \in Storage
  BY DEF Op, CreateOp, Storage
<1>3. /\ instances' = [instances EXCEPT ![a] = empty]
      /\ scopes' = Written(scopes, op)
      /\ saved' = saved
  BY DEF CreateContractInstance, Record, Top, Written
<1>4. scopes' \in Journals /\ Len(scopes') = n
  BY <1>1, <1>2, <1>3, RecordedJournal
<1>5. instances' \in Instances
  BY <1>1, <1>2, <1>3 DEF Instances
<1>6. ASSUME NEW i \in 1..n
      PROVE  Reverted(instances', scopes', i) = saved'[i]
  <2>1. Reverted(instances', scopes', i) = Reverted(instances, scopes, i)
    <3> HIDE DEF op, empty
    <3>1. i \in 1..Len(scopes)
      OBVIOUS
    <3>2. Reverted([instances EXCEPT ![a] = empty], Written(scopes, op), i)
          = Reverted(instances, scopes, i)
      BY <1>1, <1>2, <3>1, RevertCreate
    <3> QED BY <1>3, <3>2
  <2> QED BY <1>1, <1>3, <2>1 DEF IInv, RollbackIsExact
<1> QED BY <1>1, <1>3, <1>4, <1>5, <1>6
        DEF IInv, TypeOK, RollbackIsExact, Journals

LEMMA PushScopeIInv == IInv /\ PushScope => IInv'
<1> SUFFICES ASSUME IInv, PushScope PROVE IInv'
  OBVIOUS
<1> DEFINE n == Len(scopes)
<1>1. /\ instances \in Instances
      /\ scopes \in Journals
      /\ saved \in Seq(Instances)
      /\ Len(saved) = n
      /\ n \in Nat
  BY DEF IInv, TypeOK, Journals
<1>2. /\ instances' = instances
      /\ scopes' = Append(scopes, <<>>)
      /\ saved' = Append(saved, instances)
  BY DEF PushScope
<1>3. scopes' \in Journals /\ Len(scopes') = n + 1
  BY <1>1, <1>2 DEF Journals
<1>4. /\ saved' \in Seq(Instances)
      /\ Len(saved') = n + 1
      /\ saved'[n + 1] = instances
      /\ \A i \in 1..n : saved'[i] = saved[i]
  BY <1>1, <1>2
<1>5. ASSUME NEW i \in 1..(n + 1)
      PROVE  Reverted(instances', scopes', i) = saved'[i]
  <2>1. CASE i = n + 1
    BY <1>1, <1>2, <1>4, <2>1, RevertNewScope
  <2>2. CASE i # n + 1
    <3>1. i \in 1..n
      BY <1>1, <2>2
    <3>2. Reverted(instances', scopes', i) = Reverted(instances, scopes, i)
      BY <1>1, <1>2, <3>1, RevertNewScope
    <3> QED BY <1>4, <3>1, <3>2 DEF IInv, RollbackIsExact
  <2> QED BY <2>1, <2>2
<1> QED BY <1>1, <1>2, <1>3, <1>4, <1>5
        DEF IInv, TypeOK, RollbackIsExact, Journals

LEMMA RevertIInv ==
    ASSUME IInv, NEW j \in 1..Len(scopes), RevertTo(j)
    PROVE  IInv'
<1>1. /\ instances \in Instances
      /\ scopes \in Journals
      /\ saved \in Seq(Instances)
      /\ Len(saved) = Len(scopes)
      /\ Len(scopes) \in Nat
  BY DEF IInv, TypeOK, Journals
<1>2. /\ instances' = Reverted(instances, scopes, j)
      /\ scopes' = SubSeq(scopes, 1, j - 1)
      /\ saved' = SubSeq(saved, 1, j - 1)
  BY DEF RevertTo
<1>3. instances' \in Instances
  BY <1>1, <1>2, RevertedType
<1>4. scopes' \in Journals /\ Len(scopes') = j - 1
  BY <1>1, <1>2 DEF Journals
<1>5. /\ saved' \in Seq(Instances)
      /\ Len(saved') = j - 1
      /\ \A i \in 1..(j - 1) : saved'[i] = saved[i]
  BY <1>1, <1>2
<1>6. ASSUME NEW i \in 1..(j - 1)
      PROVE  Reverted(instances', scopes', i) = saved'[i]
  <2>1. Reverted(instances', scopes', i) = Reverted(instances, scopes, i)
    BY <1>1, <1>2, RevertComposes
  <2>2. i \in 1..Len(scopes)
    BY <1>1
  <2> QED BY <1>5, <2>1, <2>2 DEF IInv, RollbackIsExact
<1> QED BY <1>3, <1>4, <1>5, <1>6
        DEF IInv, TypeOK, RollbackIsExact, Journals

LEMMA CommitIInv == IInv /\ Commit => IInv'
BY DEF IInv, TypeOK, RollbackIsExact, Commit

LEMMA NextIInv ==
    ASSUME WritesPerKey = 1, IInv, [Next]_vars
    PROVE  IInv'
<1>1. CASE PushScope
  BY <1>1, PushScopeIInv
<1>2. ASSUME NEW a \in Address, CreateContractInstance(a)
      PROVE  IInv'
  BY <1>2, CreateIInv
<1>3. ASSUME NEW a \in Address, NEW k \in Key, NEW v \in Value,
             StorageSet(a, k, v)
      PROVE  IInv'
  BY <1>3, WriteIInv DEF StorageSet
<1>4. ASSUME NEW a \in Address, NEW k \in Key, StorageRemove(a, k)
      PROVE  IInv'
  BY <1>4, WriteIInv DEF StorageRemove
<1>5. CASE RevertScopes
  BY <1>5, RevertIInv DEF RevertScopes
<1>6. CASE Commit
  BY <1>6, CommitIInv
<1>7. CASE UNCHANGED vars
  BY <1>7 DEF vars, IInv, TypeOK, RollbackIsExact
<1> QED BY <1>1, <1>2, <1>3, <1>4, <1>5, <1>6, <1>7 DEF Next

(* The state keeps its types, whatever the addresses, keys, values and the *)
(* depth of the nesting.                                                   *)
THEOREM TypeCorrect ==
    ASSUME WritesPerKey = 1
    PROVE  Spec => []TypeOK
<1>1. IInv /\ [Next]_vars => IInv'
  BY NextIInv
<1>2. IInv => TypeOK
  BY DEF IInv
<1> QED BY InitIInv, <1>1, <1>2, PTL DEF Spec

(* As long as no call writes the same key twice, reverting any number of   *)
(* open scopes restores every instance and every stored value.             *)
THEOREM RollbackExact ==
    ASSUME WritesPerKey = 1
    PROVE  Spec => []RollbackIsExact
<1>1. IInv /\ [Next]_vars => IInv'
  BY NextIInv
<1>2. IInv => RollbackIsExact
  BY DEF IInv
<1> QED BY InitIInv, <1>1, <1>2, PTL DEF Spec

(* Every step of the journal is a step of the nested transactions.         *)
LEMMA StepRefines ==
    ASSUME IInv, IInv', [Next]_vars
    PROVE  [Nested!Next]_(Nested!tvars)
<1>1. /\ Len(saved) = Len(scopes)
      /\ Len(scopes) \in Nat
      /\ scopes # <<>> => saved # <<>>
      /\ instances' \in Instances
  BY DEF IInv, TypeOK
<1>2. CASE PushScope
  BY <1>2 DEF PushScope, Nested!Next, Nested!Begin
<1>3. CASE instances' \in Instances /\ saved' = saved
  BY <1>3 DEF Nested!Next, Nested!Update
<1>4. ASSUME NEW a \in Address, CreateContractInstance(a)
      PROVE  saved' = saved
  BY <1>4 DEF CreateContractInstance
<1>5. ASSUME NEW a \in Address, NEW k \in Key, NEW v \in Value,
             StorageSet(a, k, v)
      PROVE  saved' = saved
  BY <1>5 DEF StorageSet, Write
<1>6. ASSUME NEW a \in Address, NEW k \in Key, StorageRemove(a, k)
      PROVE  saved' = saved
  BY <1>6 DEF StorageRemove, Write
<1>7. CASE RevertScopes
  <2>1. PICK i \in 1..Len(scopes) : RevertTo(i)
    BY <1>7 DEF RevertScopes
  <2>2. instances' = saved[i]
    BY <2>1 DEF RevertTo, IInv, RollbackIsExact
  <2>3. Nested!RollbackTo(i)
    BY <2>1, <2>2 DEF RevertTo, Nested!RollbackTo
  <2> QED BY <1>1, <2>3 DEF Nested!Next
<1>8. CASE Commit
  BY <1>1, <1>8 DEF Commit, InScope, Nested!Next, Nested!CommitAll
<1>9. CASE UNCHANGED vars
  BY <1>9 DEF vars, Nested!tvars
<1> QED BY <1>1, <1>2, <1>3, <1>4, <1>5, <1>6, <1>7, <1>8, <1>9 DEF Next

(* The engine's journal implements nested transactions: a scope that is    *)
(* reverted leaves the instances and their storages as they were when it   *)
(* was opened.                                                             *)
THEOREM Refinement ==
    ASSUME WritesPerKey = 1
    PROVE  Spec => ImplementsTransactions
<1>1. IInv /\ [Next]_vars => IInv'
  BY NextIInv
<1>2. IInv /\ IInv' /\ [Next]_vars => [Nested!Next]_(Nested!tvars)
  BY StepRefines
<1>3. Init => Nested!Init
  <2> SUFFICES ASSUME Init PROVE Nested!Init
    OBVIOUS
  <2>1. instances \in Instances
    BY DEF Init, Instances
  <2> QED BY <2>1 DEF Init, Nested!Init
<1> QED BY InitIInv, <1>1, <1>2, <1>3, PTL
        DEF Spec, ImplementsTransactions, Nested!Spec

(* A transaction whose outermost call fails leaves no trace.               *)
THEOREM NoTrace ==
    ASSUME WritesPerKey = 1
    PROVE  Spec => FailureLeavesNoTrace
<1>1. IInv /\ [Next]_vars => IInv'
  BY NextIInv
<1>2. IInv => (InScope /\ RevertTo(1) => instances' = saved[1])
  <2> SUFFICES ASSUME IInv, InScope, RevertTo(1) PROVE instances' = saved[1]
    OBVIOUS
  <2>1. 1 \in 1..Len(scopes)
    BY DEF IInv, TypeOK, InScope
  <2> QED BY <2>1 DEF RevertTo, IInv, RollbackIsExact
<1> QED BY InitIInv, <1>1, <1>2, PTL DEF Spec, FailureLeavesNoTrace
-----------------------------------------------------------------------------
(***************************************************************************)
(* The bank (EnsembleBank).                                                *)
(***************************************************************************)
LEMMA PocketIs ==
    ASSUME NEW p
    PROVE  p \in Pockets <=> /\ p = [d \in DOMAIN p |-> p[d]]
                             /\ DOMAIN p \subseteq Denom
                             /\ \A d \in DOMAIN p : p[d] \in Nat
<1>1. ASSUME p \in Pockets
      PROVE  /\ p = [d \in DOMAIN p |-> p[d]]
             /\ DOMAIN p \subseteq Denom
             /\ \A d \in DOMAIN p : p[d] \in Nat
  <2>1. PICK held \in SUBSET Denom : p \in [held -> Nat]
    BY <1>1 DEF Pockets
  <2> QED BY <2>1
<1>2. ASSUME p = [d \in DOMAIN p |-> p[d]], DOMAIN p \subseteq Denom,
             \A d \in DOMAIN p : p[d] \in Nat
      PROVE  p \in Pockets
  <2>1. p \in [DOMAIN p -> Nat]
    BY <1>2
  <2> QED BY <1>2, <2>1 DEF Pockets
<1> QED BY <1>1, <1>2

LEMMA BankIs ==
    ASSUME NEW b
    PROVE  b \in Banks <=> /\ b = [a \in DOMAIN b |-> b[a]]
                           /\ DOMAIN b \subseteq Account
                           /\ \A a \in DOMAIN b : b[a] \in Pockets
<1>1. ASSUME b \in Banks
      PROVE  /\ b = [a \in DOMAIN b |-> b[a]]
             /\ DOMAIN b \subseteq Account
             /\ \A a \in DOMAIN b : b[a] \in Pockets
  <2>1. PICK known \in SUBSET Account : b \in [known -> Pockets]
    BY <1>1 DEF Banks
  <2> QED BY <2>1
<1>2. ASSUME b = [a \in DOMAIN b |-> b[a]], DOMAIN b \subseteq Account,
             \A a \in DOMAIN b : b[a] \in Pockets
      PROVE  b \in Banks
  <2>1. b \in [DOMAIN b -> Pockets]
    BY <1>2
  <2> QED BY <1>2, <2>1 DEF Banks
<1> QED BY <1>1, <1>2

(* Mentioning an account changes no balance.                               *)
LEMMA TouchKeeps ==
    ASSUME NEW b \in Banks, NEW a \in Account
    PROVE  /\ Touch(b, a) \in Banks
           /\ a \in DOMAIN Touch(b, a)
           /\ \A x, d : /\ Has(Touch(b, a), x, d) <=> Has(b, x, d)
                        /\ Has(b, x, d) => Touch(b, a)[x] = b[x]
<1>1. CASE a \in DOMAIN b
  BY <1>1 DEF Touch
<1>2. CASE a \notin DOMAIN b
  <2> DEFINE c == [x \in DOMAIN b \cup {a} |-> IF x = a THEN NoFunds ELSE b[x]]
  <2>1. Touch(b, a) = c
    BY <1>2 DEF Touch, Put
  <2>2. /\ NoFunds \in Pockets /\ DOMAIN NoFunds = {}
    <3>1. DOMAIN NoFunds = {} /\ NoFunds = [d \in {} |-> NoFunds[d]]
      BY DEF NoFunds
    <3> QED BY <3>1, PocketIs
  <2>3. c \in Banks
    <3>1. DOMAIN b \subseteq Account /\ \A x \in DOMAIN b : b[x] \in Pockets
      BY BankIs
    <3>2. c = [x \in DOMAIN c |-> c[x]] /\ DOMAIN c \subseteq Account
      BY <3>1
    <3>3. \A x \in DOMAIN c : c[x] \in Pockets
      BY <2>2, <3>1
    <3> HIDE DEF c
    <3> QED BY <3>2, <3>3, BankIs
  <2>4. \A x, d : /\ Has(c, x, d) <=> Has(b, x, d)
                  /\ Has(b, x, d) => c[x] = b[x]
    BY <1>2, <2>2 DEF Has
  <2>5. a \in DOMAIN c
    OBVIOUS
  <2> QED BY <2>1, <2>3, <2>4, <2>5
<1> QED BY <1>1, <1>2

LEMMA TouchKeepsBalance ==
    ASSUME NEW b \in Banks, NEW a \in Account
    PROVE  \A x, d : Balance(Touch(b, a), x, d) = Balance(b, x, d)
BY TouchKeeps DEF Balance

LEMMA SetBalanceSets ==
    ASSUME NEW b \in Banks, NEW a \in DOMAIN b, NEW d \in Denom, NEW n \in Nat
    PROVE  /\ SetBalance(b, a, d, n) \in Banks
           /\ DOMAIN SetBalance(b, a, d, n) = DOMAIN b
           /\ \A x, e : /\ Has(SetBalance(b, a, d, n), x, e)
                                <=> Has(b, x, e) \/ (x = a /\ e = d)
                        /\ Balance(SetBalance(b, a, d, n), x, e) =
                             IF x = a /\ e = d THEN n ELSE Balance(b, x, e)
<1> DEFINE p == [e \in DOMAIN b[a] \cup {d} |-> IF e = d THEN n ELSE b[a][e]]
           c == [x \in DOMAIN b |-> IF x = a THEN p ELSE b[x]]
<1>1. b = [x \in DOMAIN b |-> b[x]] /\ DOMAIN b \subseteq Account
      /\ \A x \in DOMAIN b : b[x] \in Pockets
  BY BankIs
<1>2. DOMAIN b[a] \subseteq Denom /\ \A e \in DOMAIN b[a] : b[a][e] \in Nat
  BY <1>1, PocketIs
<1>3. SetBalance(b, a, d, n) = c
  <2>1. Put(b[a], d, n) = p
    BY DEF Put
  <2>2. SetBalance(b, a, d, n) = [b EXCEPT ![a] = p]
    BY <2>1 DEF SetBalance
  <2> HIDE DEF p
  <2> QED BY <1>1, <2>2
<1>4. p \in Pockets
  <2>1. p = [e \in DOMAIN p |-> p[e]] /\ DOMAIN p \subseteq Denom /\ \A e \in DOMAIN p : p[e] \in Nat
    BY <1>2
  <2> HIDE DEF p
  <2> QED BY <2>1, PocketIs
<1>5. c \in Banks
  <2> HIDE DEF p
  <2>1. c = [x \in DOMAIN c |-> c[x]] /\ DOMAIN c \subseteq Account /\ \A x \in DOMAIN c : c[x] \in Pockets
    BY <1>1, <1>4
  <2> HIDE DEF c
  <2> QED BY <2>1, BankIs
<1>6. ASSUME NEW x, NEW e
      PROVE  /\ Has(c, x, e) <=> Has(b, x, e) \/ (x = a /\ e = d)
             /\ Balance(c, x, e) = IF x = a /\ e = d THEN n ELSE Balance(b, x, e)
  <2>1. CASE x = a
    BY <2>1 DEF Has, Balance
  <2>2. CASE x # a
    BY <2>2 DEF Has, Balance
  <2> QED BY <2>1, <2>2
<1>7. DOMAIN c = DOMAIN b
  OBVIOUS
<1> HIDE DEF c
<1> QED BY <1>3, <1>5, <1>6, <1>7

LEMMA BalanceNat ==
    ASSUME NEW b \in Banks
    PROVE  \A a \in Account, d \in Denom : Balance(b, a, d) \in Nat
<1> SUFFICES ASSUME NEW a \in Account, NEW d \in Denom, Has(b, a, d)
             PROVE  b[a][d] \in Nat
  BY DEF Balance
<1>1. a \in DOMAIN b /\ d \in DOMAIN b[a]
  BY DEF Has
<1> QED BY <1>1, BankIs, PocketIs
-----------------------------------------------------------------------------
(* What one record does, and what undoing it does.                         *)

Ops == [op : {"add"}, to : Account, coin : Coin]
        \cup [op : {"remove"}, from : Account, coin : Coin]
        \cup [op : {"transfer"}, from : Account, to : Account, coin : Coin]

\* What it gives to and takes from a balance.
Gives(op, a, d) ==
    IF op.op \in {"add", "transfer"} /\ op.to = a /\ op.coin.denom = d THEN op.coin.amount ELSE 0

Takes(op, a, d) ==
    IF op.op \in {"remove", "transfer"} /\ op.from = a /\ op.coin.denom = d THEN op.coin.amount ELSE 0

\* What has a balance keeps it.
Keeps(b, c) == \A a \in Account, d \in Denom : Has(b, a, d) => Has(c, a, d)

LEMMA CoinIs ==
    ASSUME NEW coin \in Coin
    PROVE  coin.denom \in Denom /\ coin.amount \in Nat
BY EnsembleBankAssumption DEF Coin

LEMMA HoldsIs ==
    ASSUME NEW b, NEW a, NEW coin
    PROVE  Holds(b, a, coin) <=> Has(b, a, coin.denom) /\ Balance(b, a, coin.denom) >= coin.amount
BY DEF Holds, Balance

LEMMA AddAdds ==
    ASSUME NEW b \in Banks, NEW a \in Account, NEW coin \in Coin
    PROVE  /\ Add(b, a, coin) \in Banks
           /\ Keeps(b, Add(b, a, coin)) /\ Has(Add(b, a, coin), a, coin.denom)
           /\ \A x \in Account, d \in Denom :
                Balance(Add(b, a, coin), x, d) =
                  Balance(b, x, d) + (IF x = a /\ d = coin.denom THEN coin.amount ELSE 0)
<1> DEFINE t == Touch(b, a)
           n == Balance(b, a, coin.denom) + coin.amount
           c == SetBalance(t, a, coin.denom, n)
<1>1. t \in Banks /\ a \in DOMAIN t
      /\ \A x, d : (Has(t, x, d) <=> Has(b, x, d)) /\ Balance(t, x, d) = Balance(b, x, d)
  BY TouchKeeps, TouchKeepsBalance
<1>2. coin.denom \in Denom /\ coin.amount \in Nat /\ \A x \in Account, d \in Denom : Balance(b, x, d) \in Nat
  BY CoinIs, BalanceNat
<1>3. n \in Nat
  BY <1>2
<1> HIDE DEF t, n
<1>4. c \in Banks
      /\ \A x, d : /\ Has(c, x, d) <=> Has(t, x, d) \/ (x = a /\ d = coin.denom)
                   /\ Balance(c, x, d) = IF x = a /\ d = coin.denom THEN n ELSE Balance(t, x, d)
  BY <1>1, <1>2, <1>3, SetBalanceSets
<1>5. Add(b, a, coin) = c
  BY DEF Add, t, n
<1>6. Keeps(b, c) /\ Has(c, a, coin.denom)
  BY <1>1, <1>4 DEF Keeps
<1> HIDE DEF c
<1>7. ASSUME NEW x \in Account, NEW d \in Denom
      PROVE  Balance(c, x, d) =
               Balance(b, x, d) + (IF x = a /\ d = coin.denom THEN coin.amount ELSE 0)
  <2>1. CASE x = a /\ d = coin.denom
    BY <1>4, <2>1 DEF n
  <2>2. CASE ~(x = a /\ d = coin.denom)
    BY <1>1, <1>2, <1>4, <2>2
  <2> QED BY <2>1, <2>2
<1> QED BY <1>4, <1>5, <1>6, <1>7

LEMMA TakeTakes ==
    ASSUME NEW b \in Banks, NEW a \in Account, NEW coin \in Coin, Holds(b, a, coin)
    PROVE  /\ Take(b, a, coin) \in Banks
           /\ \A x, d : Has(Take(b, a, coin), x, d) <=> Has(b, x, d)
           /\ \A x \in Account, d \in Denom :
                Balance(Take(b, a, coin), x, d) =
                  Balance(b, x, d) - (IF x = a /\ d = coin.denom THEN coin.amount ELSE 0)
<1> DEFINE n == b[a][coin.denom] - coin.amount
           c == SetBalance(b, a, coin.denom, n)
<1>1. Has(b, a, coin.denom) /\ b[a][coin.denom] = Balance(b, a, coin.denom)
      /\ b[a][coin.denom] >= coin.amount /\ a \in DOMAIN b
  BY DEF Holds, Balance, Has
<1>2. coin.denom \in Denom /\ coin.amount \in Nat /\ \A x \in Account, d \in Denom : Balance(b, x, d) \in Nat
  BY CoinIs, BalanceNat
<1>3. n \in Nat
  BY <1>1, <1>2
<1> HIDE DEF n
<1>4. c \in Banks
      /\ \A x, d : /\ Has(c, x, d) <=> Has(b, x, d) \/ (x = a /\ d = coin.denom)
                   /\ Balance(c, x, d) = IF x = a /\ d = coin.denom THEN n ELSE Balance(b, x, d)
  BY <1>1, <1>2, <1>3, SetBalanceSets
<1>5. Take(b, a, coin) = c
  BY DEF Take, n
<1> HIDE DEF c
<1>6. \A x, d : Has(c, x, d) <=> Has(b, x, d)
  BY <1>1, <1>4
<1>7. ASSUME NEW x \in Account, NEW d \in Denom
      PROVE  Balance(c, x, d) =
               Balance(b, x, d) - (IF x = a /\ d = coin.denom THEN coin.amount ELSE 0)
  <2>1. CASE x = a /\ d = coin.denom
    BY <1>1, <1>4, <2>1 DEF n
  <2>2. CASE ~(x = a /\ d = coin.denom)
    BY <1>2, <1>4, <2>2
  <2> QED BY <2>1, <2>2
<1> QED BY <1>4, <1>5, <1>6, <1>7

LEMMA TransferMoves ==
    ASSUME NEW b \in Banks, NEW from \in Account, NEW to \in Account, NEW coin \in Coin,
           NEW r, r = BankTransfer(b, from, to, coin)
    PROVE  /\ r.bank \in Banks /\ Keeps(b, r.bank)
           /\ r.ok <=> Holds(b, from, coin)
           /\ r.ok \in BOOLEAN
           /\ r.ok => /\ Has(r.bank, to, coin.denom)
                      /\ \A x \in Account, d \in Denom :
                           Balance(r.bank, x, d) =
                             Balance(b, x, d)
                               - (IF x = from /\ d = coin.denom THEN coin.amount ELSE 0)
                               + (IF x = to /\ d = coin.denom THEN coin.amount ELSE 0)
           /\ ~r.ok => \A x \in Account, d \in Denom : Balance(r.bank, x, d) = Balance(b, x, d)
<1> DEFINE t == Touch(b, from)
           k == Touch(t, to)
           u == Take(k, from, coin)
<1>1. t \in Banks
      /\ \A x, d : (Has(t, x, d) <=> Has(b, x, d)) /\ Balance(t, x, d) = Balance(b, x, d)
  BY TouchKeeps, TouchKeepsBalance
<1> HIDE DEF t
<1>2. k \in Banks
      /\ \A x, d : (Has(k, x, d) <=> Has(t, x, d)) /\ Balance(k, x, d) = Balance(t, x, d)
  BY <1>1, TouchKeeps, TouchKeepsBalance
<1> HIDE DEF k
<1>3. \A x, d : (Has(k, x, d) <=> Has(b, x, d)) /\ Balance(k, x, d) = Balance(b, x, d)
  BY <1>1, <1>2
<1>4. Holds(k, from, coin) <=> Holds(b, from, coin)
  BY <1>3, HoldsIs
<1>5. r = IF Holds(k, from, coin) THEN Result(TRUE, Add(u, to, coin)) ELSE Result(FALSE, k)
  BY DEF BankTransfer, t, k
<1>6. CASE ~Holds(b, from, coin)
  <2>1. r.ok = FALSE /\ r.bank = k
    BY <1>4, <1>5, <1>6 DEF Result
  <2> QED BY <1>2, <1>3, <1>6, <2>1 DEF Keeps
<1>7. CASE Holds(b, from, coin)
  <2>1. u \in Banks /\ \A x, d : Has(u, x, d) <=> Has(k, x, d)
    BY <1>2, <1>4, <1>7, TakeTakes
  <2>2. \A x \in Account, d \in Denom : Balance(u, x, d) =
                  Balance(k, x, d) - (IF x = from /\ d = coin.denom THEN coin.amount ELSE 0)
    BY <1>2, <1>4, <1>7, TakeTakes
  <2>3. r.ok = TRUE /\ r.bank = Add(u, to, coin)
    BY <1>4, <1>5, <1>7 DEF Result
  <2> HIDE DEF u
  <2>4. /\ r.bank \in Banks /\ Keeps(u, r.bank) /\ Has(r.bank, to, coin.denom)
        /\ \A x \in Account, d \in Denom : Balance(r.bank, x, d) =
                  Balance(u, x, d) + (IF x = to /\ d = coin.denom THEN coin.amount ELSE 0)
    BY <2>1, <2>3, AddAdds
  <2>5. Keeps(b, r.bank)
    BY <1>3, <2>1, <2>4 DEF Keeps
  <2>6. ASSUME NEW x \in Account, NEW d \in Denom
        PROVE  Balance(r.bank, x, d) =
                             Balance(b, x, d)
                               - (IF x = from /\ d = coin.denom THEN coin.amount ELSE 0)
                               + (IF x = to /\ d = coin.denom THEN coin.amount ELSE 0)
    BY <1>3, <2>2, <2>4
  <2> QED BY <1>7, <2>3, <2>4, <2>5, <2>6
<1> QED BY <1>6, <1>7
LEMMA OpIs ==
    ASSUME NEW op \in Ops
    PROVE  /\ op.coin \in Coin /\ op.coin.denom \in Denom /\ op.coin.amount \in Nat
           /\ op.op \in {"add", "remove", "transfer"}
           /\ op.op # "remove" => op.to \in Account
           /\ op.op # "add" => op.from \in Account
BY EnsembleBankAssumption DEF Ops, Coin

LEMMA DoDoes ==
    ASSUME NEW b \in Banks, NEW op \in Ops, NEW r, r = Do(b, op)
    PROVE  /\ r.ok \in BOOLEAN /\ r.bank \in Banks /\ Keeps(b, r.bank)
           /\ r.ok /\ op.op # "remove" => Has(r.bank, op.to, op.coin.denom)
           /\ r.ok /\ op.op # "add" => Balance(b, op.from, op.coin.denom) >= op.coin.amount
           /\ \A a \in Account, d \in Denom :
                Balance(r.bank, a, d) = IF r.ok THEN Balance(b, a, d) - Takes(op, a, d) + Gives(op, a, d)
                                                ELSE Balance(b, a, d)
<1>1. /\ op.coin \in Coin /\ op.coin.denom \in Denom /\ op.coin.amount \in Nat
      /\ op.op \in {"add", "remove", "transfer"}
      /\ op.op # "remove" => op.to \in Account
      /\ op.op # "add" => op.from \in Account
  BY OpIs
<1>2. \A a \in Account, d \in Denom : Balance(b, a, d) \in Nat
  BY BalanceNat
<1>3. CASE op.op = "add"
  <2>1. r = BankAdd(b, op.to, op.coin)
    BY <1>3 DEF Do
  <2>2. r.ok = TRUE /\ r.bank = Add(b, op.to, op.coin)
    BY <2>1 DEF BankAdd, Result
  <2>3. /\ r.bank \in Banks /\ Keeps(b, r.bank) /\ Has(r.bank, op.to, op.coin.denom)
        /\ \A x \in Account, d \in Denom : Balance(r.bank, x, d) =
                  Balance(b, x, d) + (IF x = op.to /\ d = op.coin.denom THEN op.coin.amount ELSE 0)
    BY <1>1, <1>3, <2>2, AddAdds
  <2>4. \A x, d : Takes(op, x, d) = 0 /\ Gives(op, x, d) =
                    IF x = op.to /\ d = op.coin.denom THEN op.coin.amount ELSE 0
    BY <1>3 DEF Takes, Gives
  <2>5. \A a \in Account, d \in Denom :
          Balance(r.bank, a, d) = Balance(b, a, d) - Takes(op, a, d) + Gives(op, a, d)
    BY <1>1, <1>2, <2>3, <2>4
  <2> QED BY <1>3, <2>2, <2>3, <2>5
<1>4. CASE op.op = "remove"
  <2>1. r = BankRemove(b, op.from, op.coin)
    BY <1>4 DEF Do
  <2>2. \A x, d : Gives(op, x, d) = 0 /\ Takes(op, x, d) =
                    IF x = op.from /\ d = op.coin.denom THEN op.coin.amount ELSE 0
    BY <1>4 DEF Takes, Gives
  <2>3. CASE Holds(b, op.from, op.coin)
    <3>1. r.ok = TRUE /\ r.bank = Take(b, op.from, op.coin)
      BY <2>1, <2>3 DEF BankRemove, Result
    <3>2. /\ r.bank \in Banks /\ Keeps(b, r.bank)
          /\ \A x \in Account, d \in Denom : Balance(r.bank, x, d) =
                  Balance(b, x, d) - (IF x = op.from /\ d = op.coin.denom THEN op.coin.amount ELSE 0)
      BY <1>1, <1>4, <2>3, <3>1, TakeTakes DEF Keeps
    <3>3. Balance(b, op.from, op.coin.denom) >= op.coin.amount
      BY <2>3, HoldsIs
    <3>4. \A a \in Account, d \in Denom :
            Balance(r.bank, a, d) = Balance(b, a, d) - Takes(op, a, d) + Gives(op, a, d)
      BY <1>1, <1>2, <2>2, <3>2
    <3> QED BY <1>4, <3>1, <3>2, <3>3, <3>4
  <2>4. CASE ~Holds(b, op.from, op.coin)
    BY <2>1, <2>4 DEF BankRemove, Result, Keeps
  <2> QED BY <2>3, <2>4
<1>5. CASE op.op = "transfer"
  <2>1. r = BankTransfer(b, op.from, op.to, op.coin)
    BY <1>5 DEF Do
  <2>2. /\ r.bank \in Banks /\ Keeps(b, r.bank)
        /\ r.ok <=> Holds(b, op.from, op.coin)
        /\ r.ok \in BOOLEAN
        /\ r.ok => /\ Has(r.bank, op.to, op.coin.denom)
                   /\ \A x \in Account, d \in Denom :
                        Balance(r.bank, x, d) =
                          Balance(b, x, d)
                            - (IF x = op.from /\ d = op.coin.denom THEN op.coin.amount ELSE 0)
                            + (IF x = op.to /\ d = op.coin.denom THEN op.coin.amount ELSE 0)
        /\ ~r.ok => \A x \in Account, d \in Denom : Balance(r.bank, x, d) = Balance(b, x, d)
    BY <1>1, <1>5, <2>1, TransferMoves
  <2>3. \A x, d : /\ Takes(op, x, d) =
                       IF x = op.from /\ d = op.coin.denom THEN op.coin.amount ELSE 0
                  /\ Gives(op, x, d) =
                       IF x = op.to /\ d = op.coin.denom THEN op.coin.amount ELSE 0
    BY <1>5 DEF Takes, Gives
  <2>4. r.ok => Balance(b, op.from, op.coin.denom) >= op.coin.amount
    BY <2>2, HoldsIs
  <2>5. ASSUME NEW a \in Account, NEW d \in Denom
        PROVE  Balance(r.bank, a, d) = IF r.ok THEN Balance(b, a, d) - Takes(op, a, d) + Gives(op, a, d)
                                                ELSE Balance(b, a, d)
    BY <2>2, <2>3
  <2> QED BY <1>5, <2>2, <2>4, <2>5
<1> QED BY <1>1, <1>3, <1>4, <1>5

LEMMA UndoUndoes ==
    ASSUME NEW b \in Banks, NEW op \in Ops, NEW r, r = Undo(b, op)
    PROVE  /\ r.ok \in BOOLEAN /\ r.bank \in Banks /\ Keeps(b, r.bank)
           /\ op.op = "remove" => r.ok
           /\ op.op # "remove" => (r.ok <=> Holds(b, op.to, op.coin))
           /\ r.ok => \A a \in Account, d \in Denom :
                Balance(r.bank, a, d) = Balance(b, a, d) + Takes(op, a, d) - Gives(op, a, d)
<1>1. /\ op.coin \in Coin /\ op.coin.denom \in Denom /\ op.coin.amount \in Nat
      /\ op.op \in {"add", "remove", "transfer"}
      /\ op.op # "remove" => op.to \in Account
      /\ op.op # "add" => op.from \in Account
  BY OpIs
<1>2. \A a \in Account, d \in Denom : Balance(b, a, d) \in Nat
  BY BalanceNat
<1> DEFINE back == IF op.op = "remove" THEN AddOp(op.from, op.coin)
                   ELSE IF op.op = "add" THEN RemoveOp(op.to, op.coin)
                   ELSE TransferOp(op.to, op.from, op.coin)
<1>3. back \in Ops
  BY <1>1 DEF Ops, AddOp, RemoveOp, TransferOp
<1>4. r = Do(b, back)
  BY <1>1 DEF Undo, Do, AddOp, RemoveOp, TransferOp
<1>5. \A a, d : Takes(back, a, d) = Gives(op, a, d) /\ Gives(back, a, d) = Takes(op, a, d)
  <2> SUFFICES ASSUME NEW a, NEW d
               PROVE  Takes(back, a, d) = Gives(op, a, d) /\ Gives(back, a, d) = Takes(op, a, d)
    OBVIOUS
  <2>1. CASE op.op = "add"
    BY <2>1 DEF AddOp, RemoveOp, TransferOp, Takes, Gives
  <2>2. CASE op.op = "remove"
    BY <2>2 DEF AddOp, RemoveOp, TransferOp, Takes, Gives
  <2>3. CASE op.op = "transfer"
    BY <2>3 DEF AddOp, RemoveOp, TransferOp, Takes, Gives
  <2> QED BY <1>1, <2>1, <2>2, <2>3
<1> HIDE DEF back
<1>6. /\ r.ok \in BOOLEAN /\ r.bank \in Banks /\ Keeps(b, r.bank)
      /\ \A a \in Account, d \in Denom :
                Balance(r.bank, a, d) = IF r.ok THEN Balance(b, a, d) - Takes(back, a, d) + Gives(back, a, d)
                                                ELSE Balance(b, a, d)
  BY <1>3, <1>4, DoDoes
<1>7. \A a, d : Takes(op, a, d) \in Nat /\ Gives(op, a, d) \in Nat
  BY <1>1 DEF Takes, Gives
<1>8. r.ok => \A a \in Account, d \in Denom :
                Balance(r.bank, a, d) = Balance(b, a, d) + Takes(op, a, d) - Gives(op, a, d)
  BY <1>2, <1>5, <1>6, <1>7
<1>9. op.op = "remove" => r.ok
  BY DEF Undo, BankAdd, Result
<1>10. op.op # "remove" => (r.ok <=> Holds(b, op.to, op.coin))
  <2>1. CASE op.op = "add"
    BY <2>1 DEF Undo, BankRemove, Result
  <2>2. CASE op.op = "transfer"
    <3>1. r = BankTransfer(b, op.to, op.from, op.coin)
      BY <2>2 DEF Undo
    <3> QED BY <1>1, <2>2, <3>1, TransferMoves
  <2> QED BY <1>1, <2>1, <2>2
<1> QED BY <1>6, <1>8, <1>9, <1>10
-----------------------------------------------------------------------------
(* What FoldLeft computes, step by step.                                   *)

Results == [ok : BOOLEAN, bank : Banks]

Scopes == Seq(Ops)

IsUndoFold(past, scope, g) ==
    g = [s \in SUBSET (DOMAIN scope) |->
           IF s = {} THEN past ELSE Unwrap(g[s \ {Max(s)}], scope[Max(s)])]

LEMMA UndoScopeIsChosen ==
    ASSUME NEW past, NEW scope
    PROVE  UndoScope(past, scope) = (CHOOSE f : IsUndoFold(past, scope, f))[DOMAIN scope]
BY DEF UndoScope, FoldLeft, MapThenFoldSet, IsUndoFold

LEMMA UnwrapResults ==
    ASSUME NEW past \in Results, NEW op \in Ops
    PROVE  Unwrap(past, op) \in Results
<1>1. past.bank \in Banks
  BY DEF Results
<1>2. Undo(past.bank, op).ok \in BOOLEAN /\ Undo(past.bank, op).bank \in Banks
  BY <1>1, UndoUndoes
<1>3. Undo(past.bank, op) = [ok |-> Undo(past.bank, op).ok, bank |-> Undo(past.bank, op).bank]
  <2>1. PICK r : r = Undo(past.bank, op)
    OBVIOUS
  <2>2. op.op \in {"add", "remove", "transfer"}
    BY OpIs
  <2>3. \E x, y : r = [ok |-> x, bank |-> y]
    BY <2>1, <2>2 DEF Undo, BankAdd, BankRemove, BankTransfer, Result
  <2> QED BY <2>1, <2>3
<1> QED BY <1>2, <1>3 DEF Unwrap, Results

LEMMA UndoSteps ==
    ASSUME NEW past \in Results, NEW n \in Nat, NEW scope, DOMAIN scope = 1..n,
           \A i \in 1..n : scope[i] \in Ops
    PROVE  \E u : /\ u[0] = past
                  /\ u[n] = UndoScope(past, scope)
                  /\ \A i \in 1..n : u[i] = Unwrap(u[i - 1], scope[i])
<1> DEFINE F == [i \in 1..n |-> [r \in Results |-> Unwrap(r, scope[i])]]
           IsFold(g) == IsUndoFold(past, scope, g)
<1>1. \A i \in 1..n : F[i] \in [Results -> Results]
  BY UnwrapResults
<1>2. \A i \in 1..n : \A r \in Results : F[i][r] = Unwrap(r, scope[i])
  OBVIOUS
<1> HIDE DEF F
<1>3. PICK g \in [SUBSET (1..n) -> Results] : Steps(n, F, past, g)
  BY <1>1, StepsExist
<1>4. IsFold(g)
  <2>1. ASSUME NEW s \in SUBSET (1..n), s # {}
        PROVE  g[s] = Unwrap(g[s \ {Max(s)}], scope[Max(s)])
    <3>1. Max(s) \in 1..n /\ g[s \ {Max(s)}] \in Results
      BY <1>3, <2>1, MaxIn
    <3>2. g[s] = F[Max(s)][g[s \ {Max(s)}]]
      BY <1>3, <2>1 DEF Steps
    <3> QED BY <1>2, <3>1, <3>2
  <2>2. g = [s \in SUBSET (1..n) |->
               IF s = {} THEN past ELSE Unwrap(g[s \ {Max(s)}], scope[Max(s)])]
    BY <1>3, <2>1 DEF Steps
  <2> QED BY <2>2 DEF IsUndoFold
<1> DEFINE h == CHOOSE f : IsFold(f)
           u == [k \in 0..n |-> h[1..k]]
<1>5. IsFold(h)
  BY <1>4
<1>6. UndoScope(past, scope) = h[1..n]
  <2>1. UndoScope(past, scope) = (CHOOSE f : IsUndoFold(past, scope, f))[DOMAIN scope]
    BY UndoScopeIsChosen
  <2> QED BY <2>1
<1> HIDE DEF h
<1>7. h[{}] = past
  BY <1>5 DEF IsUndoFold
<1>8. ASSUME NEW k \in 1..n
      PROVE  h[1..k] = Unwrap(h[1..(k - 1)], scope[k])
  <2>1. /\ 1..k \in SUBSET (1..n) /\ 1..k # {}
        /\ Max(1..k) = k /\ (1..k) \ {Max(1..k)} = 1..(k - 1)
    BY NumbersUpTo
  <2> HIDE DEF Max
  <2>2. h[1..k] = Unwrap(h[(1..k) \ {Max(1..k)}], scope[Max(1..k)])
    BY <1>5, <2>1 DEF IsUndoFold
  <2> QED BY <2>1, <2>2
<1>9. u[0] = h[{}] /\ u[n] = h[1..n]
      /\ \A i \in 1..n : u[i] = h[1..i] /\ u[i - 1] = h[1..(i - 1)]
  <2>1. 1..0 = {}
    OBVIOUS
  <2> QED BY <2>1
<1> HIDE DEF u
<1> QED BY <1>6, <1>7, <1>8, <1>9
\* The same for the scopes.
IsRevertFold(past, undone, g) ==
    g = [s \in SUBSET (DOMAIN undone) |->
           IF s = {} THEN past ELSE UndoScope(g[s \ {Max(s)}], undone[Max(s)])]

LEMMA RevertIsChosen ==
    ASSUME NEW past, NEW undone
    PROVE  UndoScopes(past, undone)
             = (CHOOSE f : IsRevertFold(past, undone, f))[DOMAIN undone]
BY DEF UndoScopes, FoldLeft, MapThenFoldSet, IsRevertFold

LEMMA UndoScopeResults ==
    ASSUME NEW past \in Results, NEW scope \in Scopes
    PROVE  UndoScope(past, scope) \in Results
<1> DEFINE n == Len(scope)
<1>1. n \in Nat /\ DOMAIN scope = 1..n /\ \A i \in 1..n : scope[i] \in Ops
  BY DEF Scopes
<1> HIDE DEF n
<1>2. PICK u : /\ u[0] = past
               /\ u[n] = UndoScope(past, scope)
               /\ \A i \in 1..n : u[i] = Unwrap(u[i - 1], scope[i])
  BY <1>1, UndoSteps
<1> DEFINE E == {k \in 1..n : u[k] \notin Results}
<1>3. E = {}
  <2>1. SUFFICES ASSUME E # {} PROVE FALSE
    OBVIOUS
  <2>2. E \subseteq 1..n
    OBVIOUS
  <2> HIDE DEF E
  <2>3. PICK k \in E : k - 1 \notin E
    BY <1>1, <2>1, <2>2, SmallestNumber
  <2>4. k \in 1..n /\ u[k] \notin Results
    BY DEF E
  <2>5. u[k - 1] \in Results
    BY <1>1, <1>2, <2>3, <2>4 DEF E
  <2> QED BY <1>1, <1>2, <2>4, <2>5, UnwrapResults
<1> QED BY <1>1, <1>2, <1>3

LEMMA RevertSteps ==
    ASSUME NEW past \in Results, NEW n \in Nat, NEW undone, DOMAIN undone = 1..n,
           \A i \in 1..n : undone[i] \in Scopes
    PROVE  \E u : /\ u[0] = past
                  /\ u[n] = UndoScopes(past, undone)
                  /\ \A i \in 1..n : u[i] = UndoScope(u[i - 1], undone[i])
<1> DEFINE F == [i \in 1..n |-> [r \in Results |-> UndoScope(r, undone[i])]]
           IsFold(g) == IsRevertFold(past, undone, g)
<1>1. \A i \in 1..n : F[i] \in [Results -> Results]
  BY UndoScopeResults
<1>2. \A i \in 1..n : \A r \in Results : F[i][r] = UndoScope(r, undone[i])
  OBVIOUS
<1> HIDE DEF F
<1>3. PICK g \in [SUBSET (1..n) -> Results] : Steps(n, F, past, g)
  BY <1>1, StepsExist
<1>4. IsFold(g)
  <2>1. ASSUME NEW s \in SUBSET (1..n), s # {}
        PROVE  g[s] = UndoScope(g[s \ {Max(s)}], undone[Max(s)])
    <3>1. Max(s) \in 1..n /\ g[s \ {Max(s)}] \in Results
      BY <1>3, <2>1, MaxIn
    <3>2. g[s] = F[Max(s)][g[s \ {Max(s)}]]
      BY <1>3, <2>1 DEF Steps
    <3> QED BY <1>2, <3>1, <3>2
  <2>2. g = [s \in SUBSET (1..n) |->
               IF s = {} THEN past ELSE UndoScope(g[s \ {Max(s)}], undone[Max(s)])]
    BY <1>3, <2>1 DEF Steps
  <2> QED BY <2>2 DEF IsRevertFold
<1> DEFINE h == CHOOSE f : IsFold(f)
           u == [k \in 0..n |-> h[1..k]]
<1>5. IsFold(h)
  BY <1>4
<1>6. UndoScopes(past, undone) = h[1..n]
  <2>1. UndoScopes(past, undone) = (CHOOSE f : IsRevertFold(past, undone, f))[DOMAIN undone]
    BY RevertIsChosen
  <2> QED BY <2>1
<1> HIDE DEF h
<1>7. h[{}] = past
  BY <1>5 DEF IsRevertFold
<1>8. ASSUME NEW k \in 1..n
      PROVE  h[1..k] = UndoScope(h[1..(k - 1)], undone[k])
  <2>1. /\ 1..k \in SUBSET (1..n) /\ 1..k # {}
        /\ Max(1..k) = k /\ (1..k) \ {Max(1..k)} = 1..(k - 1)
    BY NumbersUpTo
  <2> HIDE DEF Max
  <2>2. h[1..k] = UndoScope(h[(1..k) \ {Max(1..k)}], undone[Max(1..k)])
    BY <1>5, <2>1 DEF IsRevertFold
  <2> QED BY <2>1, <2>2
<1>9. u[0] = h[{}] /\ u[n] = h[1..n]
      /\ \A i \in 1..n : u[i] = h[1..i] /\ u[i - 1] = h[1..(i - 1)]
  <2>1. 1..0 = {}
    OBVIOUS
  <2> QED BY <2>1
<1> HIDE DEF u
<1> QED BY <1>6, <1>7, <1>8, <1>9

\* And for the coins of one message.
Movings == [ok : BOOLEAN, bank : Banks, temp : Seq(Ops)]

IsMoveFold(start, ops, g) ==
    g = [s \in SUBSET (DOMAIN ops) |->
           IF s = {} THEN start ELSE MoveOne(g[s \ {Max(s)}], ops[Max(s)])]

Unmoved(b) == [ok |-> TRUE, bank |-> b, temp |-> <<>>]

LEMMA MoveIsChosen ==
    ASSUME NEW b, NEW ops
    PROVE  MoveAll(b, ops) = (CHOOSE f : IsMoveFold(Unmoved(b), ops, f))[DOMAIN ops]
BY DEF MoveAll, FoldLeft, MapThenFoldSet, IsMoveFold, Unmoved

LEMMA MoveOneMovings ==
    ASSUME NEW moved \in Movings, NEW op \in Ops
    PROVE  MoveOne(moved, op) \in Movings
<1>1. moved.bank \in Banks /\ moved.temp \in Seq(Ops)
  BY DEF Movings
<1>2. Do(moved.bank, op).ok \in BOOLEAN /\ Do(moved.bank, op).bank \in Banks
  BY <1>1, DoDoes
<1>3. Append(moved.temp, op) \in Seq(Ops)
  BY <1>1
<1> QED BY <1>1, <1>2, <1>3 DEF MoveOne, Movings

LEMMA UnmovedIs == ASSUME NEW b \in Banks PROVE Unmoved(b) \in Movings
BY DEF Unmoved, Movings

LEMMA MoveSteps ==
    ASSUME NEW b \in Banks, NEW n \in Nat, NEW ops, DOMAIN ops = 1..n,
           \A i \in 1..n : ops[i] \in Ops
    PROVE  \E u : /\ u[0] = Unmoved(b)
                  /\ u[n] = MoveAll(b, ops)
                  /\ \A i \in 1..n : u[i] = MoveOne(u[i - 1], ops[i])
<1> DEFINE F == [i \in 1..n |-> [m \in Movings |-> MoveOne(m, ops[i])]]
           IsFold(g) == IsMoveFold(Unmoved(b), ops, g)
<1>1. \A i \in 1..n : F[i] \in [Movings -> Movings]
  BY MoveOneMovings
<1>2. \A i \in 1..n : \A m \in Movings : F[i][m] = MoveOne(m, ops[i])
  OBVIOUS
<1> HIDE DEF F
<1>3. PICK g \in [SUBSET (1..n) -> Movings] : Steps(n, F, Unmoved(b), g)
  BY <1>1, UnmovedIs, StepsExist
<1>4. IsFold(g)
  <2>1. ASSUME NEW s \in SUBSET (1..n), s # {}
        PROVE  g[s] = MoveOne(g[s \ {Max(s)}], ops[Max(s)])
    <3>1. Max(s) \in 1..n /\ g[s \ {Max(s)}] \in Movings
      BY <1>3, <2>1, MaxIn
    <3>2. g[s] = F[Max(s)][g[s \ {Max(s)}]]
      BY <1>3, <2>1 DEF Steps
    <3> QED BY <1>2, <3>1, <3>2
  <2>2. g = [s \in SUBSET (1..n) |->
               IF s = {} THEN Unmoved(b) ELSE MoveOne(g[s \ {Max(s)}], ops[Max(s)])]
    BY <1>3, <2>1 DEF Steps
  <2> QED BY <2>2 DEF IsMoveFold
<1> DEFINE h == CHOOSE f : IsFold(f)
           u == [k \in 0..n |-> h[1..k]]
<1>5. IsFold(h)
  BY <1>4
<1>6. MoveAll(b, ops) = h[1..n]
  <2>1. MoveAll(b, ops) = (CHOOSE f : IsMoveFold(Unmoved(b), ops, f))[DOMAIN ops]
    BY MoveIsChosen
  <2> QED BY <2>1
<1> HIDE DEF h
<1>7. h[{}] = Unmoved(b)
  BY <1>5 DEF IsMoveFold
<1>8. ASSUME NEW k \in 1..n
      PROVE  h[1..k] = MoveOne(h[1..(k - 1)], ops[k])
  <2>1. /\ 1..k \in SUBSET (1..n) /\ 1..k # {}
        /\ Max(1..k) = k /\ (1..k) \ {Max(1..k)} = 1..(k - 1)
    BY NumbersUpTo
  <2> HIDE DEF Max
  <2>2. h[1..k] = MoveOne(h[(1..k) \ {Max(1..k)}], ops[Max(1..k)])
    BY <1>5, <2>1 DEF IsMoveFold
  <2> QED BY <2>1, <2>2
<1>9. u[0] = h[{}] /\ u[n] = h[1..n]
      /\ \A i \in 1..n : u[i] = h[1..i] /\ u[i - 1] = h[1..(i - 1)]
  <2>1. 1..0 = {}
    OBVIOUS
  <2> QED BY <2>1
<1> HIDE DEF u
<1> QED BY <1>6, <1>7, <1>8, <1>9
-----------------------------------------------------------------------------
(* The records of one message undo what it did.                            *)

\* All of one kind, from the same account and to the same account.
Message(ops, n, kind, from, to) ==
    /\ ops = [i \in 1..n |-> ops[i]]
    /\ kind \in {"add", "remove", "transfer"}
    /\ \A i \in 1..n : /\ ops[i] \in Ops
                       /\ ops[i].op = kind
                       /\ kind # "remove" => ops[i].to = to
                       /\ kind # "add" => ops[i].from = from

\* The banks a message goes through.
Chain(ops, n, banks) ==
    /\ \A k \in 0..n : banks[k] \in Banks
    /\ \A k \in 1..n : /\ Do(banks[k - 1], ops[k]).ok
                       /\ Do(banks[k - 1], ops[k]).bank = banks[k]

\* The balances of c, for the accounts that have them there at least.
Same(b, c) ==
    /\ \A a \in Account, d \in Denom : Balance(b, a, d) = Balance(c, a, d)
    /\ Keeps(c, b)

\* Undoing the scope leads from what is as after it to what is as before it.
Exact(scope, before, after) ==
    \A b \in Banks : Same(b, after) =>
        /\ UndoScope(Result(TRUE, b), scope).ok
        /\ UndoScope(Result(TRUE, b), scope).bank \in Banks
        /\ Same(UndoScope(Result(TRUE, b), scope).bank, before)

LEMMA ChainStep ==
    ASSUME NEW n \in Nat, NEW ops, NEW banks, Chain(ops, n, banks), NEW k \in 1..n, ops[k] \in Ops
    PROVE  /\ banks[k - 1] \in Banks /\ banks[k] \in Banks
           /\ Keeps(banks[k - 1], banks[k])
           /\ ops[k].op # "remove" => Has(banks[k], ops[k].to, ops[k].coin.denom)
           /\ ops[k].op # "add" =>
                Balance(banks[k - 1], ops[k].from, ops[k].coin.denom) >= ops[k].coin.amount
           /\ \A a \in Account, d \in Denom :
                Balance(banks[k], a, d) =
                  Balance(banks[k - 1], a, d) - Takes(ops[k], a, d) + Gives(ops[k], a, d)
<1>1. banks[k - 1] \in Banks /\ banks[k] \in Banks
  BY DEF Chain
<1> DEFINE r == Do(banks[k - 1], ops[k])
<1>2. r.ok /\ r.bank = banks[k]
  BY DEF Chain
<1> HIDE DEF r
<1>3. /\ r.ok \in BOOLEAN /\ r.bank \in Banks /\ Keeps(banks[k - 1], r.bank)
      /\ r.ok /\ ops[k].op # "remove" => Has(r.bank, ops[k].to, ops[k].coin.denom)
      /\ r.ok /\ ops[k].op # "add" =>
           Balance(banks[k - 1], ops[k].from, ops[k].coin.denom) >= ops[k].coin.amount
      /\ \A a \in Account, d \in Denom : Balance(r.bank, a, d) =
           IF r.ok THEN Balance(banks[k - 1], a, d) - Takes(ops[k], a, d) + Gives(ops[k], a, d)
                   ELSE Balance(banks[k - 1], a, d)
  BY <1>1, DoDoes DEF r
<1> QED BY <1>1, <1>2, <1>3

LEMMA ChainKeeps ==
    ASSUME NEW n \in Nat, NEW ops, NEW banks, Chain(ops, n, banks),
           \A i \in 1..n : ops[i] \in Ops
    PROVE  \A k \in 0..n : Keeps(banks[k], banks[n])
<1> SUFFICES ASSUME NEW k \in 0..n PROVE Keeps(banks[k], banks[n])
  OBVIOUS
<1> DEFINE G == {i \in 0..n : Keeps(banks[k], banks[i])}
<1>1. k \in G
  BY DEF Keeps
<1>2. ASSUME NEW i \in 1..n, i - 1 \in G
      PROVE  i \in G
  <2>1. Keeps(banks[i - 1], banks[i]) /\ Keeps(banks[k], banks[i - 1])
    BY <1>2, ChainStep
  <2> QED BY <2>1 DEF Keeps
<1> HIDE DEF G
<1>3. \A i \in k..n : i \in G
  BY <1>1, <1>2, StepByStep
<1> QED BY <1>3 DEF G

(* Who receives has no less afterwards than at any time before, and no     *)
(* more either when it is who pays.                                        *)
LEMMA ChainPays ==
    ASSUME NEW n \in Nat, NEW ops, NEW banks, NEW kind, NEW from, NEW to \in Account,
           Message(ops, n, kind, from, to), kind # "remove",
           Chain(ops, n, banks), NEW d \in Denom
    PROVE  \A k \in 0..n :
             /\ Balance(banks[k], to, d) <= Balance(banks[n], to, d)
             /\ kind = "transfer" /\ from = to =>
                  Balance(banks[k], to, d) = Balance(banks[n], to, d)
<1> SUFFICES ASSUME NEW k \in 0..n
             PROVE  /\ Balance(banks[k], to, d) <= Balance(banks[n], to, d)
                    /\ kind = "transfer" /\ from = to =>
                         Balance(banks[k], to, d) = Balance(banks[n], to, d)
  OBVIOUS
<1> DEFINE f == [i \in 0..n |-> Balance(banks[i], to, d)]
           G == {i \in 0..n : /\ f[k] <= f[i]
                              /\ kind = "transfer" /\ from = to => f[k] = f[i]}
<1>1. \A i \in 0..n : f[i] \in Nat
  BY BalanceNat DEF Chain
<1>2. k \in G
  BY <1>1
<1>3. ASSUME NEW i \in 1..n, i - 1 \in G
      PROVE  i \in G
  <2> DEFINE op == ops[i]
  <2>1. op \in Ops /\ op.op = kind /\ op.to = to /\ (kind # "add" => op.from = from)
        /\ kind \in {"add", "transfer"}
    BY DEF Message
  <2>2. op.coin.amount \in Nat
    BY <2>1, OpIs
  <2>3. f[i] = f[i - 1] - Takes(op, to, d) + Gives(op, to, d)
    BY <2>1, ChainStep
  <2> HIDE DEF op
  <2>4. Takes(op, to, d) \in Nat /\ Gives(op, to, d) \in Nat
        /\ Takes(op, to, d) <= Gives(op, to, d)
        /\ (kind = "transfer" /\ from = to => Takes(op, to, d) = Gives(op, to, d))
    BY <2>1, <2>2 DEF Takes, Gives
  <2> HIDE DEF f
  <2> QED BY <1>1, <1>3, <2>3, <2>4
<1> HIDE DEF G
<1>4. \A i \in k..n : i \in G
  BY <1>2, <1>3, StepByStep
<1>5. n \in G
  BY <1>4
<1>6. f[k] <= f[n] /\ (kind = "transfer" /\ from = to => f[k] = f[n])
  BY <1>5 DEF G
<1> QED BY <1>6
LEMMA GainsNat ==
    ASSUME NEW op \in Ops
    PROVE  \A a, d : Takes(op, a, d) \in Nat /\ Gives(op, a, d) \in Nat
BY OpIs DEF Takes, Gives

LEMMA ChainExact ==
    ASSUME NEW n \in Nat, NEW ops, NEW banks, NEW kind, NEW from, NEW to \in Account,
           Message(ops, n, kind, from, to), Chain(ops, n, banks)
    PROVE  Exact(ops, banks[0], banks[n])
<1> SUFFICES ASSUME NEW b \in Banks, Same(b, banks[n])
             PROVE  /\ UndoScope(Result(TRUE, b), ops).ok
                    /\ UndoScope(Result(TRUE, b), ops).bank \in Banks
                    /\ Same(UndoScope(Result(TRUE, b), ops).bank, banks[0])
  BY DEF Exact
<1>1. DOMAIN ops = 1..n /\ \A i \in 1..n : ops[i] \in Ops
  BY DEF Message
<1>2. PICK start \in Results : start = Result(TRUE, b)
  BY DEF Result, Results
<1>3. PICK u : /\ u[0] = start
               /\ u[n] = UndoScope(start, ops)
               /\ \A i \in 1..n : u[i] = Unwrap(u[i - 1], ops[i])
  BY <1>1, UndoSteps
<1> DEFINE B(k, a, d) == Balance(banks[k], a, d)
           Left(k) == /\ u[k].ok /\ u[k].bank \in Banks
                      /\ Keeps(b, u[k].bank)
                      /\ \A a \in Account, d \in Denom :
                           Balance(u[k].bank, a, d) = B(n, a, d) - B(k, a, d) + B(0, a, d)
           G == {k \in 0..n : Left(k)}
<1>4. \A k \in 0..n : banks[k] \in Banks
  BY DEF Chain
<1>5. \A k \in 0..n : \A a \in Account, d \in Denom : B(k, a, d) \in Nat
  BY <1>4, BalanceNat
<1>6. 0 \in G
  <2>1. u[0].ok /\ u[0].bank = b
    BY <1>2, <1>3 DEF Result
  <2>2. Keeps(b, b) /\ \A a \in Account, d \in Denom : Balance(b, a, d) = B(n, a, d)
    BY DEF Keeps, Same
  <2>3. \A a \in Account, d \in Denom : B(n, a, d) = B(n, a, d) - B(0, a, d) + B(0, a, d)
    BY <1>5
  <2> HIDE DEF B
  <2> QED BY <2>1, <2>2, <2>3
<1>7. ASSUME NEW k \in 1..n, k - 1 \in G
      PROVE  k \in G
  <2> DEFINE op == ops[k]
             d0 == op.coin.denom
             r == Undo(u[k - 1].bank, op)
  <2>1. /\ op \in Ops /\ op.op = kind /\ kind \in {"add", "remove", "transfer"}
        /\ (kind # "remove" => op.to = to) /\ (kind # "add" => op.from = from)
    BY DEF Message
  <2>2. op.coin \in Coin /\ op.coin.amount \in Nat /\ d0 \in Denom
    BY <2>1, OpIs
  <2>3. Left(k - 1)
    BY <1>7
  <2>4. u[k] = r
    BY <1>3, <2>3 DEF Unwrap
  <2>5. /\ Keeps(banks[k - 1], banks[k])
        /\ op.op # "remove" => Has(banks[k], op.to, op.coin.denom)
        /\ op.op # "add" => Balance(banks[k - 1], op.from, op.coin.denom) >= op.coin.amount
        /\ \A a \in Account, d \in Denom :
             B(k, a, d) = B(k - 1, a, d) - Takes(op, a, d) + Gives(op, a, d)
    BY <2>1, ChainStep
  <2>6. \A a, d : Takes(op, a, d) \in Nat /\ Gives(op, a, d) \in Nat
    BY <2>1, GainsNat
  <2>7. ASSUME kind # "remove"
        PROVE  Holds(u[k - 1].bank, op.to, op.coin)
    <3>1. op.to = to /\ Has(banks[k], to, d0)
      BY <2>1, <2>5, <2>7
    <3>2. Has(u[k - 1].bank, to, d0)
      <4>1. Keeps(banks[k], banks[n])
        BY <1>1, ChainKeeps
      <4> QED BY <2>2, <2>3, <3>1, <4>1 DEF Keeps, Same
    <3>3. /\ B(k, to, d0) <= B(n, to, d0)
          /\ kind = "transfer" /\ from = to =>
               B(k - 1, to, d0) = B(n, to, d0) /\ B(0, to, d0) = B(n, to, d0)
      BY <2>2, <2>7, ChainPays
    <3>4. B(k, to, d0) = B(k - 1, to, d0) - Takes(op, to, d0) + Gives(op, to, d0)
      BY <2>2, <2>5
    <3>5. Gives(op, to, d0) = op.coin.amount
          /\ (~(kind = "transfer" /\ from = to) => Takes(op, to, d0) = 0)
      BY <2>1, <2>7 DEF Gives, Takes
    <3>6. Balance(u[k - 1].bank, to, d0) = B(n, to, d0) - B(k - 1, to, d0) + B(0, to, d0)
      BY <2>2, <2>3
    <3>7. kind = "transfer" /\ from = to => B(k - 1, to, d0) >= op.coin.amount
      BY <2>1, <2>5
    <3>8. /\ B(n, to, d0) \in Nat /\ B(k, to, d0) \in Nat /\ B(k - 1, to, d0) \in Nat
          /\ B(0, to, d0) \in Nat
      BY <1>5, <2>2
    <3>9. Balance(u[k - 1].bank, to, d0) >= op.coin.amount
      <4> HIDE DEF B, op, d0
      <4>1. CASE kind = "transfer" /\ from = to
        BY <2>2, <3>3, <3>6, <3>7, <3>8, <4>1
      <4>2. CASE ~(kind = "transfer" /\ from = to)
        BY <2>2, <3>3, <3>4, <3>5, <3>6, <3>8, <4>2
      <4> QED BY <4>1, <4>2
    <3> QED BY <3>1, <3>2, <3>9, HoldsIs
  <2>8. u[k - 1].bank \in Banks
    BY <2>3
  <2>9. /\ r.ok \in BOOLEAN /\ r.bank \in Banks /\ Keeps(u[k - 1].bank, r.bank)
        /\ op.op = "remove" => r.ok
        /\ op.op # "remove" => (r.ok <=> Holds(u[k - 1].bank, op.to, op.coin))
        /\ r.ok => \A a \in Account, d \in Denom :
             Balance(r.bank, a, d) = Balance(u[k - 1].bank, a, d) + Takes(op, a, d) - Gives(op, a, d)
    BY <2>1, <2>8, UndoUndoes
  <2>10. r.ok
    BY <2>1, <2>7, <2>9
  <2>11. Keeps(b, r.bank)
    BY <2>3, <2>9 DEF Keeps
  <2>12. ASSUME NEW a \in Account, NEW d \in Denom
         PROVE  Balance(r.bank, a, d) = B(n, a, d) - B(k, a, d) + B(0, a, d)
    <3>1. Balance(r.bank, a, d) = Balance(u[k - 1].bank, a, d) + Takes(op, a, d) - Gives(op, a, d)
      BY <2>9, <2>10
    <3>2. Balance(u[k - 1].bank, a, d) = B(n, a, d) - B(k - 1, a, d) + B(0, a, d)
      BY <2>3
    <3>3. B(k, a, d) = B(k - 1, a, d) - Takes(op, a, d) + Gives(op, a, d)
      BY <2>5
    <3>4. /\ B(n, a, d) \in Nat /\ B(k, a, d) \in Nat /\ B(k - 1, a, d) \in Nat /\ B(0, a, d) \in Nat
          /\ Takes(op, a, d) \in Nat /\ Gives(op, a, d) \in Nat
      BY <1>5, <2>6
    <3> HIDE DEF B, op, r
    <3> QED BY <3>1, <3>2, <3>3, <3>4
  <2> HIDE DEF op, r, B
  <2> QED BY <2>4, <2>9, <2>10, <2>11, <2>12
<1> HIDE DEF G
<1>8. \A k \in 0..n : k \in G
  BY <1>6, <1>7, StepByStep
<1>9. Left(n)
  BY <1>8 DEF G
<1>10. Same(u[n].bank, banks[0])
  <2>1. ASSUME NEW a \in Account, NEW d \in Denom
        PROVE  Balance(u[n].bank, a, d) = B(0, a, d)
    <3>1. Balance(u[n].bank, a, d) = B(n, a, d) - B(n, a, d) + B(0, a, d)
      BY <1>9
    <3>2. B(n, a, d) \in Nat /\ B(0, a, d) \in Nat
      BY <1>5
    <3> HIDE DEF B
    <3> QED BY <3>1, <3>2
  <2>2. Keeps(banks[0], banks[n])
    BY <1>1, ChainKeeps
  <2> QED BY <1>9, <2>1, <2>2 DEF Same, Keeps
<1> QED BY <1>2, <1>3, <1>9, <1>10
(* The records that could be carried out, in their order.                  *)
Done(ops, m) == [i \in 1..m |-> ops[i]]

LEMMA MoveAllChain ==
    ASSUME NEW b \in Banks, NEW n \in Nat, NEW ops, DOMAIN ops = 1..n,
           \A i \in 1..n : ops[i] \in Ops, NEW all, all = MoveAll(b, ops)
    PROVE  \E m \in 0..n : \E banks :
             /\ banks[0] = b /\ Chain(ops, m, banks)
             /\ all \in Movings
             /\ all.temp = Done(ops, m)
             /\ all.ok => m = n
             /\ Same(all.bank, banks[m])
             /\ all.ok => all.bank = banks[m]
<1>1. PICK v : /\ v[0] = Unmoved(b)
               /\ v[n] = MoveAll(b, ops)
               /\ \A i \in 1..n : v[i] = MoveOne(v[i - 1], ops[i])
  BY MoveSteps
<1>2. \A k \in 0..n : v[k] \in Movings
  <2> DEFINE G == {k \in 0..n : v[k] \in Movings}
  <2>1. 0 \in G
    BY <1>1, UnmovedIs
  <2>2. ASSUME NEW k \in 1..n, k - 1 \in G
        PROVE  k \in G
    BY <1>1, <2>2, MoveOneMovings
  <2> HIDE DEF G
  <2>3. \A k \in 0..n : k \in G
    BY <2>1, <2>2, StepByStep, SMTT(20)
  <2> QED BY <2>3 DEF G
<1>3. \A k \in 0..n : v[k].ok \in BOOLEAN /\ v[k].bank \in Banks
  BY <1>2 DEF Movings
<1> DEFINE Moved(k, m) ==
             /\ v[k].ok => m = k
             /\ \A j \in 1..m : /\ Do(v[j - 1].bank, ops[j]).ok
                                /\ Do(v[j - 1].bank, ops[j]).bank = v[j].bank
             /\ v[k].temp = Done(ops, m)
             /\ Same(v[k].bank, v[m].bank)
           G == {k \in 0..n : \E m \in 0..k : Moved(k, m)}
<1>4. 0 \in G
  <2>1. v[0].temp = Done(ops, 0) /\ Same(v[0].bank, v[0].bank)
    BY <1>1 DEF Unmoved, Done, Same, Keeps
  <2>2. Moved(0, 0)
    BY <2>1
  <2> HIDE DEF Moved
  <2> QED BY <2>2
<1>5. ASSUME NEW k \in 1..n, k - 1 \in G
      PROVE  k \in G
  <2>1. k - 1 \in 0..n /\ k \in 0..n
    OBVIOUS
  <2>2. PICK m \in 0..(k - 1) : Moved(k - 1, m)
    BY <1>5
  <2> DEFINE one == Do(v[k - 1].bank, ops[k])
  <2>3. v[k] = MoveOne(v[k - 1], ops[k])
    BY <1>1
  <2>4. CASE ~v[k - 1].ok
    <3>1. v[k] = v[k - 1]
      BY <2>3, <2>4 DEF MoveOne
    <3>2. Moved(k, m)
      BY <2>2, <2>4, <3>1
    <3> HIDE DEF Moved
    <3> QED BY <2>1, <3>2
  <2>5. CASE v[k - 1].ok /\ one.ok
    <3>1. m = k - 1
      BY <2>2, <2>5
    <3>2. v[k].ok = one.ok /\ v[k].bank = one.bank /\ v[k].temp = Append(v[k - 1].temp, ops[k])
      BY <2>3, <2>5 DEF MoveOne
    <3>3. v[k].temp = Done(ops, k)
      <4>1. v[k - 1].temp = Done(ops, k - 1)
        BY <2>2, <3>1
      <4>2. Append(Done(ops, k - 1), ops[k]) = Done(ops, k)
        BY DEF Done
      <4> QED BY <3>2, <4>1, <4>2
    <3>4. Same(v[k].bank, v[k].bank)
      BY DEF Same, Keeps
    <3>5. ASSUME NEW j \in 1..k
          PROVE  Do(v[j - 1].bank, ops[j]).ok /\ Do(v[j - 1].bank, ops[j]).bank = v[j].bank
      <4>1. CASE j = k
        BY <2>5, <3>2, <4>1
      <4>2. CASE j # k
        BY <2>2, <3>1, <4>2
      <4> QED BY <4>1, <4>2
    <3>6. Moved(k, k)
      BY <3>3, <3>4, <3>5
    <3> HIDE DEF Moved
    <3> QED BY <2>1, <3>6
  <2>6. CASE v[k - 1].ok /\ ~one.ok
    <3>1. m = k - 1
      BY <2>2, <2>6
    <3>2. v[k].ok = one.ok /\ v[k].bank = one.bank /\ v[k].temp = v[k - 1].temp
      BY <2>3, <2>6 DEF MoveOne
    <3>3. v[k - 1].bank \in Banks /\ ops[k] \in Ops
      BY <1>3, <2>1
    <3>4. Keeps(v[k - 1].bank, one.bank)
          /\ \A a \in Account, d \in Denom : Balance(one.bank, a, d) = Balance(v[k - 1].bank, a, d)
      BY <2>6, <3>3, DoDoes
    <3>5. Same(v[k].bank, v[m].bank)
      BY <3>1, <3>2, <3>4 DEF Same
    <3>6. Moved(k, m)
      BY <2>2, <2>6, <3>2, <3>5
    <3> HIDE DEF Moved
    <3> QED BY <2>1, <3>6
  <2> QED BY <2>4, <2>5, <2>6
<1> HIDE DEF G
<1>6. n \in G
  BY <1>4, <1>5, StepByStep
<1>7. PICK m \in 0..n : Moved(n, m)
  BY <1>6 DEF G
<1> DEFINE banks == [j \in 0..n |-> v[j].bank]
<1>8. banks[0] = b
  BY <1>1 DEF Unmoved
<1>9. Chain(ops, m, banks)
  <2>1. \A k \in 0..m : banks[k] \in Banks
    BY <1>3
  <2>2. \A k \in 1..m : /\ Do(banks[k - 1], ops[k]).ok
                        /\ Do(banks[k - 1], ops[k]).bank = banks[k]
    BY <1>7
  <2> HIDE DEF banks
  <2> QED BY <2>1, <2>2 DEF Chain
<1>10. /\ all \in Movings /\ all.temp = Done(ops, m) /\ (all.ok => m = n)
       /\ Same(all.bank, banks[m]) /\ (all.ok => all.bank = banks[m])
  BY <1>1, <1>2, <1>7
<1> HIDE DEF banks
<1> QED BY <1>8, <1>9, <1>10

LEMMA MoveCoinsMoves ==
    ASSUME NEW b \in Banks, NEW n \in Nat, NEW ops, NEW kind, NEW from, NEW to \in Account,
           Message(ops, n, kind, from, to), NEW moved, moved = MoveCoins(b, ops)
    PROVE  /\ moved.ok \in BOOLEAN /\ moved.bank \in Banks /\ Keeps(b, moved.bank)
           /\ ~moved.ok => Same(moved.bank, b)
           /\ moved.ok => /\ moved.temp = Done(ops, n)
                          /\ \E banks : /\ banks[0] = b /\ banks[n] = moved.bank
                                        /\ Chain(ops, n, banks)
<1> DEFINE all == MoveAll(b, ops)
<1>1. DOMAIN ops = 1..n /\ \A i \in 1..n : ops[i] \in Ops
  BY DEF Message
<1>0. PICK m \in 0..n : \E banks :
             /\ banks[0] = b /\ Chain(ops, m, banks)
             /\ all \in Movings
             /\ all.temp = Done(ops, m)
             /\ all.ok => m = n
             /\ Same(all.bank, banks[m])
             /\ all.ok => all.bank = banks[m]
  BY <1>1, MoveAllChain
<1>2. PICK banks :
             /\ banks[0] = b /\ Chain(ops, m, banks)
             /\ all \in Movings
             /\ all.temp = Done(ops, m)
             /\ all.ok => m = n
             /\ Same(all.bank, banks[m])
             /\ all.ok => all.bank = banks[m]
  BY <1>0
<1>3. moved = IF all.ok THEN all
              ELSE [all EXCEPT !.bank = UndoScope(Result(TRUE, all.bank), all.temp).bank,
                               !.temp = <<>>]
  BY DEF MoveCoins
<1> HIDE DEF all
<1>4. all.ok \in BOOLEAN /\ all.bank \in Banks
  BY <1>2 DEF Movings
<1>5. Keeps(banks[0], banks[m])
  <2>1. m \in Nat /\ m \in 0..m /\ 0 \in 0..m /\ \A i \in 1..m : ops[i] \in Ops
    BY <1>1
  <2> QED BY <1>2, <2>1, ChainKeeps
<1>6. CASE all.ok
  BY <1>2, <1>3, <1>4, <1>5, <1>6
<1>7. CASE ~all.ok
  <2> DEFINE past == UndoScope(Result(TRUE, all.bank), all.temp)
  <2>1. moved.ok = all.ok /\ moved.bank = past.bank
    BY <1>2, <1>3, <1>7 DEF Movings
  <2>2. Message(Done(ops, m), m, kind, from, to) /\ Chain(Done(ops, m), m, banks)
    <3>1. PICK done : done = Done(ops, m)
      OBVIOUS
    <3>2. done = [i \in 1..m |-> done[i]] /\ \A i \in 1..m : i \in 1..n /\ done[i] = ops[i]
      BY <3>1 DEF Done
    <3>3. Message(done, m, kind, from, to)
      BY <3>2 DEF Message
    <3>4. Chain(done, m, banks)
      BY <1>2, <3>2 DEF Chain
    <3> QED BY <3>1, <3>3, <3>4
  <2>3. Exact(Done(ops, m), banks[0], banks[m])
    BY <2>2, ChainExact
  <2>4. past.bank \in Banks /\ Same(past.bank, banks[0])
    BY <1>2, <1>4, <2>3 DEF Exact
  <2> HIDE DEF past
  <2> QED BY <1>2, <1>4, <1>7, <2>1, <2>4 DEF Same
<1> QED BY <1>4, <1>6, <1>7
-----------------------------------------------------------------------------
(* The supply.                                                             *)

\* What a record adds to the supply of a denomination, or takes from it.
Counts(op, kind, d) == IF op.op = kind /\ op.coin.denom = d THEN op.coin.amount ELSE 0

LEMMA CountsNat ==
    ASSUME NEW op \in Ops
    PROVE  \A kind, d : Counts(op, kind, d) \in Nat
BY OpIs DEF Counts

LEMMA OpSupply ==
    ASSUME NEW op \in Ops, NEW d \in Denom, NEW f, NEW g, DOMAIN f = Account, DOMAIN g = Account,
           \A a \in Account : f[a] \in Int,
           \A a \in Account : g[a] = f[a] - Takes(op, a, d) + Gives(op, a, d)
    PROVE  SumFunction(g) = SumFunction(f) - Counts(op, "remove", d) + Counts(op, "add", d)
<1> DEFINE h == [a \in Account |-> f[a] - Takes(op, a, d)]
           n == IF op.coin.denom = d THEN op.coin.amount ELSE 0
           out == IF op.op # "add" THEN n ELSE 0
           in == IF op.op # "remove" THEN n ELSE 0
<1>1. /\ op.coin.amount \in Nat /\ op.op \in {"add", "remove", "transfer"}
      /\ op.op # "remove" => op.to \in Account
      /\ op.op # "add" => op.from \in Account
      /\ IsFiniteSet(Account)
  BY OpIs, EnsembleBankAssumption
<1>2. \A a \in Account : Takes(op, a, d) \in Nat /\ Gives(op, a, d) \in Nat
  BY GainsNat
<1>3. n \in Nat /\ out \in Nat /\ in \in Nat
  BY <1>1
<1>4. DOMAIN h = Account /\ \A a \in Account : h[a] \in Int /\ h[a] = f[a] - Takes(op, a, d)
  BY <1>2
<1>5. \A a \in Account : g[a] \in Int /\ g[a] = h[a] + Gives(op, a, d)
  BY <1>2, <1>4
<1>6. SumFunction(f) \in Int
  BY <1>1, SumInt DEF SumFunction
<1> HIDE DEF h
<1>7. SumFunction(h) = SumFunction(f) - out
  <2>1. CASE op.op = "add"
    <3>1. \A a \in Account : Takes(op, a, d) = 0
      BY <2>1 DEF Takes
    <3>2. \A a \in Account : f[a] = h[a]
      BY <1>4, <3>1
    <3>3. SumFunction(f) = SumFunction(h)
      BY <1>1, <1>4, <3>2, TotalSame
    <3> QED BY <1>6, <2>1, <3>3
  <2>2. CASE op.op # "add"
    <3>1. op.from \in Account /\ Takes(op, op.from, d) = out
          /\ \A a \in Account \ {op.from} : Takes(op, a, d) = 0
      BY <1>1, <2>2 DEF Takes
    <3>2. \A a \in Account \ {op.from} : h[a] = f[a]
      BY <1>4, <3>1
    <3>3. h[op.from] \in Int /\ f[op.from] \in Int /\ h[op.from] = f[op.from] - out
      BY <1>4, <3>1
    <3>4. SumFunction(h) = SumFunction(f) - f[op.from] + h[op.from]
      BY <1>1, <1>4, <3>1, <3>2, <3>3, TotalChanges
    <3> HIDE DEF out, n
    <3> QED BY <1>3, <1>6, <3>3, <3>4
  <2> QED BY <2>1, <2>2
<1>8. SumFunction(h) \in Int
  BY <1>1, <1>4, SumInt DEF SumFunction
<1>9. SumFunction(g) = SumFunction(h) + in
  <2>1. CASE op.op = "remove"
    <3>1. \A a \in Account : Gives(op, a, d) = 0
      BY <2>1 DEF Gives
    <3>2. \A a \in Account : h[a] = g[a]
      BY <1>4, <1>5, <3>1
    <3>3. SumFunction(h) = SumFunction(g)
      BY <1>1, <1>4, <3>2, TotalSame
    <3> QED BY <1>8, <2>1, <3>3
  <2>2. CASE op.op # "remove"
    <3>1. op.to \in Account /\ Gives(op, op.to, d) = in
          /\ \A a \in Account \ {op.to} : Gives(op, a, d) = 0
      BY <1>1, <2>2 DEF Gives
    <3>2. \A a \in Account \ {op.to} : g[a] = h[a]
      BY <1>4, <1>5, <3>1
    <3>3. g[op.to] \in Int /\ h[op.to] \in Int /\ g[op.to] = h[op.to] + in
      BY <1>4, <1>5, <3>1
    <3>4. SumFunction(g) = SumFunction(h) - h[op.to] + g[op.to]
      BY <1>1, <1>4, <3>1, <3>2, <3>3, TotalChanges
    <3> HIDE DEF in, n
    <3> QED BY <1>3, <1>8, <3>3, <3>4
  <2> QED BY <2>1, <2>2
<1>10. Counts(op, "remove", d) - Counts(op, "add", d) = out - in
  BY <1>1 DEF Counts
<1>11. Counts(op, "remove", d) \in Nat /\ Counts(op, "add", d) \in Nat
  BY CountsNat
<1> HIDE DEF in, out, n
<1> QED BY <1>3, <1>6, <1>7, <1>9, <1>10, <1>11

LEMMA TotalIsNat ==
    ASSUME NEW b \in Banks, NEW d \in Denom
    PROVE  Total(b, d) \in Nat
<1>1. [a \in Account |-> Balance(b, a, d)] \in [Account -> Nat]
  BY BalanceNat
<1> QED BY <1>1, TotalNat, EnsembleBankAssumption DEF Total

LEMMA SameTotal ==
    ASSUME NEW b, NEW c, Same(b, c), NEW d \in Denom
    PROVE  Total(b, d) = Total(c, d)
<1>1. [a \in Account |-> Balance(b, a, d)] = [a \in Account |-> Balance(c, a, d)]
  BY DEF Same
<1> QED BY <1>1 DEF Total

LEMMA RecordedIs ==
    ASSUME NEW scope, NEW n \in Nat, DOMAIN scope = 1..n, \A i \in 1..n : scope[i] \in Ops,
           NEW kind, NEW d
    PROVE  /\ Recorded(scope, kind, d)
                = SumFunctionOnSet([i \in 1..n |-> Counts(scope[i], kind, d)], 1..n)
           /\ Recorded(scope, kind, d) \in Nat
<1> DEFINE f == [i \in 1..n |-> Counts(scope[i], kind, d)]
<1>1. Recorded(scope, kind, d) = SumFunction(f)
  BY DEF Recorded, Counts
<1>2. f \in [1..n -> Nat]
  BY CountsNat
<1>3. SumFunction(f) \in Nat
  BY <1>2, UpTo, TotalNat
<1>4. SumFunction(f) = SumFunctionOnSet(f, 1..n)
  BY DEF SumFunction
<1> QED BY <1>1, <1>3, <1>4

LEMMA ChainSupply ==
    ASSUME NEW n \in Nat, NEW ops, NEW banks, DOMAIN ops = 1..n, \A i \in 1..n : ops[i] \in Ops,
           Chain(ops, n, banks), NEW d \in Denom
    PROVE  Total(banks[n], d) + Recorded(ops, "remove", d)
             = Total(banks[0], d) + Recorded(ops, "add", d)
<1> DEFINE out == [i \in 1..n |-> Counts(ops[i], "remove", d)]
           in == [i \in 1..n |-> Counts(ops[i], "add", d)]
           Out(k) == SumFunctionOnSet(out, 1..k)
           In(k) == SumFunctionOnSet(in, 1..k)
           T(k) == Total(banks[k], d)
           Balanced(k) == /\ Out(k) \in Nat /\ In(k) \in Nat
                          /\ T(k) + Out(k) = T(0) + In(k)
           G == {k \in 0..n : Balanced(k)}
<1>1. \A k \in 0..n : T(k) \in Nat
  BY TotalIsNat DEF Chain
<1>2. 0 \in G
  <2>1. 1..0 = {}
    OBVIOUS
  <2>2. Out(0) = 0 /\ In(0) = 0
    BY <2>1, SumEmpty
  <2>3. Balanced(0)
    BY <1>1, <2>2
  <2> HIDE DEF Balanced
  <2> QED BY <2>3
<1>3. \A i \in 1..n : out[i] \in Nat /\ in[i] \in Nat
  BY CountsNat
<1>4. ASSUME NEW k \in 1..n, k - 1 \in G
      PROVE  k \in G
  <2> DEFINE op == ops[k]
             f == [a \in Account |-> Balance(banks[k - 1], a, d)]
             g == [a \in Account |-> Balance(banks[k], a, d)]
  <2>1. op \in Ops /\ out[k] = Counts(op, "remove", d) /\ in[k] = Counts(op, "add", d)
    OBVIOUS
  <2>2. banks[k - 1] \in Banks
        /\ \A a \in Account : g[a] = f[a] - Takes(op, a, d) + Gives(op, a, d)
    BY ChainStep
  <2>3. \A a \in Account : f[a] \in Int
    BY <2>2, BalanceNat
  <2>4. DOMAIN f = Account /\ DOMAIN g = Account
    OBVIOUS
  <2>5. T(k - 1) = SumFunction(f) /\ T(k) = SumFunction(g)
    BY DEF Total
  <2> HIDE DEF f, g, op
  <2>6. SumFunction(g) = SumFunction(f) - Counts(op, "remove", d) + Counts(op, "add", d)
    BY <2>1, <2>2, <2>3, <2>4, OpSupply
  <2>7. T(k) = T(k - 1) - out[k] + in[k]
    BY <2>1, <2>5, <2>6
  <2> HIDE DEF out, in, T
  <2>8. Out(k - 1) \in Nat /\ Out(k) = Out(k - 1) + out[k]
    BY <1>3, SumUpTo
  <2>9. In(k - 1) \in Nat /\ In(k) = In(k - 1) + in[k]
    BY <1>3, SumUpTo
  <2>10. Balanced(k - 1)
    BY <1>4
  <2>11. T(k) \in Nat /\ T(k - 1) \in Nat /\ T(0) \in Nat /\ out[k] \in Nat /\ in[k] \in Nat
    BY <1>1, <1>3
  <2> HIDE DEF Out, In
  <2>12. T(k - 1) + Out(k - 1) = T(0) + In(k - 1)
    BY <2>10
  <2>13. Out(k) \in Nat /\ In(k) \in Nat
    BY <2>8, <2>9, <2>11
  <2>14. T(k) + Out(k) = T(0) + In(k)
    BY <2>7, <2>8, <2>9, <2>11, <2>12
  <2>15. Balanced(k)
    BY <2>13, <2>14
  <2> HIDE DEF Balanced
  <2> QED BY <2>15
<1> HIDE DEF G
<1>5. n \in G
  BY <1>2, <1>4, StepByStep
<1>6. Balanced(n)
  BY <1>5 DEF G
<1>7. Recorded(ops, "remove", d) = Out(n) /\ Recorded(ops, "add", d) = In(n)
  BY RecordedIs
<1> QED BY <1>6, <1>7
-----------------------------------------------------------------------------
(* What the records of a scope say of the banks before and after it.       *)

Follows(scope, before, after) ==
    /\ scope \in Scopes
    /\ Keeps(before, after)
    /\ Exact(scope, before, after)
    /\ \A d \in Denom : Total(after, d) + Recorded(scope, "remove", d)
                            = Total(before, d) + Recorded(scope, "add", d)

LEMMA SameTransitive ==
    ASSUME NEW a, NEW b, NEW c, Same(a, b), Same(b, c)
    PROVE  Same(a, c)
BY DEF Same, Keeps

LEMMA SameReflexive == ASSUME NEW b PROVE Same(b, b)
BY DEF Same, Keeps

LEMMA FollowsSame ==
    ASSUME NEW scope, NEW before, NEW after, NEW b, Follows(scope, before, after), Same(b, after)
    PROVE  Follows(scope, before, b)
<1>1. Exact(scope, before, b)
  BY SameTransitive DEF Follows, Exact
<1>2. Keeps(before, b)
  BY DEF Follows, Same, Keeps
<1>3. \A d \in Denom : Total(b, d) = Total(after, d)
  BY SameTotal
<1> QED BY <1>1, <1>2, <1>3 DEF Follows

LEMMA NothingUndone ==
    ASSUME NEW r \in Results
    PROVE  UndoScope(r, <<>>) = r
<1>1. DOMAIN <<>> = 1..0 /\ \A i \in 1..0 : <<>>[i] \in Ops
  OBVIOUS
<1>2. PICK nothing : nothing = <<>>
  OBVIOUS
<1>3. PICK u : u[0] = r /\ u[0] = UndoScope(r, nothing)
  BY <1>1, <1>2, UndoSteps
<1> QED BY <1>2, <1>3

LEMMA FollowsNothing ==
    ASSUME NEW b \in Banks
    PROVE  Follows(<<>>, b, b)
<1>1. Keeps(b, b)
  BY DEF Keeps
<1>2. ASSUME NEW c \in Banks
      PROVE  UndoScope(Result(TRUE, c), <<>>) = Result(TRUE, c)
  <2>1. PICK r \in Results : r = Result(TRUE, c)
    BY DEF Result, Results
  <2> QED BY <2>1, NothingUndone
<1>3. Exact(<<>>, b, b)
  BY <1>2 DEF Exact, Result
<1>4. ASSUME NEW d \in Denom, NEW kind
      PROVE  Recorded(<<>>, kind, d) = 0
  <2>1. DOMAIN <<>> = {}
    OBVIOUS
  <2> QED BY <2>1, SumEmpty DEF Recorded, SumFunction
<1>5. <<>> \in Scopes
  BY DEF Scopes
<1> QED BY <1>1, <1>3, <1>4, <1>5, TotalIsNat DEF Follows

\* Nothing was recorded so far, and a message succeeds.
LEMMA MessageFollows ==
    ASSUME NEW before \in Banks, NEW b \in Banks, Follows(<<>>, before, b),
           NEW n \in Nat, NEW ops, NEW kind, NEW from, NEW to \in Account,
           Message(ops, n, kind, from, to), NEW banks, Chain(ops, n, banks), banks[0] = b
    PROVE  Follows(ops, before, banks[n])
<1>1. DOMAIN ops = 1..n /\ \A i \in 1..n : ops[i] \in Ops
  BY DEF Message
<1>2. ops \in Scopes
  <2>1. ops = [i \in 1..n |-> ops[i]]
    BY DEF Message
  <2> QED BY <1>1, <2>1 DEF Scopes
<1>3. Same(b, before)
  <2>1. Same(b, b) /\ UndoScope(Result(TRUE, b), <<>>) = Result(TRUE, b)
    <3>1. PICK r \in Results : r = Result(TRUE, b)
      BY DEF Result, Results
    <3> QED BY <3>1, NothingUndone, SameReflexive
  <2> QED BY <2>1 DEF Follows, Exact, Result
<1>4. Exact(ops, b, banks[n])
  BY ChainExact
<1>5. Exact(ops, before, banks[n])
  BY <1>3, <1>4, SameTransitive DEF Exact
<1>6. Keeps(before, banks[n])
  <2>1. Keeps(banks[0], banks[n])
    BY <1>1, ChainKeeps
  <2> QED BY <2>1 DEF Follows, Keeps
<1>7. \A d \in Denom : Total(banks[n], d) + Recorded(ops, "remove", d)
                            = Total(before, d) + Recorded(ops, "add", d)
  <2>1. \A d \in Denom : Total(b, d) = Total(before, d)
    BY <1>3, SameTotal
  <2> QED BY <1>1, <2>1, ChainSupply
<1> QED BY <1>2, <1>5, <1>6, <1>7 DEF Follows
-----------------------------------------------------------------------------
(* The invariant.                                                          *)

\* The bank at the opening of a scope, and now.
World(i) == IF i <= Len(bank_saved) THEN bank_saved[i] ELSE bank

JournalInv == /\ bank_scopes \in Seq(Scopes)
              /\ \A i \in 1..Len(bank_scopes) :
                   Follows(bank_scopes[i], bank_saved[i], World(i + 1))

BankInv == BankTypeOK /\ JournalInv

LEMMA RevertedIsExact ==
    ASSUME BankInv, NEW b \in Banks, Same(b, bank), NEW i \in 1..Len(bank_scopes)
    PROVE  /\ RevertedFrom(b, i).ok
           /\ RevertedFrom(b, i).bank \in Banks
           /\ Same(RevertedFrom(b, i).bank, bank_saved[i])
<1>1. Len(bank_scopes) \in Nat /\ i \in 1..Len(bank_scopes)
  BY DEF BankInv, JournalInv
<1>2. PICK N \in Nat : N = Len(bank_scopes)
  BY <1>1
<1>3. PICK n \in Nat : n = N - i + 1
  BY <1>1, <1>2
<1>4. N = Len(bank_scopes) /\ n = N - i + 1 /\ i \in 1..N
  BY <1>1, <1>2, <1>3
<1> DEFINE undone == Reverse(SubSeq(bank_scopes, i, N))
<1>5. /\ N \in Nat /\ i \in 1..N /\ n \in Nat /\ Len(bank_saved) = N
      /\ bank \in Banks /\ bank_saved \in Seq(Banks) /\ bank_scopes \in Seq(Scopes)
  BY <1>4 DEF BankInv, BankTypeOK, JournalInv
<1>6. DOMAIN undone = 1..n /\ \A k \in 1..n : undone[k] = bank_scopes[N - k + 1]
  <2>1. PICK part : part = SubSeq(bank_scopes, i, N)
    OBVIOUS
  <2>2. Len(part) = n /\ \A k \in 1..n : part[k] = bank_scopes[i + k - 1]
    BY <1>4, <1>5, <2>1
  <2>3. undone = [k \in 1..Len(part) |-> part[(Len(part) - k) + 1]]
    BY <2>1 DEF Reverse
  <2>4. \A k \in 1..n : undone[k] = part[n - k + 1] /\ n - k + 1 \in 1..n /\ i + (n - k + 1) - 1 = N - k + 1
    <3>1. \A k \in 1..n : n - k + 1 \in 1..n /\ i + (n - k + 1) - 1 = N - k + 1
      BY <1>4, <1>5
    <3>2. undone = [k \in 1..n |-> part[(n - k) + 1]]
      BY <2>2, <2>3
    <3>3. \A k \in 1..n : undone[k] = part[n - k + 1]
      BY <3>2
    <3> QED BY <3>1, <3>3
  <2>5. DOMAIN undone = 1..n
    BY <2>2, <2>3
  <2>6. ASSUME NEW k \in 1..n
        PROVE  undone[k] = bank_scopes[N - k + 1]
    <3>1. PICK m \in 1..n : m = n - k + 1
      BY <2>4
    <3>2. undone[k] = part[m] /\ part[m] = bank_scopes[i + m - 1] /\ i + m - 1 = N - k + 1
      BY <2>2, <2>4, <3>1
    <3> QED BY <3>2
  <2> QED BY <2>5, <2>6
<1>7. n \in Nat /\ \A k \in 1..n : N - k + 1 \in 1..N
  BY <1>4, <1>5
<1>8. RevertedFrom(b, i) = UndoScopes(Result(TRUE, b), undone)
  BY <1>4 DEF RevertedFrom
<1> HIDE DEF undone
<1>9. ASSUME NEW k \in 1..n
       PROVE  undone[k] \in Scopes
  <2>1. undone[k] = bank_scopes[N - k + 1] /\ N - k + 1 \in 1..Len(bank_scopes)
    BY <1>4, <1>6, <1>7
  <2>2. bank_scopes \in Seq(Scopes)
    BY <1>5
  <2> QED BY <2>1, <2>2
<1>10. PICK start \in Results : start = Result(TRUE, b)
  BY DEF Result, Results
<1>11. PICK u : /\ u[0] = start
               /\ u[n] = UndoScopes(start, undone)
               /\ \A k \in 1..n : u[k] = UndoScope(u[k - 1], undone[k])
  <2>1. DOMAIN undone = 1..n
    BY <1>6
  <2>2. \A k \in 1..n : undone[k] \in Scopes
    BY <1>9
  <2> QED BY <2>1, <2>2, RevertSteps
<1> DEFINE Back(k) == u[k].ok /\ u[k].bank \in Banks /\ Same(u[k].bank, World(N - k + 1))
                      /\ u[k] = Result(TRUE, u[k].bank)
           G == {k \in 0..n : Back(k)}
<1>12. 0 \in G
  <2>1. World(N - 0 + 1) = bank
    BY <1>5 DEF World
  <2>2. Back(0)
    BY <1>10, <1>11, <2>1 DEF Result
  <2> HIDE DEF Back
  <2> QED BY <1>5, <2>2
<1>13. ASSUME NEW k \in 1..n, k - 1 \in G
      PROVE  k \in G
  <2> DEFINE j == N - k + 1
  <2>0. j \in 1..N /\ N - (k - 1) + 1 = j + 1
    BY <1>4
  <2>1. j \in 1..N /\ N - (k - 1) + 1 = j + 1 /\ World(j) = bank_saved[j]
    BY <1>5, <2>0 DEF World
  <2>2. Follows(bank_scopes[j], bank_saved[j], World(j + 1))
    BY <1>4, <2>1 DEF BankInv, JournalInv
  <2>3. Back(k - 1)
    BY <1>13
  <2>4. u[k - 1].bank \in Banks /\ Same(u[k - 1].bank, World(j + 1))
        /\ u[k - 1] = Result(TRUE, u[k - 1].bank)
    BY <2>1, <2>3
  <2>5. u[k] = UndoScope(u[k - 1], bank_scopes[j])
    BY <1>6, <1>11
  <2>6. /\ UndoScope(Result(TRUE, u[k - 1].bank), bank_scopes[j]).ok
        /\ UndoScope(Result(TRUE, u[k - 1].bank), bank_scopes[j]).bank \in Banks
        /\ Same(UndoScope(Result(TRUE, u[k - 1].bank), bank_scopes[j]).bank, bank_saved[j])
    BY <2>2, <2>4 DEF Follows, Exact
  <2>7. u[k] \in Results
    <3>1. u[k - 1] \in Results
      BY <2>3 DEF Results, Result
    <3>2. bank_scopes[j] \in Scopes
      BY <1>4, <1>5, <2>1
    <3> QED BY <2>5, <3>1, <3>2, UndoScopeResults
  <2>8. u[k] = Result(TRUE, u[k].bank)
    BY <2>4, <2>5, <2>6, <2>7 DEF Results, Result
  <2>9. Back(k)
    BY <2>1, <2>4, <2>5, <2>6, <2>8
  <2> HIDE DEF Back
  <2> QED BY <2>9
<1> HIDE DEF G
<1>14. n \in G
  <2>1. n \in Nat
    BY <1>7
  <2>2. \A k \in 1..n : k - 1 \in G => k \in G
    BY <1>13
  <2>3. \A k \in 0..n : k \in G
    BY <2>1, <2>2, <1>12, StepByStep
  <2> QED BY <2>1, <2>3
<1>15. Back(n) /\ N - n + 1 = i
  <2>1. Back(n)
    BY <1>14 DEF G
  <2>2. N - n + 1 = i
    BY <1>4
  <2> HIDE DEF Back
  <2> QED BY <2>1, <2>2
<1>16. World(i) = bank_saved[i]
  BY <1>5 DEF World
<1> QED BY <1>8, <1>10, <1>11, <1>15, <1>16
-----------------------------------------------------------------------------
(* Every step keeps it.                                                    *)

LEMMA Starts == BankInit => BankInv
<1> SUFFICES ASSUME BankInit PROVE BankInv
  OBVIOUS
<1>1. bank = <<>> /\ bank_scopes = <<>> /\ bank_saved = <<>>
  BY DEF BankInit
<1>2. <<>> \in Banks
  <2>1. PICK b : b = <<>>
    OBVIOUS
  <2>2. DOMAIN b = {} /\ b = [a \in DOMAIN b |-> b[a]]
    BY <2>1
  <2> QED BY <2>1, <2>2, BankIs
<1> QED BY <1>1, <1>2 DEF BankInv, BankTypeOK, JournalInv

LEMMA OutsideKeeps ==
    ASSUME BankInv, ~BankOpen, bank' \in Banks, UNCHANGED <<bank_scopes, bank_saved>>
    PROVE  BankInv'
<1>1. bank_scopes = <<>> /\ bank_scopes' = <<>> /\ bank_saved' = bank_saved
  BY DEF BankOpen
<1>2. \A i \in 1..Len(bank_scopes') : FALSE
  BY <1>1
<1>3. JournalInv'
  BY <1>1, <1>2 DEF JournalInv
<1> QED BY <1>1, <1>3 DEF BankInv, BankTypeOK

LEMMA PushKeeps ==
    ASSUME BankInv, BankPushScope
    PROVE  BankInv'
<1>1. PICK N \in Nat : N = Len(bank_scopes)
  BY DEF BankInv, JournalInv
<1>2. bank' = bank /\ bank \in Banks /\ bank_saved \in Seq(Banks) /\ bank_scopes \in Seq(Scopes)
      /\ Len(bank_saved) = N
  BY <1>1 DEF BankPushScope, BankInv, BankTypeOK, JournalInv
<1>3. <<>> \in Scopes
  BY DEF Scopes
<1>4. /\ bank_scopes' \in Seq(Scopes) /\ Len(bank_scopes') = N + 1
      /\ \A i \in 1..N : bank_scopes'[i] = bank_scopes[i]
      /\ bank_scopes'[N + 1] = <<>>
  BY <1>1, <1>2, <1>3 DEF BankPushScope
<1>5. /\ bank_saved' \in Seq(Banks) /\ Len(bank_saved') = N + 1
      /\ \A i \in 1..N : bank_saved'[i] = bank_saved[i]
      /\ bank_saved'[N + 1] = bank
  BY <1>2 DEF BankPushScope
<1>6. ASSUME NEW i \in 1..(N + 1)
      PROVE  Follows(bank_scopes'[i], bank_saved'[i], World(i + 1)')
  <2>1. CASE i = N + 1
    <3>1. World(i + 1)' = bank
      BY <1>2, <1>5, <2>1 DEF World
    <3> QED BY <1>2, <1>4, <1>5, <2>1, <3>1, FollowsNothing
  <2>2. CASE i # N + 1
    <3>1. i \in 1..N
      BY <2>2
    <3>2. World(i + 1)' = World(i + 1)
      <4>1. CASE i = N
        BY <1>2, <1>5, <4>1 DEF World
      <4>2. CASE i # N
        <5>1. i + 1 \in 1..N /\ i + 1 <= N + 1
          BY <3>1, <4>2
        <5> QED BY <1>2, <1>5, <5>1 DEF World
      <4> QED BY <4>1, <4>2
    <3>3. Follows(bank_scopes[i], bank_saved[i], World(i + 1))
      BY <1>1, <3>1 DEF BankInv, JournalInv
    <3> QED BY <1>4, <1>5, <3>1, <3>2, <3>3
  <2> QED BY <2>1, <2>2
<1>7. JournalInv'
  BY <1>4, <1>6 DEF JournalInv
<1> QED BY <1>2, <1>4, <1>5, <1>7 DEF BankInv, BankTypeOK

LEMMA SettleKeeps ==
    ASSUME BankInv, NEW n \in Nat, NEW ops, NEW kind, NEW from, NEW to \in Account,
           Message(ops, n, kind, from, to), Settle(MoveCoins(bank, ops))
    PROVE  /\ BankInv'
           /\ \/ bank_saved' = bank_saved
              \/ bank_saved' = <<>> /\ bank_saved # <<>> /\ Same(bank', bank_saved[1])
<1> DEFINE moved == MoveCoins(bank, ops)
<1>1. PICK N \in Nat : N = Len(bank_scopes)
  BY DEF BankInv, JournalInv
<1>2. bank \in Banks /\ bank_saved \in Seq(Banks) /\ bank_scopes \in Seq(Scopes) /\ Len(bank_saved) = N
  BY <1>1 DEF BankInv, BankTypeOK, JournalInv
<1>3. bank_scopes # <<>> /\ bank_scopes[N] = <<>> /\ N >= 1
  BY <1>1, <1>2 DEF Settle, BankOpen, Last
<1>4. /\ moved.ok \in BOOLEAN /\ moved.bank \in Banks
      /\ ~moved.ok => Same(moved.bank, bank)
      /\ moved.ok => /\ moved.temp = Done(ops, n)
                     /\ \E banks : /\ banks[0] = bank /\ banks[n] = moved.bank
                                   /\ Chain(ops, n, banks)
  BY <1>2, MoveCoinsMoves
<1>5. IF moved.ok
      THEN /\ bank' = moved.bank
           /\ bank_scopes' = [bank_scopes EXCEPT ![Len(bank_scopes)] = @ \o moved.temp]
           /\ bank_saved' = bank_saved
      ELSE /\ bank' = RevertedFrom(moved.bank, 1).bank
           /\ bank_scopes' = <<>> /\ bank_saved' = <<>>
  BY DEF Settle
<1> HIDE DEF moved
<1>6. CASE ~moved.ok
  <2>1. 1 \in 1..Len(bank_scopes) /\ bank_saved # <<>>
    BY <1>1, <1>2, <1>3
  <2>2. bank' \in Banks /\ Same(bank', bank_saved[1])
    BY <1>4, <1>5, <1>6, <2>1, RevertedIsExact
  <2>3. bank_scopes' = <<>> /\ bank_saved' = <<>>
    BY <1>5, <1>6
  <2>4. BankInv'
    BY <2>2, <2>3 DEF BankInv, BankTypeOK, JournalInv
  <2> QED BY <2>1, <2>2, <2>3, <2>4
<1>7. CASE moved.ok
  <2>1. PICK banks : banks[0] = bank /\ banks[n] = moved.bank /\ Chain(ops, n, banks)
    BY <1>4, <1>7
  <2>2. bank' = moved.bank /\ bank_saved' = bank_saved
    BY <1>5, <1>7
  <2>3. ops \in Scopes /\ moved.temp = ops
    BY <1>4, <1>7 DEF Message, Scopes, Done
  <2>4. /\ bank_scopes' \in Seq(Scopes) /\ Len(bank_scopes') = N
        /\ \A i \in 1..(N - 1) : bank_scopes'[i] = bank_scopes[i]
        /\ bank_scopes'[N] = ops
    <3>1. <<>> \o ops = ops
      BY <2>3 DEF Scopes
    <3>2. bank_scopes' = [bank_scopes EXCEPT ![N] = ops]
      BY <1>1, <1>3, <1>5, <1>7, <2>3, <3>1
    <3> QED BY <1>1, <1>2, <1>3, <2>3, <3>2
  <2>5. bank_saved[N] \in Banks /\ Follows(<<>>, bank_saved[N], bank)
    <3>1. N \in 1..N
      BY <1>3
    <3>2. World(N + 1) = bank
      BY <1>2 DEF World
    <3>3. Follows(bank_scopes[N], bank_saved[N], World(N + 1))
      BY <1>1, <3>1 DEF BankInv, JournalInv
    <3>4. bank_saved[N] \in Banks
      BY <1>2, <3>1
    <3> QED BY <1>3, <3>2, <3>3, <3>4
  <2>6. Follows(ops, bank_saved[N], banks[n])
    BY <1>2, <2>1, <2>5, MessageFollows
  <2>7. ASSUME NEW i \in 1..N
        PROVE  Follows(bank_scopes'[i], bank_saved'[i], World(i + 1)')
    <3>1. CASE i = N
      <4>1. World(i + 1)' = bank'
        BY <1>2, <2>2, <3>1 DEF World
      <4> QED BY <2>1, <2>2, <2>4, <2>6, <3>1, <4>1
    <3>2. CASE i # N
      <4>1. i \in 1..(N - 1) /\ i + 1 <= N
        BY <3>2
      <4>2. World(i + 1)' = World(i + 1)
        BY <1>2, <2>2, <4>1 DEF World
      <4>3. Follows(bank_scopes[i], bank_saved[i], World(i + 1))
        BY <1>1 DEF BankInv, JournalInv
      <4> QED BY <2>2, <2>4, <4>1, <4>2, <4>3
    <3> QED BY <3>1, <3>2
  <2>8. JournalInv'
    BY <2>4, <2>7 DEF JournalInv
  <2>9. BankTypeOK'
    BY <1>2, <1>4, <2>2, <2>4 DEF BankTypeOK
  <2> QED BY <2>2, <2>8, <2>9 DEF BankInv
<1> QED BY <1>6, <1>7

LEMMA RevertKeeps ==
    ASSUME BankInv, NEW i \in 1..Len(bank_scopes), RevertBankTo(i)
    PROVE  /\ BankInv'
           /\ Same(bank', bank_saved[i])
<1>1. PICK N \in Nat : N = Len(bank_scopes)
  BY DEF BankInv, JournalInv
<1>2. bank \in Banks /\ bank_saved \in Seq(Banks) /\ bank_scopes \in Seq(Scopes) /\ Len(bank_saved) = N
  BY <1>1 DEF BankInv, BankTypeOK, JournalInv
<1>3. bank' \in Banks /\ Same(bank', bank_saved[i])
  BY <1>2, SameReflexive, RevertedIsExact DEF RevertBankTo
<1>4. i \in 1..N /\ i - 1 \in Nat
  BY <1>1
<1>5. /\ bank_scopes' \in Seq(Scopes) /\ Len(bank_scopes') = i - 1
      /\ \A j \in 1..(i - 1) : bank_scopes'[j] = bank_scopes[j]
  BY <1>1, <1>2, <1>4 DEF RevertBankTo
<1>6. /\ bank_saved' \in Seq(Banks) /\ Len(bank_saved') = i - 1
      /\ \A j \in 1..(i - 1) : bank_saved'[j] = bank_saved[j]
  BY <1>1, <1>2, <1>4 DEF RevertBankTo
<1>7. ASSUME NEW j \in 1..(i - 1)
      PROVE  Follows(bank_scopes'[j], bank_saved'[j], World(j + 1)')
  <2>1. j \in 1..N /\ j + 1 \in 1..N /\ j + 1 <= N
    BY <1>4
  <2>2. Follows(bank_scopes[j], bank_saved[j], bank_saved[j + 1])
    <3>1. World(j + 1) = bank_saved[j + 1]
      BY <1>2, <2>1 DEF World
    <3> QED BY <1>1, <2>1, <3>1 DEF BankInv, JournalInv
  <2>3. CASE j = i - 1
    <3>1. World(j + 1)' = bank' /\ j + 1 = i
      BY <1>4, <1>6, <2>3 DEF World
    <3> QED BY <1>3, <1>5, <1>6, <2>2, <3>1, FollowsSame
  <2>4. CASE j # i - 1
    <3>1. j + 1 \in 1..(i - 1) /\ j + 1 <= i - 1
      BY <1>4, <2>4
    <3>2. World(j + 1)' = bank_saved[j + 1]
      BY <1>6, <3>1 DEF World
    <3> QED BY <1>5, <1>6, <2>2, <3>2
  <2> QED BY <2>3, <2>4
<1>8. JournalInv'
  BY <1>5, <1>7 DEF JournalInv
<1> QED BY <1>3, <1>5, <1>6, <1>8 DEF BankInv, BankTypeOK
-----------------------------------------------------------------------------
(* What a step of the bank may be.                                         *)

Outside == ~BankOpen /\ bank' \in Banks /\ UNCHANGED <<bank_scopes, bank_saved>>

MessageStep ==
    \E n \in Nat : \E ops, kind, from : \E to \in Account :
        Message(ops, n, kind, from, to) /\ Settle(MoveCoins(bank, ops))

LEMMA OneCoin ==
    ASSUME NEW a \in Account, NEW coin \in Coin
    PROVE  /\ Message([i \in DOMAIN <<coin>> |-> RemoveOp(a, <<coin>>[i])], 1, "remove", a, a)
           /\ Message([i \in DOMAIN <<coin>> |-> AddOp(a, <<coin>>[i])], 1, "add", a, a)
<1>1. PICK coins : coins = <<coin>>
  OBVIOUS
<1>2. DOMAIN coins = 1..1 /\ \A i \in 1..1 : coins[i] = coin
  BY <1>1
<1>3. RemoveOp(a, coin) \in Ops /\ AddOp(a, coin) \in Ops
  BY DEF Ops, RemoveOp, AddOp
<1>4. Message([i \in DOMAIN coins |-> RemoveOp(a, coins[i])], 1, "remove", a, a)
  BY <1>2, <1>3 DEF Message, RemoveOp
<1>5. Message([i \in DOMAIN coins |-> AddOp(a, coins[i])], 1, "add", a, a)
  BY <1>2, <1>3 DEF Message, AddOp
<1> QED BY <1>1, <1>4, <1>5

LEMMA ManyCoins ==
    ASSUME NEW from \in Account, NEW to \in Account, NEW coins \in SeqOf(Coin, MaxCoins)
    PROVE  \E n \in Nat :
             Message([i \in DOMAIN coins |-> TransferOp(from, to, coins[i])], n, "transfer", from, to)
<1>1. PICK n \in 0..MaxCoins : coins \in [1..n -> Coin]
  BY DEF SeqOf
<1>2. n \in Nat /\ DOMAIN coins = 1..n
  BY <1>1, EnsembleBankAssumption
<1>3. \A i \in 1..n : TransferOp(from, to, coins[i]) \in Ops
  BY <1>1 DEF Ops, TransferOp
<1>4. Message([i \in DOMAIN coins |-> TransferOp(from, to, coins[i])], n, "transfer", from, to)
  BY <1>2, <1>3 DEF Message, TransferOp
<1> QED BY <1>2, <1>4

LEMMA StepIs ==
    ASSUME BankInv, BankNext
    PROVE  \/ Outside
           \/ MessageStep
           \/ BankPushScope
           \/ \E i \in 1..Len(bank_scopes) : RevertBankTo(i)
           \/ BankCommit
<1>1. bank \in Banks
  BY DEF BankInv, BankTypeOK
<1>2. ASSUME NEW a \in Account, NEW coin \in Coin, Deposit(a, coin)
      PROVE  Outside
  BY <1>1, <1>2, AddAdds DEF Deposit, Outside
<1>3. ASSUME NEW a \in Account, NEW coin \in Coin, Confiscate(a, coin)
      PROVE  Outside
  BY <1>1, <1>3, TakeTakes DEF Confiscate, Outside
<1>4. ASSUME NEW a \in Account, NEW coin \in Coin, NEW to \in Account, Move(a, to, coin)
      PROVE  Outside
  BY <1>1, <1>4, TransferMoves DEF Move, Outside
<1>5. ASSUME NEW a \in Account, NEW coin \in Coin, Withhold(a, coin)
      PROVE  MessageStep
  <2>1. PICK ops : ops = [i \in DOMAIN <<coin>> |-> RemoveOp(a, <<coin>>[i])]
    OBVIOUS
  <2>2. Message(ops, 1, "remove", a, a)
    BY <2>1, OneCoin
  <2>3. Settle(MoveCoins(bank, ops))
    BY <1>5, <2>1 DEF Withhold, RemoveFunds
  <2> QED BY <2>2, <2>3 DEF MessageStep
<1>6. ASSUME NEW a \in Account, NEW coin \in Coin, PayOut(a, coin)
      PROVE  MessageStep
  <2>1. PICK ops : ops = [i \in DOMAIN <<coin>> |-> AddOp(a, <<coin>>[i])]
    OBVIOUS
  <2>2. Message(ops, 1, "add", a, a)
    BY <2>1, OneCoin
  <2>3. Settle(MoveCoins(bank, ops))
    BY <1>6, <2>1 DEF PayOut, AddFunds
  <2> QED BY <2>2, <2>3 DEF MessageStep
<1>7. ASSUME NEW from \in Account, NEW to \in Account, NEW coins \in SeqOf(Coin, MaxCoins),
             Transfer(from, to, coins)
      PROVE  MessageStep
  <2>1. PICK ops : ops = [i \in DOMAIN coins |-> TransferOp(from, to, coins[i])]
    OBVIOUS
  <2>2. \E n \in Nat : Message(ops, n, "transfer", from, to)
    BY <2>1, ManyCoins
  <2>3. Settle(MoveCoins(bank, ops))
    BY <1>7, <2>1 DEF Transfer, TransferFunds
  <2> QED BY <2>2, <2>3 DEF MessageStep
<1> QED BY <1>2, <1>3, <1>4, <1>5, <1>6, <1>7 DEF BankNext

LEMMA NextKeeps == BankInv /\ [BankNext]_bankVars => BankInv'
<1> SUFFICES ASSUME BankInv, [BankNext]_bankVars PROVE BankInv'
  OBVIOUS
<1>1. CASE Outside
  BY <1>1, OutsideKeeps DEF Outside
<1>2. CASE MessageStep
  BY <1>2, SettleKeeps DEF MessageStep
<1>3. CASE BankPushScope
  BY <1>3, PushKeeps
<1>4. ASSUME NEW i \in 1..Len(bank_scopes), RevertBankTo(i)
      PROVE  BankInv'
  BY <1>4, RevertKeeps
<1>5. CASE BankCommit
  BY <1>5 DEF BankCommit, BankInv, BankTypeOK, JournalInv
<1>6. CASE UNCHANGED bankVars
  BY <1>6 DEF bankVars, BankInv, BankTypeOK, JournalInv, World
<1> QED BY <1>1, <1>2, <1>3, <1>4, <1>5, <1>6, StepIs

(* The bank keeps its type, and every scope of the journal tells how to    *)
(* get from the balances after it to those before it.                      *)
THEOREM BankInvariant == BankSpec => []BankInv
BY Starts, NextKeeps, PTL DEF BankSpec

LEMMA InvImpliesExact == BankInv => BankRollbackIsExact
<1> SUFFICES ASSUME BankInv, NEW i \in 1..Len(bank_scopes)
             PROVE  /\ RevertedFrom(bank, i).ok
                    /\ Balances(RevertedFrom(bank, i).bank) = Balances(bank_saved[i])
  BY DEF BankRollbackIsExact
<1>1. bank \in Banks /\ Same(bank, bank)
  BY SameReflexive DEF BankInv, BankTypeOK
<1>2. RevertedFrom(bank, i).ok /\ Same(RevertedFrom(bank, i).bank, bank_saved[i])
  BY <1>1, RevertedIsExact
<1> QED BY <1>2 DEF Same, Balances

(* Undoing the bank's records never panics, and reverting to a scope gives *)
(* every account the balances it had when the scope was opened             *)
(* (State::revert_scope).                                                  *)
THEOREM RollbackOfBankIsExact == BankSpec => []BankRollbackIsExact
BY BankInvariant, InvImpliesExact, PTL

LEMMA InvImpliesJournalled == BankInv => SupplyIsJournalled
<1> SUFFICES ASSUME BankInv, BankOpen, NEW d \in Denom
             PROVE  Total(bank, d) + Journalled("remove", d)
                      = Total(bank_saved[1], d) + Journalled("add", d)
  BY DEF SupplyIsJournalled
<1>1. PICK N \in Nat : N = Len(bank_scopes)
  BY DEF BankInv, JournalInv
<1>2. bank \in Banks /\ bank_saved \in Seq(Banks) /\ bank_scopes \in Seq(Scopes) /\ Len(bank_saved) = N
  BY <1>1 DEF BankInv, BankTypeOK, JournalInv
<1>3. N >= 1 /\ DOMAIN bank_scopes = 1..N
  BY <1>1, <1>2 DEF BankOpen
<1> DEFINE out == [i \in 1..N |-> Recorded(bank_scopes[i], "remove", d)]
           in == [i \in 1..N |-> Recorded(bank_scopes[i], "add", d)]
           Out(k) == SumFunctionOnSet(out, 1..k)
           In(k) == SumFunctionOnSet(in, 1..k)
           T(k) == Total(World(k + 1), d)
           Balanced(k) == /\ Out(k) \in Nat /\ In(k) \in Nat
                          /\ T(k) + Out(k) = T(0) + In(k)
           G == {k \in 0..N : Balanced(k)}
<1>4. \A i \in 1..N : out[i] \in Nat /\ in[i] \in Nat
  <2> SUFFICES ASSUME NEW i \in 1..N
               PROVE  \A kind : Recorded(bank_scopes[i], kind, d) \in Nat
    OBVIOUS
  <2>1. PICK scope : scope = bank_scopes[i]
    OBVIOUS
  <2>2. PICK n \in Nat : n = Len(scope) /\ DOMAIN scope = 1..n /\ \A j \in 1..n : scope[j] \in Ops
    <3>1. scope \in Scopes
      BY <1>2, <1>3, <2>1
    <3> QED BY <3>1 DEF Scopes
  <2> QED BY <2>1, <2>2, RecordedIs
<1>5. \A k \in 0..N : T(k) \in Nat
  <2> SUFFICES ASSUME NEW k \in 0..N PROVE World(k + 1) \in Banks
    BY TotalIsNat
  <2>1. CASE k = N
    BY <1>2, <2>1 DEF World
  <2>2. CASE k # N
    <3>1. k + 1 \in 1..N /\ k + 1 <= N
      BY <2>2
    <3> QED BY <1>2, <3>1 DEF World
  <2> QED BY <2>1, <2>2
<1>6. 0 \in G
  <2>1. 1..0 = {}
    OBVIOUS
  <2>2. Out(0) = 0 /\ In(0) = 0
    BY <2>1, SumEmpty
  <2>3. Balanced(0)
    BY <1>5, <2>2
  <2> HIDE DEF Balanced
  <2> QED BY <2>3
<1>7. ASSUME NEW k \in 1..N, k - 1 \in G
      PROVE  k \in G
  <2>1. T(k) + out[k] = T(k - 1) + in[k]
    <3>1. Follows(bank_scopes[k], bank_saved[k], World(k + 1))
      BY <1>1 DEF BankInv, JournalInv
    <3>2. World((k - 1) + 1) = bank_saved[k]
      <4>1. (k - 1) + 1 = k /\ k <= N
        OBVIOUS
      <4> QED BY <1>2, <4>1 DEF World
    <3> QED BY <3>1, <3>2 DEF Follows
  <2> HIDE DEF out, in, T
  <2>2. Out(k - 1) \in Nat /\ Out(k) = Out(k - 1) + out[k]
    BY <1>4, SumUpTo
  <2>3. In(k - 1) \in Nat /\ In(k) = In(k - 1) + in[k]
    BY <1>4, SumUpTo
  <2>4. Balanced(k - 1)
    BY <1>7
  <2>5. T(k) \in Nat /\ T(k - 1) \in Nat /\ T(0) \in Nat /\ out[k] \in Nat /\ in[k] \in Nat
    BY <1>4, <1>5
  <2> HIDE DEF Out, In
  <2>6. T(k - 1) + Out(k - 1) = T(0) + In(k - 1)
    BY <2>4
  <2>7. Out(k) \in Nat /\ In(k) \in Nat
    BY <2>2, <2>3, <2>5
  <2>8. T(k) + Out(k) = T(0) + In(k)
    BY <2>1, <2>2, <2>3, <2>5, <2>6
  <2>9. Balanced(k)
    BY <2>7, <2>8
  <2> HIDE DEF Balanced
  <2> QED BY <2>9
<1> HIDE DEF G
<1>8. N \in G
  BY <1>6, <1>7, StepByStep
<1>9. Balanced(N)
  BY <1>8 DEF G
<1>10. T(N) = Total(bank, d) /\ T(0) = Total(bank_saved[1], d)
  BY <1>2, <1>3 DEF World
<1>11. Journalled("remove", d) = Out(N) /\ Journalled("add", d) = In(N)
  BY <1>3 DEF Journalled, SumFunction
<1> QED BY <1>9, <1>10, <1>11

(* The records of the open scopes account for every coin that the open     *)
(* transaction added to or removed from the supply.                        *)
THEOREM SupplyAlwaysJournalled == BankSpec => []SupplyIsJournalled
BY BankInvariant, InvImpliesJournalled, PTL
-----------------------------------------------------------------------------
(* The balances, as the nested transactions see them.                      *)

Ledgers == [Account -> [Denom -> Nat]]

Opened == [i \in DOMAIN bank_saved |-> Balances(bank_saved[i])]

LEMMA BalancesAre == ASSUME NEW b \in Banks PROVE Balances(b) \in Ledgers
BY BalanceNat DEF Balances, Ledgers

LEMMA SameBalances == ASSUME NEW b, NEW c, Same(b, c) PROVE Balances(b) = Balances(c)
BY DEF Same, Balances

LEMMA OpenedIs ==
    ASSUME BankInv
    PROVE  /\ Opened \in Seq(Ledgers) /\ Len(Opened) = Len(bank_scopes)
           /\ DOMAIN Opened = 1..Len(bank_scopes)
           /\ \A i \in 1..Len(bank_scopes) : Opened[i] = Balances(bank_saved[i])
<1>1. PICK N \in Nat : N = Len(bank_scopes)
  BY DEF BankInv, JournalInv
<1>2. bank_saved \in Seq(Banks) /\ Len(bank_saved) = N
  BY <1>1 DEF BankInv, BankTypeOK
<1>3. DOMAIN bank_saved = 1..N /\ \A i \in 1..N : bank_saved[i] \in Banks
  BY <1>2
<1>4. \A i \in 1..N : Balances(bank_saved[i]) \in Ledgers
  BY <1>3, BalancesAre
<1>5. Opened = [i \in 1..N |-> Balances(bank_saved[i])]
  BY <1>3 DEF Opened
<1> QED BY <1>1, <1>4, <1>5

LEMMA AppendIs ==
    ASSUME NEW S, NEW s \in Seq(S), NEW N \in Nat, Len(s) = N, NEW x \in S
    PROVE  Append(s, x) = [i \in 1..(N + 1) |-> IF i = N + 1 THEN x ELSE s[i]]
<1>1. PICK t : t = Append(s, x)
  OBVIOUS
<1>2. t \in Seq(S) /\ Len(t) = N + 1 /\ t[N + 1] = x
  BY <1>1
<1>3. \A i \in 1..N : t[i] = s[i]
  BY <1>1
<1>4. t = [i \in 1..(N + 1) |-> t[i]]
  BY <1>2
<1>5. \A i \in 1..(N + 1) : t[i] = IF i = N + 1 THEN x ELSE s[i]
  BY <1>2, <1>3
<1>6. t = [i \in 1..(N + 1) |-> IF i = N + 1 THEN x ELSE s[i]]
  BY <1>4, <1>5
<1> QED BY <1>1, <1>6

LEMMA OpenedPushed ==
    ASSUME BankInv, BankPushScope
    PROVE  Opened' = Append(Opened, Balances(bank))
<1>1. PICK N \in Nat : N = Len(bank_scopes)
  BY DEF BankInv, JournalInv
<1>2. bank_saved \in Seq(Banks) /\ Len(bank_saved) = N /\ bank \in Banks
  BY <1>1 DEF BankInv, BankTypeOK
<1>3. /\ DOMAIN bank_saved' = 1..(N + 1)
      /\ \A i \in 1..N : bank_saved'[i] = bank_saved[i]
      /\ bank_saved'[N + 1] = bank
  BY <1>2 DEF BankPushScope
<1>4. Opened' = [i \in 1..(N + 1) |-> Balances(bank_saved'[i])]
  BY <1>3 DEF Opened
<1>5. /\ Opened \in Seq(Ledgers) /\ Len(Opened) = N
      /\ \A i \in 1..N : Opened[i] = Balances(bank_saved[i])
  BY <1>1, OpenedIs
<1>6. Append(Opened, Balances(bank)) =
        [i \in 1..(N + 1) |-> IF i = N + 1 THEN Balances(bank) ELSE Opened[i]]
  <2>1. PICK o : o = Opened
    OBVIOUS
  <2>2. PICK now \in Ledgers : now = Balances(bank)
    BY <1>2, BalancesAre
  <2>3. Append(o, now) = [i \in 1..(N + 1) |-> IF i = N + 1 THEN now ELSE o[i]]
    BY <1>5, <2>1, AppendIs
  <2> QED BY <2>1, <2>2, <2>3
<1>7. \A i \in 1..(N + 1) :
        Balances(bank_saved'[i]) = IF i = N + 1 THEN Balances(bank) ELSE Opened[i]
  <2> SUFFICES ASSUME NEW i \in 1..(N + 1)
               PROVE  Balances(bank_saved'[i]) = IF i = N + 1 THEN Balances(bank) ELSE Opened[i]
    OBVIOUS
  <2>1. CASE i = N + 1
    BY <1>3, <2>1
  <2>2. CASE i # N + 1
    <3>1. i \in 1..N
      BY <2>2
    <3> QED BY <1>3, <1>5, <2>2, <3>1
  <2> QED BY <2>1, <2>2
<1> QED BY <1>4, <1>6, <1>7

LEMMA OpenedReverted ==
    ASSUME BankInv, NEW i \in 1..Len(bank_scopes), RevertBankTo(i)
    PROVE  Opened' = SubSeq(Opened, 1, i - 1)
<1>1. PICK N \in Nat : N = Len(bank_scopes)
  BY DEF BankInv, JournalInv
<1>2. bank_saved \in Seq(Banks) /\ Len(bank_saved) = N
  BY <1>1 DEF BankInv, BankTypeOK
<1>3. i \in 1..N /\ i - 1 \in Nat /\ \A j \in 1..(i - 1) : j \in 1..N
  BY <1>1
<1>4. /\ DOMAIN bank_saved' = 1..(i - 1)
      /\ \A j \in 1..(i - 1) : bank_saved'[j] = bank_saved[j]
  BY <1>2, <1>3 DEF RevertBankTo
<1>5. Opened' = [j \in 1..(i - 1) |-> Balances(bank_saved'[j])]
  BY <1>4 DEF Opened
<1>6. /\ Opened \in Seq(Ledgers) /\ Len(Opened) = N
      /\ \A j \in 1..N : Opened[j] = Balances(bank_saved[j])
  BY <1>1, OpenedIs
<1>7. SubSeq(Opened, 1, i - 1) = [j \in 1..(i - 1) |-> Opened[j]]
  BY <1>3, <1>6
<1>8. \A j \in 1..(i - 1) : Balances(bank_saved'[j]) = Opened[j]
  BY <1>3, <1>4, <1>6
<1> QED BY <1>5, <1>7, <1>8

(* Every step of the bank is a step of the nested transactions: a message  *)
(* is some work, or, when it cannot be paid, a rollback of everything.     *)
LEMMA BankStepRefines ==
    ASSUME BankInv, BankInv', [BankNext]_bankVars
    PROVE  \/ Balances(bank)' \in Ledgers /\ Opened' = Opened
           \/ Balances(bank)' = Balances(bank) /\ Opened' = Append(Opened, Balances(bank))
           \/ \E i \in 1..Len(Opened) : /\ Balances(bank)' = Opened[i]
                                        /\ Opened' = SubSeq(Opened, 1, i - 1)
           \/ Opened # <<>> /\ Opened' = <<>> /\ Balances(bank)' = Balances(bank)
<1>1. Balances(bank)' \in Ledgers
  BY BalancesAre DEF BankInv, BankTypeOK
<1>2. PICK N \in Nat : N = Len(bank_scopes)
  BY DEF BankInv, JournalInv
<1>3. /\ Opened \in Seq(Ledgers) /\ Len(Opened) = N
      /\ \A i \in 1..N : Opened[i] = Balances(bank_saved[i])
  BY <1>2, OpenedIs
<1>4. ASSUME bank_saved' = <<>>
      PROVE  Opened' = <<>>
  BY <1>4 DEF Opened
<1>5. CASE bank_saved' = bank_saved
  BY <1>1, <1>5 DEF Opened
<1>6. CASE MessageStep
  <2>1. \/ bank_saved' = bank_saved
        \/ bank_saved' = <<>> /\ bank_saved # <<>> /\ Same(bank', bank_saved[1])
    BY <1>6, SettleKeeps DEF MessageStep
  <2>2. CASE bank_saved' = <<>> /\ bank_saved # <<>> /\ Same(bank', bank_saved[1])
    <3>1. bank_saved \in Seq(Banks) /\ Len(bank_saved) = N
      BY <1>2 DEF BankInv, BankTypeOK
    <3>2. 1 \in 1..N
      BY <2>2, <3>1
    <3>3. Balances(bank)' = Opened[1]
      BY <1>3, <2>2, <3>2, SameBalances DEF Balances
    <3>4. SubSeq(Opened, 1, 1 - 1) = <<>>
      BY <1>3
    <3>5. 1 \in 1..Len(Opened) /\ Opened' = SubSeq(Opened, 1, 1 - 1)
      BY <1>3, <1>4, <2>2, <3>2, <3>4
    <3> QED BY <3>3, <3>5
  <2> QED BY <1>5, <2>1, <2>2
<1>7. CASE BankPushScope
  BY <1>7, OpenedPushed DEF BankPushScope
<1>8. ASSUME NEW i \in 1..Len(bank_scopes), RevertBankTo(i)
      PROVE  \E j \in 1..Len(Opened) : /\ Balances(bank)' = Opened[j]
                                       /\ Opened' = SubSeq(Opened, 1, j - 1)
  <2>1. Same(bank', bank_saved[i])
    BY <1>8, RevertKeeps
  <2>2. Balances(bank)' = Opened[i]
    BY <1>2, <1>3, <2>1, SameBalances DEF Balances
  <2>3. Opened' = SubSeq(Opened, 1, i - 1)
    BY <1>8, OpenedReverted
  <2> QED BY <1>2, <1>3, <2>2, <2>3
<1>9. CASE BankCommit
  <2>1. bank' = bank /\ bank_saved' = <<>> /\ bank_scopes # <<>>
    BY <1>9 DEF BankCommit, BankOpen
  <2>2. N # 0
    BY <1>2, <2>1 DEF BankInv, JournalInv
  <2>3. Opened # <<>>
    BY <1>3, <2>2
  <2> QED BY <1>4, <2>1, <2>3
<1>10. CASE UNCHANGED bankVars
  BY <1>5, <1>10 DEF bankVars
<1>11. CASE Outside
  BY <1>5, <1>11 DEF Outside
<1> QED BY <1>6, <1>7, <1>8, <1>9, <1>10, <1>11, StepIs

(* The bank's part of the journal implements nested transactions: a scope  *)
(* that is reverted, or a transaction that a bank error ends, leaves every *)
(* account the balances it had when the scope was opened.                  *)
THEOREM BankRefinement == BankSpec => BankImplementsTransactions
<1>1. BankInv /\ BankInv' /\ [BankNext]_bankVars
        => [NestedBalances!Next]_(NestedBalances!tvars)
  <2> SUFFICES ASSUME BankInv, BankInv', [BankNext]_bankVars
               PROVE  NestedBalances!Next
    OBVIOUS
  <2>1. \/ Balances(bank)' \in Ledgers /\ Opened' = Opened
        \/ Balances(bank)' = Balances(bank) /\ Opened' = Append(Opened, Balances(bank))
        \/ \E i \in 1..Len(Opened) : /\ Balances(bank)' = Opened[i]
                                     /\ Opened' = SubSeq(Opened, 1, i - 1)
        \/ Opened # <<>> /\ Opened' = <<>> /\ Balances(bank)' = Balances(bank)
    BY BankStepRefines
  <2>2. CASE Balances(bank)' \in Ledgers /\ Opened' = Opened
    BY <2>2 DEF NestedBalances!Next, NestedBalances!Update, Ledgers, Opened
  <2>3. CASE Balances(bank)' = Balances(bank) /\ Opened' = Append(Opened, Balances(bank))
    BY <2>3 DEF NestedBalances!Next, NestedBalances!Begin, Opened
  <2>4. CASE \E i \in 1..Len(Opened) : /\ Balances(bank)' = Opened[i]
                                       /\ Opened' = SubSeq(Opened, 1, i - 1)
    BY <2>4 DEF NestedBalances!Next, NestedBalances!RollbackTo, Opened
  <2>5. CASE Opened # <<>> /\ Opened' = <<>> /\ Balances(bank)' = Balances(bank)
    BY <2>5 DEF NestedBalances!Next, NestedBalances!CommitAll, Opened
  <2> QED BY <2>1, <2>2, <2>3, <2>4, <2>5
<1>2. BankInit => NestedBalances!Init
  <2> SUFFICES ASSUME BankInit PROVE NestedBalances!Init
    OBVIOUS
  <2>1. Balances(bank) \in Ledgers
    BY Starts, BalancesAre DEF BankInv, BankTypeOK
  <2>2. bank_saved = <<>>
    BY DEF BankInit
  <2> QED BY <2>1, <2>2 DEF NestedBalances!Init, Ledgers
<1> QED BY Starts, NextKeeps, <1>1, <1>2, PTL
        DEF BankSpec, BankImplementsTransactions, NestedBalances!Spec
=============================================================================
