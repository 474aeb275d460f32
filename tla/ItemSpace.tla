------------------------------ MODULE ItemSpace ------------------------------
(***************************************************************************)
(* Items in the storage of a contract (crates/fadroma/storage/mod.rs,      *)
(* item_space.rs, single_item.rs): an item is canonized, serialized, and   *)
(* saved under a key that is put together from the namespace of its space  *)
(* and the segments of its own key.  A new release of the contract may     *)
(* declare other types for the items that the old one left behind.         *)
(***************************************************************************)
EXTENDS BinSerde, FiniteSets, TLC

LOCAL INSTANCE SequencesExt

CONSTANTS
    Spaces,      \* every space: its namespace, segments, keys, values, and its type per release
    CanonicalOf, \* the canonical form of every valid address, by the chain's API
    MaxStored    \* bound on the keys in the storage

VARIABLES
    store,       \* the contract's storage, from keys to bytes
    release,     \* which of the types of each space the contract has now
    loaded       \* what loading each item yields in this state

itemVars == <<store, release, loaded>>

-------------------------------------------------------------------------------
(***************************************************************************)
(* Addresses (core/addr.rs, fadroma-derive-canonize)                       *)
(***************************************************************************)
Converted(val) == [ok |-> TRUE, val |-> val]
NotConverted == [ok |-> FALSE, val |-> <<>>]

\* An empty address is its own canonical form, and the API is not asked.
CanonizeMaybeEmpty(addr) ==
    CASE addr = <<>> -> Converted(<<>>)
      [] addr # <<>> /\ addr \in DOMAIN CanonicalOf -> Converted(CanonicalOf[addr])
      [] OTHER -> NotConverted

HumanizeMaybeEmpty(canonical) ==
    LET humans == {a \in DOMAIN CanonicalOf : CanonicalOf[a] = canonical}
    IN CASE canonical = <<>> -> Converted(<<>>)
         [] canonical # <<>> /\ humans # {} -> Converted(CHOOSE a \in humans : TRUE)
         [] OTHER -> NotConverted

RECURSIVE Convert(_, _, _)

\* canonize_fields: every field in its own type, up to the first error.
ConvertFields(types, vals, human) ==
    LET conv == [i \in DOMAIN vals |-> Convert(types[i], vals[i], human)]
    IN IF \A i \in DOMAIN vals : conv[i].ok
       THEN Converted([i \in DOMAIN vals |-> conv[i].val])
       ELSE NotConverted

ConvertStruct(type, v, human) == ConvertFields(type.fields, v, human)

ConvertVariant(type, v, human) ==
    LET fields == ConvertFields(type.variants[v[1]], v[2], human)
    IN IF fields.ok THEN Converted(<<v[1], fields.val>>) ELSE NotConverted

\* Vec, slices and Option.
ConvertItems(type, v, human) == ConvertFields([i \in DOMAIN v |-> type.of], v, human)

\* impl_canonize_default: what holds no address stays as it is.
ConvertDefault(v) == Converted(v)

Convert(type, v, human) ==
    CASE type.kind = "addr" -> IF human THEN HumanizeMaybeEmpty(v) ELSE CanonizeMaybeEmpty(v)
      [] type.kind \in {"option", "vec"} -> ConvertItems(type, v, human)
      [] type.kind = "struct" -> ConvertStruct(type, v, human)
      [] type.kind = "enum" -> ConvertVariant(type, v, human)
      [] OTHER -> ConvertDefault(v)

Canonize(type, v) == Convert(type, v, FALSE)
Humanize(type, v) == Convert(type, v, TRUE)

-------------------------------------------------------------------------------
(***************************************************************************)
(* Keys                                                                    *)
(***************************************************************************)
\* A number fills all the bytes of its type, the most significant one first.
NumSegment(n, size) == [i \in 1..size |-> (n \div Base^(size - i)) % Base]

ShortSegment(segment, x) == IF segment.kind = "num" THEN Digits(Base, x) ELSE x

\* Strings, addresses and static keys are their bytes.
WriteSegment(segment, x) ==
    IF segment.kind = "num" THEN NumSegment(x, segment.size) ELSE x

WriteSegments(segments, key) ==
    FlattenSeq([i \in DOMAIN segments |-> WriteSegment(segments[i], key[i])])

\* ItemSpace::key
StorageKey(c) == Spaces[c[1]].ns \o WriteSegments(Spaces[c[1]].segments, c[2])

\* A single item is a space without segments: its key is the namespace.
SingleItem(ns, types, values) ==
    [ns |-> ns, segments |-> <<>>, keys |-> {<<>>}, types |-> types, values |-> values]

Cell == UNION {{<<s, k>> : k \in Spaces[s].keys} : s \in DOMAIN Spaces}

TypeIn(c, releases) == Spaces[c[1]].types[releases[c[1]]]
TypeOf(c) == TypeIn(c, release)

-------------------------------------------------------------------------------
\* What loading an item and humanizing it yields: nothing, the item, or an error.
Unreadable == <<"not", "readable">>

Load(c, bytes, releases) ==
    LET item == Deserialize(TypeIn(c, releases), bytes[StorageKey(c)])
    IN CASE StorageKey(c) \notin DOMAIN bytes -> <<>>
         [] OTHER -> IF item.err = "none" THEN <<item.val>> ELSE Unreadable

LoadHumanize(c, bytes, releases) ==
    LET item  == Load(c, bytes, releases)
        human == Humanize(TypeIn(c, releases), item[1])
    IN CASE item \in {<<>>, Unreadable} -> item
         [] OTHER -> IF human.ok THEN <<human.val>> ELSE Unreadable

LoadAll(bytes, releases) == [c \in Cell |-> LoadHumanize(c, bytes, releases)]

-------------------------------------------------------------------------------
ItemInit ==
    /\ store = <<>>
    /\ release = [s \in DOMAIN Spaces |-> 1]
    /\ loaded = [c \in Cell |-> <<>>]

\* An error of either conversion is returned before anything is written.
Save(c, item) ==
    LET bytes == Serialize(TypeOf(c), item)
    IN IF bytes.err = "none"
       THEN /\ StorageKey(c) \in DOMAIN store \/ Cardinality(DOMAIN store) < MaxStored
            /\ store' = (StorageKey(c) :> bytes.bytes) @@ store
       ELSE UNCHANGED store

CanonizeAndSave(c, v) ==
    LET canon == Canonize(TypeOf(c), v)
    IN /\ IF canon.ok THEN Save(c, canon.val) ELSE UNCHANGED store
       /\ UNCHANGED release
       /\ loaded' = LoadAll(store', release)

RemoveItem(c) ==
    /\ store' = [k \in DOMAIN store \ {StorageKey(c)} |-> store[k]]
    /\ UNCHANGED release
    /\ loaded' = LoadAll(store', release)

\* A contract is migrated to a release that declares the next types of a space.
Upgrade(s) ==
    /\ release[s] < Len(Spaces[s].types)
    /\ release' = [release EXCEPT ![s] = @ + 1]
    /\ UNCHANGED store
    /\ loaded' = LoadAll(store, release')

ItemNext ==
    \/ \E c \in Cell : \E v \in Spaces[c[1]].values[release[c[1]]] : CanonizeAndSave(c, v)
    \/ \E c \in Cell : RemoveItem(c)
    \/ \E s \in DOMAIN Spaces : Upgrade(s)

ItemSpec == ItemInit /\ [][ItemNext]_itemVars

-------------------------------------------------------------------------------
(***************************************************************************)
(* The enums that the derive macros can be applied to.  The number of      *)
(* variants is looked at, but too many of them are not refused; one less   *)
(* than a byte has values leaves the generated match without the arm for   *)
(* the remaining tag, and does not compile.                                *)
(***************************************************************************)
RECURSIVE Derivable(_)
Derivable(type) ==
    CASE type.kind = "enum" ->
           /\ Len(type.variants) # Base - 1
           /\ \A i \in DOMAIN type.variants :
                \A j \in DOMAIN type.variants[i] : Derivable(type.variants[i][j])
      [] type.kind = "struct" -> \A i \in DOMAIN type.fields : Derivable(type.fields[i])
      [] OTHER -> TRUE

ASSUME SpacesAssumption ==
    \A s \in DOMAIN Spaces : \A i \in DOMAIN Spaces[s].types : Derivable(Spaces[s].types[i])

-------------------------------------------------------------------------------
(***************************************************************************)
(* Properties                                                              *)
(***************************************************************************)
\* Nothing in a storage key tells where its namespace or one of its segments ends.  What a
\* contract has to see to: that no more than one segment of the keys of a space varies in
\* length, and that no namespace begins with another, unless their keys differ in length.
\* A segment that is a number is as long as its type.
SegmentLength(segment, x) == IF segment.kind = "num" THEN segment.size ELSE Len(x)

SegmentLengths(s, k) == [i \in DOMAIN k |-> SegmentLength(Spaces[s].segments[i], k[i])]

Varying(s) ==
    {i \in DOMAIN Spaces[s].segments :
        \E k, l \in Spaces[s].keys : SegmentLengths(s, k)[i] # SegmentLengths(s, l)[i]}

KeyLengths(s) == {FoldLeft(+, Len(Spaces[s].ns), SegmentLengths(s, k)) : k \in Spaces[s].keys}

Confusable(s, t) ==
    /\ IsPrefix(Spaces[s].ns, Spaces[t].ns) \/ IsPrefix(Spaces[t].ns, Spaces[s].ns)
    /\ KeyLengths(s) \cap KeyLengths(t) # {}

WellDeclared(s) == /\ Cardinality(Varying(s)) <= 1
                   /\ \A t \in DOMAIN Spaces \ {s} : ~Confusable(s, t)

ApartCell == {c \in Cell : WellDeclared(c[1])}

\* The storage behaves as independent cells, as far as its spaces are well declared: whatever
\* is saved, removed and upgraded in any order, an item of such a space is loaded as it was
\* saved last (through canonization, serialization and the storage key, and back), or not at
\* all, or with an error after an upgrade; and never is it touched by what is done to another
\* item, be it of the same space or another, or of a space that is not well declared.  Of
\* the items of such spaces nothing is promised: the library joins ("a", "bc") and ("ab", "c")
\* into one key, and saving the one overwrites the other.
Promised ==
    INSTANCE Cells WITH
        Cell <- ApartCell,
        ValueOf <- [c \in ApartCell |->
                       UNION {Spaces[c[1]].values[i] : i \in DOMAIN Spaces[c[1]].values}],
        content <- [c \in ApartCell |-> loaded[c]]

ImplementsCells == Promised!Spec

\* What an upgrade may change without harm: an unsigned integer becomes wider, an enum gains
\* variants at its end.
RECURSIVE Compatible(_, _)
Compatible(old, new) ==
    /\ old.kind = new.kind
    /\ CASE old.kind = "uint" -> old.size <= new.size
         [] old.kind = "enum" -> IsPrefix(old.variants, new.variants)
         [] old.kind = "struct" ->
              /\ Len(old.fields) = Len(new.fields)
              /\ \A i \in DOMAIN old.fields : Compatible(old.fields[i], new.fields[i])
         [] OTHER -> old = new

\* After such an upgrade every item is still loaded as before, although the bytes in the
\* storage were written for the old type.
CompatibleUpgradeKeepsItems ==
    [][\A c \in Cell :
        (/\ release'[c[1]] > release[c[1]]
         /\ Compatible(Spaces[c[1]].types[release[c[1]]],
                       Spaces[c[1]].types[release'[c[1]]]))
            => loaded'[c] = loaded[c]]_itemVars

\* The length of every sequence in the storage is written with as few groups as could hold
\* it, and with no more than MAX_SIZE.
LengthsAreShortest ==
    \A c \in Cell :
        (StorageKey(c) \in DOMAIN store /\ TypeOf(c).kind \in {"bytes", "vec"}) =>
            Shortest(store[StorageKey(c)], Len(loaded[c][1]))

\* What the contract saves it can load.
SavedCanBeLoaded ==
    \A c \in ApartCell : release[c[1]] = 1 => loaded[c] # Unreadable
===============================================================================
