----------------------------- MODULE MC_ItemSpace -----------------------------
(* Bounded instances of ItemSpace, with bytes of two bits: every kind of   *)
(* type, every kind of key, the spaces of an IterableStorage by owner, and *)
(* two that are badly declared: `pairs' has two segments of any length,    *)
(* and the namespace of `extended' begins with that of `pairs'.            *)
EXTENDS ItemSpace

CONSTANT WithAdapterField   \* whether a struct has an adapter among its fields

U8    == [kind |-> "u8"]
U16   == [kind |-> "u16"]
Bool  == [kind |-> "bool"]
Bytes == [kind |-> "bytes"]
Json  == [kind |-> "json"]
Array(n)     == [kind |-> "array", size |-> n]
Option(t)    == [kind |-> "option", of |-> t]
Vec(t)       == [kind |-> "vec", of |-> t]
Struct(ts)   == [kind |-> "struct", fields |-> ts]
Enum(ts)     == [kind |-> "enum", variants |-> ts]
Variant(i, fields) == <<i, fields>>

\* Two addresses, their canonical forms, and one that is not valid.
Alice == <<2, 1>>
Bob   == <<2>>
Mallory == <<1>>
MCCanonicalOf == (Alice :> <<0>>) @@ (Bob :> <<3>>)

Number2 == [kind |-> "num", size |-> 2]
String  == [kind |-> "str"]
Owner   == [kind |-> "canonical"]
Owners  == {<<0>>, <<3>>}
IndexName   == <<3, 3, 1>>   \* b"index"

\* A contract's status, an account, its history, and the like.
StatusV1 == Enum(<< <<>>, <<Addr>> >>)
StatusV2 == Enum(<< <<>>, <<Addr>>, <<Bool>>, <<Uint(1), Addr>> >>)
Statuses == {Variant(1, <<>>), Variant(2, <<Alice>>), Variant(2, <<Mallory>>)}

MCSpaces ==
    [ status  |-> SingleItem(<<1, 0>>, <<StatusV1, StatusV2>>,
                    <<Statuses, Statuses \cup {Variant(3, <<TRUE>>), Variant(4, <<3, Bob>>)}>>),
      balance |-> [ns |-> <<1, 1>>, segments |-> <<Owner>>, keys |-> {<<o>> : o \in Owners},
                   types |-> <<Uint(2), Uint(3)>>, values |-> <<{0, 1, 4, 15}, {0, 15, 63}>>],
      account |-> [ns |-> <<1, 2>>, segments |-> <<Owner, Owner>>, keys |-> {<<<<0>>, <<3>>>>},
                   types |-> <<Struct(<<Option(Addr), U16>>), Struct(<<Option(Addr), U16, Bool>>)>>,
                   values |-> <<{<<<<>>, 7>>, <<<<Bob>>, 12>>, << << <<>> >>, 1>>},
                                {<<<<Alice>>, 0, FALSE>>}>>],
      named   |-> [ns |-> <<2, 1>>, segments |-> <<String, Number2>>,
                   keys |-> {<<<<1>>, 2>>, <<<<1, 0>>, 2>>, <<<<1, 2>>, 0>>},
                   types |-> <<Vec(Coin(1))>>,
                   values |-> <<{<<>>, << << <<2>>, 3>>, << <<>>, 0>> >>}>>],
      names   |-> [ns |-> <<2, 2>>, segments |-> <<String>>, keys |-> {<<<<>>>>, <<<<1>>>>},
                   types |-> <<Bytes>>,
                   values |-> <<{<<>>, <<1>>, <<0, 3>>, <<1, 2, 1>>, <<0, 0, 0, 0>>}>>],
      misc    |-> SingleItem(<<2, 3>>, <<Struct(<<Array(2), Bool, Vec(Addr), Empty, U8>>)>>,
                    <<{<< <<0, 1>>, TRUE, <<Alice, Bob>>, <<>>, 2>>,
                       << <<3, 3>>, FALSE, <<>>, <<>>, 0>>}>>),
      text    |-> SingleItem(<<3, 0>>,
                    <<IF WithAdapterField THEN Struct(<<U8, Json>>) ELSE Json>>,
                    <<IF WithAdapterField THEN {<<1, <<1, 2>>>>} ELSE {<<>>, <<1, 2>>}>>),
      items   |-> [ns |-> <<3, 1>>, segments |-> <<Owner, Number2>>,
                   keys |-> {<<o, i>> : o \in Owners, i \in 0..1},
                   types |-> <<U8>>, values |-> <<{2}>>],
      length  |-> [ns |-> <<3, 1>>, segments |-> <<Owner, [kind |-> "static"]>>,
                   keys |-> {<<o, IndexName>> : o \in Owners},
                   types |-> <<Uint(2)>>, values |-> <<{1, 2}>>],
      pairs   |-> [ns |-> <<0>>, segments |-> <<String, String>>,
                   keys |-> {<<<<1>>, <<2, 3>>>>, <<<<1, 2>>, <<3>>>>, <<<<1>>, <<2>>>>},
                   types |-> <<Uint(2)>>, values |-> <<{1, 5}>>],
      extended |-> SingleItem(<<0, 1, 2>>, <<Bool>>, <<{TRUE}>>) ]

\* Items that are not the same and have the same key are among those of the run.
ASSUME CollisionAssumption ==
    /\ {s \in DOMAIN MCSpaces : ~WellDeclared(s)} = {"pairs", "extended"}
    /\ \E c, d \in Cell : c # d /\ c[1] = d[1] /\ StorageKey(c) = StorageKey(d)
    /\ \E c, d \in Cell : c[1] # d[1] /\ StorageKey(c) = StorageKey(d)
===============================================================================
