------------------------------- MODULE Paging -------------------------------
(***************************************************************************)
(* The lists that a SNIP-20 token answers page by page: the histories      *)
(* (pages in scrt/snip20/contract/transaction_history.rs), newest first    *)
(* and without decoys if asked, and the allowances (Account::allowances in *)
(* state.rs), oldest first.                                                *)
(*                                                                         *)
(* Every page is a query of its own.  A reader asks for one page after     *)
(* another until it has come to the total that the last answer told, and   *)
(* the list may grow in between.  Entries are known by their positions:    *)
(* no list ever loses one.                                                 *)
(***************************************************************************)
EXTENDS Naturals, SequencesExt

CONSTANTS NoReader,
          WordSize,    \* 2^32: page and page_size are u32, and so is their product
          PageSize,    \* sizes that a reader may choose
          MaxLength    \* bound: entries of the list

\* A reader asks for something, and no list has as many entries as a word has
\* values.
ASSUME PagingAssumption == /\ PageSize \subseteq Nat \ {0}
                           /\ {MaxLength, WordSize} \subseteq Nat
                           /\ MaxLength < WordSize

VARIABLES list,     \* for every entry of a stored list, if it is a decoy
          reader    \* the one who walks through it, or NoReader

listVars == <<list, reader>>

ListInit == list = <<>> /\ reader = NoReader

\* A message pushes an entry.
Push(decoy) == /\ Len(list) < MaxLength
               /\ list' = Append(list, decoy)
               /\ UNCHANGED reader

\* What the iterator gives out: positions from either end.
Newest == [i \in DOMAIN list |-> Len(list) + 1 - i]
Oldest == [i \in DOMAIN list |-> i]

SkippedNarrow(page, size) == (page * size) % (WordSize \div 4)

SkippedPages(page, size) == page % WordSize

Skipped(page, size) == (page * size) % WordSize

Taken(order, page, size) ==
    LET first == Skipped(page, size) + 1
        end   == Skipped(page, size) + size
    IN  SubSeq(order, first, IF end > Len(order) THEN Len(order) ELSE end)

KeepReal(told, i) == IF list[i] THEN told ELSE Append(told, i)

WithoutDecoys(taken) == FoldLeft(KeepReal, <<>>, taken)

\* pages: a page is cut first and filtered then.
HistoryPage(page, size, filter) ==
    LET taken == Taken(Newest, page, size)
    IN  IF filter THEN WithoutDecoys(taken) ELSE taken

\* Account::allowances and received_allowances, where there are no decoys.
AllowancesPage(page, size) == Taken(Oldest, page, size)
-----------------------------------------------------------------------------
\* external: the client of the token.
Start(size, newest, filter) ==
    /\ reader = NoReader
    /\ reader' = [size |-> size, newest |-> newest, filter |-> filter,
                  page |-> 0, due |-> Len(list), seen |-> <<>>, done |-> FALSE]
    /\ UNCHANGED list

Read ==
    /\ reader # NoReader
    /\ ~reader.done
    /\ LET answer == IF reader.newest
                     THEN HistoryPage(reader.page, reader.size, reader.filter)
                     ELSE AllowancesPage(reader.page, reader.size)
       IN  reader' = [reader EXCEPT !.seen = @ \o answer,
                                    !.page = @ + 1,
                                    !.done = (reader.page + 1) * reader.size >= Len(list)]
    /\ UNCHANGED list

Leave == /\ reader # NoReader
         /\ reader' = NoReader
         /\ UNCHANGED list

ListNext ==
    \/ \E decoy \in BOOLEAN : Push(decoy)
    \/ \E size \in PageSize, newest, filter \in BOOLEAN : Start(size, newest, filter)
    \/ Read
    \/ Leave

ListSpec == ListInit /\ [][ListNext]_listVars
-----------------------------------------------------------------------------
Wanted(i) == ~(reader.newest /\ reader.filter /\ list[i])

Times(i) == Cardinality({k \in DOMAIN reader.seen : reader.seen[k] = i})

(* A reader that has come to the end has seen every entry that was there   *)
(* when it began, decoys apart if it wanted none, however much was added   *)
(* while it was reading.                                                   *)
WalkMissesNothing ==
    reader # NoReader /\ reader.done =>
        \A i \in 1..reader.due : Wanted(i) => Times(i) > 0

(* Nothing is told twice but what newcomers pushed to a later page, and    *)
(* from the oldest on nothing is; no decoy is told that was not wanted.    *)
WalkRepeatsOnlyWhatMoved ==
    reader # NoReader =>
        /\ \A k \in DOMAIN reader.seen : Wanted(reader.seen[k])
        /\ Len(reader.seen) - Cardinality({reader.seen[k] : k \in DOMAIN reader.seen})
           <= IF reader.newest THEN Len(list) - reader.due ELSE 0
=============================================================================
