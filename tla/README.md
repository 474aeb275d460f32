# Verification of Fadroma

TLA+ models of Fadroma, the TLC runs that check them on small instances, and TLAPS proofs of the
properties that matter most. The models are written from the source, at the lines that
`PROJECT.json` lists under `map`; where code and documentation disagree, the models follow the code,
and a run shows the disagreement.

## 1. The system

Fadroma is a framework for smart contracts on CosmWasm chains, mostly Secret Network. It has a Rust
half, with which contracts are written and tested, and a TypeScript half, with which they are built,
uploaded, deployed and called.

| component | state | operations | interacts with |
|---|---|---|---|
| Ensemble: instances and journal (`fadroma-ensemble/src/state.rs`, `storage.rs`) | contract instances, each with a key-value store; a stack of scopes of undo records | push a scope, create an instance, set or remove a key, revert one or all scopes, commit | every message and reply runs in a scope; the storage a contract writes to records for it |
| Ensemble: bank (`bank.rs`, funds in `state.rs`) | balances of accounts by denomination | add, remove, transfer, several coins at once | its changes are records of the same journal |
| Ensemble: execution (`execution_state.rs`, `execute_messages` in `ensemble.rs`) | stack of levels of sub-messages, the next message or reply | start, process a result, find the next, reply, squash, finalize | calls contracts, bank and staking; tells State how many scopes to revert |
| Ensemble: responses and events (`response.rs`, `event.rs`, `error.rs`) | a tree of responses, the events of each message | add a response, squash, iterate | built by the execution, read by tests and by replies |
| Ensemble: staking (`staking.rs`, parts of `ensemble.rs`) | delegations and validators, *outside* of the journal | delegate, undelegate, redelegate, withdraw, add rewards, forward the waits | takes and gives funds through the bank |
| Ensemble: block, environment, querier | block height and time | advance, freeze; answer queries | read by contracts |
| Storage: `IterableStorage` and `Iter` (`fadroma/storage/iterable.rs`) | items by index, a stored length, a cached one | push, pop, set, update, swap_remove; walk from both ends | on a contract's storage |
| Storage: `Map`, `InsertOnlyMap` (`storage/map.rs`) | entries in an `IterableStorage`, an index for every key | insert, get_or_insert, remove, get_by_index | on the former |
| Storage: keys, namespaces, items (`storage/mod.rs`, `single_item.rs`, `item_space.rs`) | the bytes in a contract's storage | concatenate the segments of a key; save, load, remove | under all storage; on the two below |
| Serialization (`bin_serde`, `fadroma-derive-serde`) and canonize (`core`, `fadroma-derive-canonize`) | none | encode, decode; canonize, humanize | under all storage |
| Admin (`admin/mod.rs`) and killswitch (`killswitch/mod.rs`) | admin, pending admin, status | change the admin at once or in two steps, set the status | guard contracts |
| SNIP-20 (`scrt/snip20`) | balances, supply, allowances with two indices, histories, minters, denominations, receivers | deposit, redeem, transfer, send, burn, mint, allowances, batches, administration; pages of lists | admin, killswitch, `IterableStorage`, the bank of the chain, contracts that receive |
| Viewing keys, permits (`scrt/vk`, `scrt/permit`) | a key per account, revoked permits | set, create, revoke, check | authenticate the token's queries |
| Macros (`fadroma-dsl`, `fadroma-proc-auth`), crypto | none | generate dispatch code; wrap libraries | compile time |
| Agent API (`src/src`) | a connection's chain, identity and fees; a batch's messages | query, send, upload, instantiate, execute | chain clients |
| Deploy (`packages/deploy`) | units with source, code, code id, address | build, upload, deploy | Agent API, compiler, stores on disk |
| Devnet (`packages/devnet`, `packages/oci`) | container, receipt and run file on disk, running flag, memoized promises | create, start, pause, remove, exit handler, the script in the container | Docker, other processes of the same project |
| Stub (`packages/stub`) | balances, uploads, instances in memory | as a chain | Agent API |
| Chain clients, compiler, project creation, command line | none worth the name | forward, generate, print | external services |

### What is hard here, and what makes each part correct

* **The journal** rebuilds the past from records. Correct: after any nesting of scopes, creations and
  writes, a revert gives back exactly what was there. Hard: keys written in several scopes, contracts
  created and then reverted, the order of replay.
* **The bank** undoes through operations that may fail and are unwrapped. Correct: no revert panics, no
  failure half way makes or loses coins.
* **Execution** keeps no count of the scopes that a sub-message opened; it recovers the count from a
  tree of responses that are squashed, dropped or never pushed. Correct: a caught error undoes the
  sub-message that failed, all it caused, and nothing else; senders, reply targets, data and events
  belong to the right message; the responses iterate in the order of execution.
* **Staking** adjusts three amounts of a delegation by different rules, outside the journal. Correct:
  tokens are conserved, and a redelegation locks.
* **Storage** keeps redundant structures (a length and its cache, entries and indices) that swapping
  removals change together. Correct: they agree, and behave as a vector, an iterator, a map. Below
  that, an item must come back from its bytes as it went in, never from another item's, and after an
  upgrade of the contract as it was or with an error.
* **Admin and killswitch** leave nominations behind. Correct: nobody becomes admin unless named by
  one; migration is for ever.
* **SNIP-20** keeps totals back in batches, lets allowances expire lazily, saturates, writes
  every transfer into several histories with decoys, and answers lists page by page while they grow.
  Correct: supply and balances agree, the reserve covers what was not minted, expired allowances stay
  gone, histories explain balances, pages miss nothing, receivers are told once.
* **Keys and permits** are checked against what was stored last. Correct: a query is answered exactly
  when an account it is about has allowed it, and has not taken that back.
* **Devnet** tests and then acts across awaits, in processes that may end, beside a script in a
  container that goes on without them. Correct: another process finds the container; a promise that
  resolves is true; `started` settles; the devnet stops when it should.

The hazards, each at its line and with the properties that answer to it, are in `PROJECT.json`.

## 2. The models

```
Transactions   <--implements--  EnsembleState, EnsembleBank                <- JournalProofs (both)
                                SubMessages  <--EXTENDS--  Responses       <- SubMessagesProofs
                                Staking                                    <- StakingProofs
Vector         <--implements--  IterableStorage  <--EXTENDS--  StorageIter --implements--> DoubleEnded
KeyValueMap    <--implements--  StorageMap (INSTANCE IterableStorage)      <- StorageProofs (these three, and Primitives)
Cells          <--implements--  ItemSpace (EXTENDS BinSerde <--EXTENDS--  Primitives)
Allowances     <--implements--  Snip20 (EXTENDS Killswitch)                <- Snip20Proofs
ReadAccess     <--implements--  TokenQueries
                                Paging, TokenSends                         <- TokenAnswersProofs (all three)
                                Devnet                                     <- DevnetProofs
```

`Sums`, which all of these but DevnetProofs use, has the lemmas about sums over finite sets, folds over
sequences, and induction by steps.

The modules on the left say what a component promises and nothing of how. An `MC_` module gives TLC
its instances: `MC_Ensemble`, `MC_Storage` and `MC_Token` each extend the models of one subsystem, and `part`, chosen in the initial state, names the one that a behaviour exercises; models that share
no state need not be interleaved. A message that the code refuses is reverted as a whole and is no step.
Definitions that no other one uses (such as `StaleTransfer` or `AnyoneNominates`) are the changed
forms of the definitions beside them that `PROJECT.json` lists under `mutants`: with each of them a
property must be found violated.

### The ensemble

**Transactions** - a world and the worlds at the opening of every open scope; rolling back to one
restores it, a commit drops them all.

**EnsembleState** - `instances` and `scopes` are the fields of `State`. `PushScope`,
`CreateContractInstance`, `StorageSet`, `StorageRemove`, `RevertScopes` and `Commit` are its methods and
those of `TestStorage`. `Reverted` says what the loop of `revert_scope` leaves behind: inside a scope
the LAST record of a key decides, as the records are replayed forwards; among scopes the oldest,
as scopes are popped newest first. The history `saved` is what the world was at each opening. A
scope holds what one contract wrote (`RunsIn`), as a scope is opened for each message and reply.

**EnsembleBank** - the bank records of the same journal, `TransferFunds` with its temporary scope, and the
calls a test makes between transactions. An account may be known and hold nothing. What a call of the bank gives is
a record with `ok` and the balances it leaves, since an error keeps what was done; `UndoScopes` carries `ok` along, and
not `ok` is where the code unwraps an error and panics. A bank error inside a transaction fails it all (`Settle`).

**SubMessages** - `states`, `next` are the fields of `ExecutionState`; `FindNext`, `FindReply`, `SquashLatest`
its methods; `RunSucceeds` and `RunFails` a turn of `execute_messages`: a scope is opened, a contract
runs, `process_result` finds what is next and how many scopes to revert. What the contract answers is
arbitrary. `RunAborts` is an error that is not a contract's. Of the journal only the open scopes are
kept, each named by the number of its run; a response is the run it is of and the responses below it
(`AddResponses` builds the tree of `response.rs`), and the events of a run are one event with its number. The history
`level_began` holds, for every message under way, the scopes at its start and the data that its reply is due (`Returns`): what
the level carried when it began, until the message's contract, or a reply to the message, returns some. The bank and staking return
no data and `process_result` then leaves that of the level alone (`execution_state.rs:70-78`), so the reply to a message to one of
them is handed what an earlier sibling left there. The code and the tests say nothing of this case, and the model does as the code
does; that it occurs in the run was checked. The loop of
`find_next` is a recursive function of the number of its turns (`Turn` is its body), three for every level at most; that it
is over by then is proved. **Responses** walks the tree as the iterator of `response.rs` does: `IterNext` is one call of
`next`, which gives out the first response that is left and puts those it has sent in front of the others, and `Iter` the
runs whose responses have been given out when the calls are as many as the runs, and so no fewer than the responses.

**Staking** - `delegations` and `funds`; a transaction is `Begin`, messages, and `Commit` or `Revert`; `Revert`
restores the funds, which EnsembleBank shows the journal to do, and leaves the delegations.

### Storage

**IterableStorage, StorageIter** - `slots` and `stored_len` are in the contract's storage, `cached` in the
handle; `Open` makes a new handle. `SwapRemove` pops and moves in one step as the code does. The iterator
takes the length once; its positions saturate at `Top`, the model's `u64::MAX`.

**StorageMap** - an instance of IterableStorage whose items are entries with their key (`entries`,
`entries_len`, `entries_cached`), and `index`. `Removable` tells `Map` from `InsertOnlyMap`.

**Primitives** - the stream that is read, `Digits` and what they are `Worth`, integers in as few bytes as they need, lengths
in groups with a continuation bit, and strings of bytes. Both loops that write (`impl_uint`, `ByteLen::encode`) give the digits
of a number without the zeros at their end, the one of bytes, the other of 7 bits; both that read add digits up. **BinSerde** -
on top of them what every type writes and what is read back: options, vectors, structs and enums as the derive macros
generate them, and the JSON adapter. Bytes are to the base `Base`, so that TLC meets the boundaries of a byte with
numbers below 64.

**ItemSpace** - `store` maps keys to bytes; `Save`, `Remove` and loading go through canonization, BinSerde
and `StorageKey`, the concatenation of the namespace and the segments. `release` is which of its types the contract
has for a space: an upgrade changes it and leaves the bytes. `loaded` is what loading every item yields. The
spaces of the run are an admin-like status, balances, accounts, tuples, single items and the two spaces of an
`IterableStorage`, with keys of fixed, typed and composite kinds; and two whose keys collide. For the segments of a key are
joined without separators or lengths (`storage/mod.rs:209`): with two segments of varying length ("a", "bc") and ("ab", "c") are
one key, and so may be keys of two spaces of which one's namespace begins with the other's. Of such spaces nothing is claimed. A
space is `WellDeclared` when at most one of its segments varies in length and no other space has a namespace that its own begins
with, or the reverse, and keys of one length with it; canonical addresses have one length, except the empty one, which counts as
varying if it is among the keys.

**Cells** - a cell per item, independent of the others; an upgrade may make a cell unreadable, never wrong. ItemSpace implements
it for the items of well declared spaces (`Promised`), whatever is done to the others meanwhile.

### The token

**Killswitch** - the three stores, and `chosen`, the history of whom admins have named. `Accept` leaves the
nomination in place, as the code does.

**Snip20** - one action for every message that moves tokens, allowances or privileges. A message is one step; a batch
is `BeginBatch`, an action for each of its entries, and `EndBatch` or `FailBatch`, so that it can stop
half way; nothing else happens meanwhile, as a transaction is atomic. `batch` holds the supply that
`batch_burn_from` and `batch_mint` carry in a local variable, and what a failure goes back to. `uncredited` is a
history of what deposits lose when the supply is at its limit. The callback of a `Send` is a later message,
so a Send is a Transfer here; TokenSends has the callbacks.

**Allowances** - an allowance is gone at the moment it expires; what is spent was there. `LiveAllowances` maps the
token to it: an expired entry counts as none, and during a batch what counts is what a
failure would restore.

**TokenQueries** - viewing keys (`SetViewingKey`, `CreateViewingKey`, `Authenticate`), permits (`Sign` by a wallet
outside of the chain, `RevokePermit`, `Validate`) and the queries that ask for one of them (`KeyQuery`,
`PermitQuery`). A query is its kind, the accounts it is about, and whether it is answered. Whatever can be
presented is: any parameters under any signature ever made. Hashes and signatures are injective.

**ReadAccess** - a query is answered if and only if some account it is about has allowed it, by the key it chose last or
by a permit that it has not withdrawn by name.

**Paging** - a list that only grows, and a reader that asks for page after page, from the newest or the
oldest entry, filtering decoys or not. `Skipped` is the product of page and page size in `WordSize`, 2^32 in
the code. A page is cut first and filtered then.

**TokenSends** - registered code hashes, single and batched sends, and the callbacks that the chain runs when a message is over.
It runs them in order and depth first: a contract that was called by one may send, in batches too, and register before the next is
run (`MayCome`), and the callbacks of that go in front of those that wait (`Respond`). A failure reverts the transaction. The
history `expected` is what every contract should have been told of every message. `SendsAreTold` keeps the messages apart, and
the order it asks for is that of the actions of one message: what a receiver sends is told before the callbacks of the batch that
still wait, though it was sent after them, and nothing in the code says otherwise.

### Devnet

**Devnet** - `script` is the process with its `DevnetContainer` object, `promise` where each of the four memoized
promises waits, `api` the containers that `start()`, `kill()` and `remove()` hold on to while the process may come to know another id, `engine`
the containers, `receipt` and `run_file` the two files through which processes and container know of each other. Every await is a
step, so that promises interleave there: creation looks for the container (`CheckCreated`), for a port (`FindPort`), for the
container once more (`CheckAgain`), and makes it (`Create`); start does the same from its own check on (`CheckStarted`,
`CheckRecreated`, `Recreate`); pausing asks three times (`CheckPaused`, `InspectPaused`, `InspectAgain`) before it kills (`Kill`). A
request is made and answered in one step, except the one that makes the chain's container, after which the process may die without
the answer; the wait for a container to stop or to go is part of the request that stops or removes it. `Exit` ends the process through its handler, `Signal` runs the handler and goes
on, `Crash` runs nothing, and `Construct` begins the next process, with the id in the receipt or without one.
`InContainer` is `devnet.init.mjs`: genesis, the node, and the watch on the run file. The histories are `adrift` (containers
whose id no receipt could get: those of a process that died before the engine's answer, and those that `start()` makes),
`raced` (was a promise asked for while another one was open) and `ended`.

## 3. The runs

Deadlock is checked, except where noted. Symmetry is used where the elements are interchangeable (accounts,
addresses, keys, values, denominations, validators), and only in runs without liveness properties.

| run | part | bounds | what it shows |
|---|---|---|---|
| `ensemble` (475,314 distinct states) | instances | 2 addresses, 2 keys, 1 value, 3 scopes, a key once per scope | every revert is exact; the journal implements Transactions |
| | bank | 2 accounts, 2 denominations, amounts 1 and 2, messages of up to 2 coins, 2 scopes, supply up to 2 | reverts succeed and are exact, supply is journalled; the bank implements Transactions |
| | messages | 1 contract and the bank, every `reply_on`, 1 datum, 2 messages per response, 3 levels, 4 runs that ask for more | caught errors are undone exactly, responses iterate in order of execution, senders, targets, order, data and events of replies (to a message to the bank: what the level carried) |
| | staking | 1 delegator, 2 validators, 2 tokens, messages of 1 or 2, rewards up to 1 | what may be redelegated is bounded and locked, messages conserve tokens, and through failures and forwarding none is lost (some may be made) |
| `storage` (18,792) | items | 11 spaces (2 of them badly declared), bytes of 2 bits, lengths of up to 2 groups, 2 stored items | items of well declared spaces are independent cells through saves, removals and upgrades; compatible upgrades keep them; lengths are shortest |
| | map | 4 keys, 2 values, 4 entries | entries and indices agree; a map |
| | list | 3 items, 4 slots, positions to 5 | the slots are dense; a vector, and a double-ended iterator over it that loads what is there |
| `token` (1,760,215) | ledger | 2 accounts, 2 denominations, numbers to 2, amount 1, one expiration, 1 decoy, 3 messages | supply, reserve, allowances, histories, admin, status |
| | queries | 2 accounts, 1 key and 1 entropy, 3 permits, 3 changes, 2 blocks | queries are answered exactly when allowed |
| | lists | lists of 5, pages of 1 to 3, products modulo 16 | a walk over a growing list misses nothing and repeats only what moved |
| | sends | 2 contracts, 2 code hashes, 3 sends per transaction | receivers are told what they should be, once, the sends of one message in order, whatever receivers send in between |
| `devnet` (308,740) | | 3 processes, 2 containers each | the receipt names the container; promises hold; `started` settles; a devnet that was ready stops |

Why these are enough to meet the hard cases:

* *instances*: a contract can be created in one scope, written in the second and third, and all three be
  reverted in any number. One value and `Missing` are two states of a key; more values
  would only be renamings. Two contracts show that records of one do not touch the other.
* *bank*: with a supply of two and coins of two denominations the second coin of a transfer may be
  the one that fails, and a transfer may take all, or more than all, there is, or go to its sender.
* *messages*: three levels and four runs that answer with messages are the smallest in which an
  error passes a level that does not catch it, with siblings before and after, bank messages among them.
  `CHECK_DEADLOCK FALSE`, because a panic of `finalize` ends everything.
* *items*: with bytes of two bits a length of 2 needs a second group and one of 4 does not fit; an
  unsigned integer has one to three significant bytes; keys of unequal length share prefixes; the
  collection's items and its length lie in one namespace. `CollisionAssumption` of MC_ItemSpace, which TLC evaluates, says that
  different items of one space, and of two, do have the same key; if they were not excepted, `ImplementsCells` would be violated.
* *map*: four keys let a removal hit the first, a middle, the last but one, and the last entry.
* *list*: `Top` is one above the greatest index, so that `nth` and `nth_back` overflow.
* *ledger*: numbers to 2 with amounts of 1 reach saturation within the three messages that follow an
  initial balance of 0 or 1; the histories of two accounts, with one decoy, let owner,
  spender, recipient and decoy coincide in every way two accounts allow. A batch takes one of the
  three, so it may hold two actions.
* *queries*: three changes are enough to set a key and replace it, to sign, revoke and sign again, and to sign two
  permits under one name.
* *sends*: three sends are a batch of two and what the first receiver sends, to itself or to the other, before the second
  callback; or a batch within a batch. Registrations are not counted.
* *lists*: no product of a walk reaches 16, as none reaches 2^32 in a history that fits a chain; entries are
  pushed between any two pages.
* `devnet`: a process that crashes, one that inherits what it left, and one that inherits that. `CHECK_DEADLOCK FALSE`,
  because the last process may have ended.

### Fairness

Only Devnet has it; all the other code is driven by calls, and none of it promises to act by itself. `Fairness` is weak
fairness of `Creating`, `Starting`, `Pausing` and `Removing`, because the event loop of a process that goes on
continues each promise when the engine has answered, and of `InContainer(i)` for every container, because the script in it runs
by itself. Nothing is assumed to make a script ask for anything, to end it, or to keep it from crashing. Under
it:

* `StartSettles`: `started`, once it is open, settles, unless the process ends or the container has stopped before it
  was ready. The exception is real: `waitStream` (`oci-impl.ts:68`) has no handler for the end of the stream, and a
  container whose genesis was interrupted exits before the node says anything.
* `ReadyStopsOnExit`: a process that ends through its handler after `started` stops its devnet, by the run file that
  the script in the container watches, unless another process takes the devnet over.

### Where code and documentation disagree

Eight runs expect a violation.

* `journal_rewrite` (`FailureLeavesNoTrace`): if a run writes a key twice, the records of the scope are
  undone in the order they were made, and a failed transaction leaves the first of the two values behind
  (`state.rs:134`, against `README.md:66` of the crate).
* `submessages_deep` (`CaughtErrorIsUndone`): with a fourth level, an error unwinds a level into which another
  was squashed; one scope is counted for what stands for several, and too few are reverted
  (`execution_state.rs:181`). With three levels, in run `ensemble`, the property holds.
* `submessages_finalize` (`FinalizeHolds`): a message whose outcome its `reply_on` does not ask for leaves nothing to
  run next while levels remain, and the assertion of `finalize` fails (`execution_state.rs:214` and `:132`).
* `staking_failure` (`FailureConservesTokens`): a failed transaction gives the funds back and keeps the
  delegation (`ensemble.rs:700`).
* `staking_forward` (`ForwardConservesTokens`): forwarding the waits pays unbondings and leaves them to be
  paid again (`staking.rs:88`).
* `encoding_adapter` (`SavedCanBeLoaded`): `SerdeAdapter` reads as many bytes as the whole stream has, so
  a struct with a field before an adapter is saved and never loaded again (`bin_serde/adapter.rs:35`). In run `storage` adapters
  stand alone.
* `token_sends` (`SendsAreTold`): `batch_send` and `batch_send_from` drop the code hash of their actions, and receivers
  that have not registered are not told (`snip20.rs:1052`). In run `token` the actions carry none.
* `devnet_exit` (`StopsOnExit`): a process that ends during genesis deletes a run file which is not there yet; the
  script writes it afterwards, and the devnet runs on (`devnet-impl.ts:409`).

The passing runs beside them hold for what the violation does not touch. The theorems about the journal have the
condition of the run (a key once per scope) as an assumption.

More disagreements were met that have no run of their own:

* A transfer that fails leaves accounts it named (`bank.rs:69`), where balances of unknown accounts are
  documented as `None`.
* The events of a message that ran, and was undone because its sub-messages failed, stay among those that the reply
  to its caller is given (`execution_state.rs:203`); `ReplyCarriesItsResult` asks only that none that counts is missing.
* A nomination is never cleared, and can be accepted again after the role has moved on (`admin/mod.rs:109`).
* A deposit that the saturated supply does not take is recorded in full (`snip20.rs:379`), which
  `HistoryExplainsBalance` accounts for by `uncredited`.
* A denomination listed twice at instantiation stays supported when it is removed (`snip20.rs:975`), which a set of
  denominations does not show.
* The `Owner` permission is documented as good for all (`client/interface.rs:472`), and `with_permit`
  (`snip20.rs:1508-1631`) accepts it for the lists of allowances only.
* `symbol_validation.rs:70` accepts a special character that is allowed only if some class of letters or digits is allowed
  as well, because the test stands inside the iteration over the classes.
* The derive macro of BinSerde makes an error for an enum with too many variants and drops it
  (`fadroma-derive-serde/src/lib.rs:86-92`); `Tag` cuts the number to a byte, as the generated code does.
* `get_impl` of the maps takes an error of loading for the absence of an entry (`map.rs:263`).
* `removeDevnetContainer` tests `isRunning` without calling it (`devnet-impl.ts:274`), so that it always awaits `paused`, which
  may have settled before the devnet was started: pausing, starting and removing in this order is rejected.
  A removal that races the creation can resolve while the container comes to exist, which is why `PromisesHold` speaks of scripts
  that await one promise after another. With `remove` as the wish on exit neither container nor state is ever
  removed. `start()` of a container that is gone makes another one and saves no receipt for it.

## 4. The proofs

TLAPS checks these for every value of the constants that meets the assumptions in the modules.

**JournalProofs**, the instances - `TypeCorrect`, `RollbackExact`, `NoTrace`, and `Refinement`
(Spec => ImplementsTransactions), the last three assuming `WritesPerKey = 1`. With types, `RollbackIsExact` is
inductive, as it speaks of every open scope and not of the last one only. One more record is shown to leave what every
revert gives: a write, because no earlier record of that scope has the key (the assumption, and the only place where it
is needed); a creation, because the address was free; a new scope, because it holds nothing. Reverting part of the
stack gives `saved` at that place, because reverting in two goes is reverting in one (`RevertComposes`).

**JournalProofs**, the bank - for any finite set of accounts, any denominations and amounts, without a condition on what
is written. `RollbackOfBankIsExact` (`BankRollbackIsExact`: no revert panics, and each gives back every balance),
`SupplyAlwaysJournalled` (`SupplyIsJournalled`) and `BankRefinement` (BankSpec => BankImplementsTransactions). The
invariant (`BankInv`) is about each scope by itself: `Follows(scope, before, after)` says that its records account for
every balance and for the supply, that they undo to `before`, and that no account loses a denomination. Records are
undone in the order in which they were made, which is wrong in general: a refund may be taken before what it is paid
from is given back. It is right here because a scope holds the coins of one message, which are all of one kind between the
same two accounts, so that each intermediate balance lies between the ones at both ends. A message that fails half way is
the same with the coins that came through.

**StakingProofs** - for any delegators, finite sets of validators, and amounts.

* `RedelegationBounded`: what may be redelegated never exceeds the delegation, so the unsigned subtractions do not underflow.
  The invariant is the types of the delegations and the bound.
* `TokensNeverLost`, `TokensConserved`: `NoTokenLost` and `MessagesConserveTokens`. The first is a lower bound, and no more can
  be said of all behaviours: failed transactions and waits forwarded twice make tokens (`staking_failure`, `staking_forward`).
  The second is the equation, for the messages by themselves. The invariant (`TokensInv`) adds
  that the funds are numbers, and `SurvivesFailure`: while a transaction is open, the funds to which a failure would go
  back, with all that is bonded and unbonding, are no less than there was at first. That is what makes a `Revert` safe, which
  restores the funds but not the delegations.
* `RedelegatedLocked`: `RedelegatedStaysLocked`, from the same invariant.

**SubMessagesProofs** - for any contracts, messages, nesting and answers. A level is a record with sequences of records in
it, whose responses are trees of any depth; so the lemmas about it ask for sequences of whatever (`IsSeq`).

* `CallerIsAlwaysEmitter`, `MessagesAreInOrder`: `CallerIsEmitter` and `MessagesInOrder`. The invariant (`MessagesInv`) says
  that while a transaction runs the levels are a `Stack`: each is at one of its messages, those before it over and those after
  it not started; every message with a level above it has started, and the LAST response of its level is by the contract
  that asked for the level above (`Linked`). The code looks the caller up there whenever it needs it, so that a response
  pushed, squashed into it or dropped in the wrong place would change who the sender is. What drops a response
  (`AtShouldReply`) does so at the last level only, where nothing is linked any more; what squashes changes what is
  below the last response, never whose it is.
* `SearchesAlwaysEnd`: from any stack, `find_next` comes to what runs next or to the end. Each turn keeps the levels a stack and
  lowers `TurnsLeft` (`TurnIs`), which begins at three for each level: so the bound that the recursive function needs
  cuts nothing short.
* `CaughtErrorsAreUndone`, `RepliesCarryTheirResults` and `IterationsFollowExecution`: `CaughtErrorIsUndone`,
  `ReplyCarriesItsResult` and `IterationFollowsExecution`, for behaviours that keep `[][CaughtErrorsAreFlat]_messageVars`: when an
  error reaches a contract, none of the responses of the levels that are given up holds others. That is a condition on what
  happens and not an assumption on constants, and with none the first is wrong as soon as there are four levels
  (`submessages_deep`), because `process_result` reverts one scope for each response of a level.
* `ShallowErrorsAreUndone`, `ShallowRepliesCarryTheirResults` and `ShallowIterationsFollowExecution`: the same without the
  condition, for `MaxLevels \in 1..3` (and any contracts, numbers of messages, and answers). It is met then
  (`ShallowIsFlat`): the root message asks for no reply, so that an error is caught at the second level or above, and of the
  third, which is all that is given up then, the responses hold no others (`LowInv`), as no level above it was squashed.

The invariant of the first two (`RepliesInv`) is about what the levels have come to, `Books`. For every message that waits for
its reply, with the levels above it: their events and those of the open scopes agree on what was opened since the message began
(`Counts`), the data is the one its reply is due (`HasData`): the message's own and the newest, or, for a
message to the bank or to staking, what the level carried when it began; and the scopes opened since are as many as the responses,
the message's own included (`Scoped`). The last is what `process_result` relies on when it counts, and needs the
condition: an error that reverts as many scopes as it counts leaves the scopes that were there when its message began, and all
else follows. The search is followed turn by turn, as squashing moves a level's responses under the last one below.

The invariant of the third (`ResponsesInv`) says that the open scopes, in their order, are the runs of the responses
of all levels, one level after the other (`Spanned`): every level, and every response with those below it, has an interval of
its own. A run adds a place at the end, squashing puts the intervals of a level's responses inside that of the response below,
and an error cuts off as many levels as scopes, by the condition. An iterator whose remaining responses take up an interval
gives out the first place of it and then takes up the rest (`Walks`), so that by induction on its calls all places are given
out in order; no walk by recursion over a tree is needed.

**StorageProofs**, collections - under `IterableAssumption` (what a slot or a length may be is not what their absence is).

* `AlwaysDense`: every slot below the length is filled and none above. Density and types are inductive together; the
  types say that a handle's length is the stored one.
* `IsVector`: Spec => ImplementsVector. Each operation gives the sequence of items that the vector's operation gives, by
  extensionality: equal lengths and equal items.
* `IteratorLoads`: under `IterAssumption`, however an iterator is driven and however far `nth` jumps, it loads only
  filled slots, and its length is the number of items left. The invariant adds that the window ends at or
  below the collection's length and begins anywhere up to `Top`; the bound on the end is what density needs.
* `IteratorIsDoubleEnded`: IterSpec => ImplementsDoubleEnded. A window is an interval, and what a jump discards is an interval
  below or above the position it gives out, whose size is the jump unless the jump goes past the other end.

**StorageProofs**, maps - `TypeCorrect`, `MapConsistent` (types and consistency are inductive together: a removal
reads the key of the last entry, which must be there), `IndexStable`: with `Removable = FALSE`
an index once given out is good for ever; and `IsMap`: Spec => ImplementsMap. What a removal does is stated once
(`RemoveEffect`): the key loses its index, the last entry's key gets it, and all the others keep theirs.

**StorageProofs**, encoding - for any even base above 2 and any `MaxSize` above 0 (256 and 4 in the code), in any stream and at
any place of it (`Ahead`).

* `LengthsAreReadBack`: for every length that `ByteLen` takes, what is read is the length that was written, and the stream
  stands behind it. The test that would try them all is commented out in `byte_len.rs:88`, because it takes too long.
* `LengthsTakeFewest`: as few bytes as could hold the length and at most `MaxSize`, which is the size of the array that `encode`
  fills. It is `Shortest`, which `LengthsAreShortest` asks for in the storage.
* `NumbersAreReadBack`: an integer is read back by every type that has room for it, not only by the one that wrote it, so
  that a contract may be upgraded to a wider one; the bytes never exceed the buffer they are copied into unchecked.
* `BytesAreReadBack`: strings, binaries and addresses.

The argument: `rest[i]`, what is left of the number before digit `i + 1`, is `base * rest[i + 1]` and that digit. From the last
digit on, what is read is `rest` (`DigitsAreWorth`), and `rest` lies between two powers of the base (`DigitsAreFewest`). Recursive
functions are chosen by their definitions; `IteratesExist` of Sums says that there is one to choose.

**Snip20Proofs** - of Killswitch by itself, `TypeCorrect`, `AdminChosen`, `MigratingForever`. Every step of the token
is a step of Killswitch or leaves its variables alone (`ImplementsKillswitch`), so that `TokenAdminChosen` and
`TokenMigratesForever` follow. Then

* `NumbersAlwaysFit`: balances, supply, the supply a batch holds back and the balances it saves stay in
  `0..MaxUint`. One invariant, because a failed batch brings the saved balances back.
* `FrozenAlways`: `FrozenUnlessOperational`. The actions of a batch do not ask for the status again, so the invariant
  (`BatchIsGuarded`) says that a batch is open only while the token is operational.
* `AllowancesStayConsistent`: entries, indices and the lists of spenders agree, now and in what an open batch saves.
* `AllowancesRefined`: Spec => ImplementsAllowances. The invariant adds `SpendingInv`: while a batch is open,
  the allowances it works on differ from the saved ones only by what its sender spent of them,
  and the clock stands; so the end of a batch is one step `Spend`, its failure a stutter.

**Snip20Proofs**, the ledger - for any finite sets of addresses and denominations, any amounts, decoys and limit.

* `SupplyAlwaysExact`: `SupplyIsExact`. The invariant (`SupplyInv`) adds that the numbers fit, and that what an open batch
  would go back to is exact too.
* `HistoryAlwaysExplains`, `ReserveAlwaysCovers`: `HistoryExplainsBalance` and `ReserveCoversSupply`. `HistoryInv` adds
  that reserve and losses are numbers, and says both of now and of what a failing batch would go back to. A message
  of several coins is followed record by record: after the first `k` of them history and balance agree on the worth
  of the first `k` coins.

**TokenAnswersProofs**, queries - `QueriesAreAllowed`: QuerySpec => ImplementsReadAccess, under `QueriesAssumption`
(`Nobody` is none of the things it stands in for, permits have known names and permissions). A permit in the
abstract is a signature that is good: for this contract, and of a name its signer has not revoked; so revoking is
withdrawing, signing for another contract a stutter, and a presented permit is somebody's only if it verifies.

**TokenAnswersProofs**, sends - `SendsAlwaysTold`: `SendsAreTold`, for any accounts and code hashes, assuming that the
actions of a batch give no hash (`BatchHash = {}`, as in the run; `token_sends` shows that it is wrong with one). The
property speaks of the end of a transaction; the invariant (`SendsInv`), of the callbacks that wait: what a contract was told of
a message, followed by what waits for it of that message, is what it should be told. Callbacks that are put in front of others are
of a message of their own, so that they do not come between those of another one; that is why the order holds for each message and
for no two. Contracts may send and register whenever the chain lets them run.

**TokenAnswersProofs**, lists - `WalkNeverMisses` and `WalkNeverRepeatsMore`, for any lengths and page sizes, as long as the
list has fewer entries than a word has values (`MaxLength < WordSize`; a length is a u32), so that a reader who stops at the
total never comes to a page whose product wraps. For a walk from the newest on the invariant (`Down`) has a number `b`:
everything wanted above it has been seen, nothing at or below it has, and repetitions and entries due together do not exceed `b`
and what the pages have covered. A page that lies above `b` repeats at most its own size, and each of its entries is paid for by
an entry pushed meanwhile; any other page brings `b` down to its lower end. For a walk from the oldest on (`Up`) pages are
disjoint.

**Sums** - lemmas: a sum over a finite set when one summand changes, or two, bounds, sums over sequences, and the steps of
folds and of recursive functions. The library's definitions choose a recursive function; that one exists is shown step by step. The induction
theorems take operators, so that each induction is done by the smallest exception, which a well-founded order has
(`StepByStep`).

**DevnetProofs** - for any number of processes.

* `ReceiptAlwaysNames`: `ReceiptNamesContainer`. By itself it is not inductive: a removal, and the receipt that is saved,
  go by the id that the process holds. The invariant adds that the engine gives no name twice (`OneName`) and that a process
  which is not about to save a receipt holds the id in it, or one that `start()` has made in its place (`KnowsReceipt`): in place
  of one that is gone, unless creation, racing it, was faster (`GoneWhenRemade`).
* `PromisesAlwaysHold`: `PromisesHold`. It adds what a script that awaits its promises one after another cannot have: two
  of them open at once, other than `paused` for `removed` (`OneAtATime`), so that what `kill()` and `remove()` hold on to is still
  the container the process knows (`HoldsKnown`).

Only model-checked:

* BinSerde and ItemSpace (`LengthsAreShortest`, `ImplementsCells`, `CompatibleUpgradeKeepsItems`). Types hold types to
  any depth, reading and writing are recursive over them as the code is, and recursive operators are beyond the prover. What
  is proved is the part in which they come to numbers (StorageProofs, encoding).
* Liveness: `StartSettles` and `ReadyStopsOnExit`, as it rests on fairness.

## 5. What the models leave out

* Contents of messages, attributes of events, gas; errors of serialization inside maps and collections (ItemSpace has
  them for single items).
* 128-bit limits in bank and staking (unbounded naturals; the token has its limit).
* The list of validators, which does not change, and messages that name one not on it.
* Two handles of one collection used in turns. The library's own code opens one per call.
* Of the token: the seed of the random numbers (a decoy's place is arbitrary), more than one initial balance,
  the order of denominations, and in the run (not in the proofs) the address that a migrating status may carry.
* Of the devnet: images, exports, identities, ports, and the tables of platforms. They are requests and files without
  further steps. The engine answers as Docker documents, and does not fail by itself.
* `cell.rs`, a cache of an item within one call, which has one owner and no second reader.

Components that are not modelled, with the reason:

* *Deploy*. At this commit its operations do not run: the methods of `DeploymentUnits.ts` pass on a name, `args`, that is
  defined nowhere, and compiling, uploading and instantiating a unit are rejected with a `ReferenceError` before
  anything changes. What was expected to be hard, compiling or uploading twice across awaits
  (`deploy-impl.ts:47`), cannot be reached, and a model of it would be one of code that is not there.
* *Agent API*. Interfaces, and forwarding to a chain's client. *Stub*: two maps for tests, changed by one call each.
* *Block, environment, querier*. A counter that counts, and reads.
* *Macros, crypto, token helpers*. Generated code or calls into libraries, without state.
* *Chain clients, compiler, project creation, command line*. External services and output.

## 6. What could come next

1. EnsembleState composed with SubMessages in one model, with the scopes of the one the journal of the other; the
   state space is the product and needs smaller responses than the run has now.
2. The last assertion of `finalize`, that the root level has one response, from the invariant of `IterationsFollowExecution`.
3. Deploy, when its methods run.
4. BinSerde without recursive operators (types by their depth), and what is read back for any type.
5. Decoding of what was not encoded here (BinSerde reads only what it, or an older release, has written).
