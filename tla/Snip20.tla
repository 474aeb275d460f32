-------------------------------- MODULE Snip20 --------------------------------
(***************************************************************************)
(* The SNIP-20 token (crates/fadroma/scrt/snip20/contract): balances,      *)
(* total supply, allowances, the reserve behind deposits and the history   *)
(* of transactions, under the admin and status of Killswitch.              *)
(*                                                                         *)
(* A message that the code refuses is reverted and is no step, except that *)
(* the messages in batches are handled action by action, with the totals   *)
(* that the code holds back until the end, so that they may fail half way. *)
(* Numbers saturate at MaxUint as Uint128 does.  The transfer of a Send is *)
(* that of a Transfer; the callback it emits runs as a later message.      *)
(***************************************************************************)
EXTENDS Killswitch, Integers, SequencesExt

CONSTANTS Denom,        \* native coins that can be deposited
          Enabled,      \* the token's settings, fixed when it is created
          MaxUint,      \* Uint128::MAX
          Amount,       \* amounts of a message
          Expiration,   \* seconds at which an allowance may expire
          Decoys,       \* sequences of decoy accounts a message may list
          MaxTime,      \* bound: the clock stops there
          MaxMessages   \* bound: messages, and actions of batches

TokenPermission == {"Deposit", "Redeem", "Mint", "Burn", "ModifyDenoms"}

ASSUME Snip20Assumption == /\ IsFiniteSet(Address) /\ IsFiniteSet(Denom)
                           /\ Enabled \subseteq TokenPermission
                           /\ MaxUint \in Nat
                           /\ Amount \subseteq 0..MaxUint
                           /\ Expiration \subseteq Nat
                           /\ Decoys \subseteq Seq(Address)
                           /\ None \notin Nat \cup Denom

VARIABLES balance,      \* BALANCE
          supply,       \* TOTAL_SUPPLY
          allowances,   \* allowances_storage of every owner
          indices,      \* ALLOWANCES_INDICES of owner and spender
          allowed,      \* allowed_storage of every spender
          txs,          \* txs_storage of every account
          transfers,    \* transfers_storage of every account
          tx_count,     \* TX_COUNT
          minters,      \* MINTERS, without repetitions
          denoms,       \* SUPPORTED_DENOMS, without order or repetitions
          reserve,      \* native coins held by the contract, in the bank
          time,         \* of the block
          batch,        \* the batch being handled, or NoBatch
          messages,     \* bound: counts those messages and actions
          uncredited    \* history: deposits lost to saturation

balanceVars   == <<balance, supply>>
allowanceVars == <<allowances, indices, allowed>>
historyVars   == <<txs, transfers, tx_count>>
configVars    == <<admin, pending, status, chosen, minters, denoms>>
outerVars     == <<reserve, time, uncredited>>

vars == <<balanceVars, allowanceVars, historyVars, configVars, outerVars, batch, messages>>

GuardThatRedeems(msg) ==
    status = Operational \/ msg \in {"set_status", "redeem"}

\* Contract::guard, on every message.
Guard(msg) ==
    \/ status = Operational
    \/ msg = "set_status"
    \/ status = Paused /\ msg \in {"redeem", "change_admin"}

NoBatch == [msg |-> "none"]

Counted == /\ messages < MaxMessages
           /\ messages' = messages + 1

Handles(msg) == /\ batch = NoBatch
                /\ Guard(msg)
                /\ Counted
-----------------------------------------------------------------------------
(* Balances.                                                               *)

WrappingAdd(n, amount) == n + amount

\* safe_add
SafeAdd(n, amount) == IF n + amount > MaxUint THEN MaxUint ELSE n + amount

\* Account::add_balance; decoys are loaded and saved as they are.
AddBalance(balances, account, amount) ==
    [balances EXCEPT ![account] = SafeAdd(@, amount)]

SubtractBalance(balances, account, amount) ==
    [balances EXCEPT ![account] = @ - amount]

CanPay(account, amount) == balance[account] >= amount

\* perform_transfer
PerformTransfer(from, to, amount) ==
    /\ CanPay(from, amount)
    /\ balance' = AddBalance(SubtractBalance(balance, from, amount), to, amount)
-----------------------------------------------------------------------------
(* Allowances.                                                             *)

NoAllowance == [amount |-> 0, expiration |-> None]

IsExpired(allowance) == allowance.expiration # None /\ time >= allowance.expiration

\* Account::allowance, over the allowances and indices of some moment.
AllowanceIn(entries, index, owner, spender) ==
    IF index[owner][spender] = None
    THEN NoAllowance
    ELSE entries[owner][index[owner][spender] + 1].allowance

AllowanceOf(owner, spender) == AllowanceIn(allowances, indices, owner, spender)

UpdateNextAllowance(owner, spender, new) ==
    LET index == Len(allowances[owner]) + 1
    IN  /\ allowances' = [allowances EXCEPT ![owner] =
                 Append(@, [spender |-> spender, allowance |-> new])]
        /\ indices' = [indices EXCEPT ![owner][spender] = index]
        /\ allowed' = [allowed EXCEPT ![spender] =
                 Append(@, [lender |-> owner, index |-> index])]

\* Account::update_allowance
UpdateAllowance(owner, spender, new) ==
    IF indices[owner][spender] = None
    THEN LET index == Len(allowances[owner])
         IN  /\ allowances' = [allowances EXCEPT ![owner] =
                     Append(@, [spender |-> spender, allowance |-> new])]
             /\ indices' = [indices EXCEPT ![owner][spender] = index]
             /\ allowed' = [allowed EXCEPT ![spender] =
                     Append(@, [lender |-> owner, index |-> index])]
    ELSE /\ allowances' = [allowances EXCEPT
                 ![owner][indices[owner][spender] + 1].allowance = new]
         /\ UNCHANGED <<indices, allowed>>

\* use_allowance
UseAllowance(owner, spender, amount) ==
    LET old == AllowanceOf(owner, spender)
    IN  /\ ~IsExpired(old)
        /\ old.amount >= amount
        /\ UpdateAllowance(owner, spender, [old EXCEPT !.amount = @ - amount])

Until(allowance, expiration) ==
    IF expiration = None THEN allowance ELSE [allowance EXCEPT !.expiration = expiration]

IncreasedForever(old, amount, expiration) ==
    Until([amount     |-> SafeAdd(old.amount, amount),
           expiration |-> IF IsExpired(old) THEN None ELSE old.expiration],
          expiration)

Increased(old, amount, expiration) ==
    Until(IF IsExpired(old) THEN [NoAllowance EXCEPT !.amount = amount]
                            ELSE [old EXCEPT !.amount = SafeAdd(@, amount)],
          expiration)

Decreased(old, amount, expiration) ==
    Until(IF IsExpired(old) THEN NoAllowance
                            ELSE [old EXCEPT !.amount = IF amount > @ THEN 0 ELSE @ - amount],
          expiration)
-----------------------------------------------------------------------------
(* The history.                                                            *)

NoDecoys == [accounts |-> <<>>, pos |-> 0]

\* decoy::Builder::create: the real account goes to any place among them.
Disguises == {NoDecoys} \cup
             UNION { [accounts : {accounts}, pos : 0..Len(accounts)] : accounts \in Decoys }

\* Decoys::shuffle_in
ShuffleIn(account, decoys) == InsertAt(decoys.accounts, decoys.pos + 1, account)

\* What an account is told of a transaction in which it is a decoy.
Decoy(tx, a) == [tx EXCEPT !.action = [type |-> "decoy", address |-> a]]

\* Account::add_tx
AddTx(log, account, tx, decoys) ==
    LET all == ShuffleIn(account, decoys)
    IN  FoldLeftDomain(LAMBDA l, i : [l EXCEPT ![all[i]] =
                           Append(@, IF i = decoys.pos + 1 THEN tx ELSE Decoy(tx, all[i]))],
                       log, all)

\* Account::add_transfer
AddTransfer(log, account, transfer, decoys) ==
    LET all == ShuffleIn(account, decoys)
        decoy(a) == [transfer EXCEPT !.receiver = a, !.decoy = TRUE]
    IN  FoldLeftDomain(LAMBDA l, i : [l EXCEPT ![all[i]] =
                           Append(@, IF i = decoys.pos + 1 THEN transfer ELSE decoy(all[i]))],
                       log, all)

WithEntry(log, accounts, entry) ==
    [a \in Address |-> IF a \in accounts THEN Append(log[a], entry) ELSE log[a]]

StoreForEach(owner, sender, receiver, amount, decoys) ==
    LET tx == [id |-> tx_count + 1, amount |-> amount,
               action |-> [type |-> "transfer", from |-> owner, sender |-> sender,
                           recipient |-> receiver]]
        transfer == [id |-> tx_count + 1, amount |-> amount, from |-> owner,
                     sender |-> sender, receiver |-> receiver, decoy |-> FALSE]
    IN  /\ tx_count' = tx_count + 1
        /\ txs' = AddTx(WithEntry(txs, {owner, sender}, tx), receiver, tx, decoys)
        /\ transfers' = AddTransfer(WithEntry(transfers, {owner, sender}, transfer),
                                    receiver, transfer, decoys)

\* store_transfer: once for everybody involved, the receiver last.
StoreTransfer(owner, sender, receiver, amount, decoys) ==
    LET tx == [id |-> tx_count + 1, amount |-> amount,
               action |-> [type |-> "transfer", from |-> owner, sender |-> sender,
                           recipient |-> receiver]]
        transfer == [id |-> tx_count + 1, amount |-> amount, from |-> owner,
                     sender |-> sender, receiver |-> receiver, decoy |-> FALSE]
        others == {owner, sender} \ {receiver}
    IN  /\ tx_count' = tx_count + 1
        /\ txs' = AddTx(WithEntry(txs, others, tx), receiver, tx, decoys)
        /\ transfers' = AddTransfer(WithEntry(transfers, others, transfer),
                                    receiver, transfer, decoys)

\* store_mint and store_burn: in the history of the account, unless it is the
\* one who acts, and of the one who acts.
StoreAct(type, actor, account, amount, decoys) ==
    LET tx == [id |-> tx_count + 1, amount |-> amount,
               action |-> [type |-> type, actor |-> actor, account |-> account]]
    IN  /\ tx_count' = tx_count + 1
        /\ txs' = WithEntry(IF actor # account THEN AddTx(txs, account, tx, decoys) ELSE txs,
                            {actor}, tx)
        /\ UNCHANGED transfers

\* store_deposit and store_redeem, for every coin that is not empty.
StoreCoin(stored, type, account, amount, decoys) ==
    LET id == stored.tx_count + 1
        tx == [id |-> id, amount |-> amount, action |-> [type |-> type]]
    IN  IF amount = 0
        THEN stored
        ELSE [tx_count |-> id, txs |-> AddTx(stored.txs, account, tx, decoys)]

StoreCoins(type, account, coins, decoys) ==
    LET stored == FoldLeft(LAMBDA past, coin : StoreCoin(past, type, account, coin.amount, decoys),
                           [tx_count |-> tx_count, txs |-> txs], coins)
    IN  /\ tx_count' = stored.tx_count
        /\ txs' = stored.txs
        /\ UNCHANGED transfers
-----------------------------------------------------------------------------
(* What one message, or one action of a batch, does to the accounts.       *)

TransferImpl(sender, recipient, amount, decoys) ==
    /\ PerformTransfer(sender, recipient, amount)
    /\ StoreTransfer(sender, sender, recipient, amount, decoys)
    /\ UNCHANGED <<supply, allowanceVars>>

TransferFromImpl(spender, owner, recipient, amount, decoys) ==
    /\ UseAllowance(owner, spender, amount)
    /\ PerformTransfer(owner, recipient, amount)
    /\ StoreTransfer(owner, spender, recipient, amount, decoys)
    /\ UNCHANGED supply

BurnFromImpl(spender, owner, amount, decoys) ==
    /\ UseAllowance(owner, spender, amount)
    /\ CanPay(owner, amount)
    /\ balance' = SubtractBalance(balance, owner, amount)
    /\ StoreAct("burn", spender, owner, amount, decoys)

MintImpl(minter, recipient, amount, decoys) ==
    /\ balance' = AddBalance(balance, recipient, amount)
    /\ StoreAct("mint", minter, recipient, amount, decoys)
    /\ UNCHANGED allowanceVars
-----------------------------------------------------------------------------
(* The messages.                                                           *)

Total(coins) == SumFunction([i \in DOMAIN coins |-> coins[i].amount])

\* The bank adds the coins of a message to what the contract holds.
Received(coins) ==
    FoldLeft(LAMBDA held, coin : [held EXCEPT ![coin.denom] = @ + coin.amount], reserve, coins)

\* The sum of the coins panics beyond MaxUint; the supply saturates there, and
\* the account is given what the supply has grown by.
Deposit(account, coins, decoys) ==
    /\ Handles("deposit")
    /\ "Deposit" \in Enabled
    /\ \A i \in DOMAIN coins : coins[i].denom \in denoms
    /\ Total(coins) \in 1..MaxUint
    /\ LET added == SafeAdd(supply, Total(coins)) - supply
       IN  /\ supply' = supply + added
           /\ balance' = AddBalance(balance, account, added)
           /\ uncredited' = [uncredited EXCEPT ![account] = @ + Total(coins) - added]
    /\ reserve' = Received(coins)
    /\ StoreCoins("deposit", account, coins, decoys)
    /\ UNCHANGED <<allowanceVars, configVars, time, batch>>

RedeemWhatIsThere(account, amount, denom, decoys) ==
    /\ Handles("redeem")
    /\ amount # 0
    /\ CanPay(account, amount)
    /\ \E d \in denoms : /\ denom = d
                         /\ amount <= reserve[d]
                         /\ reserve' = [reserve EXCEPT ![d] = @ - amount]
    /\ balance' = SubtractBalance(balance, account, amount)
    /\ StoreCoins("redeem", account, <<[amount |-> amount]>>, decoys)
    /\ UNCHANGED <<supply, allowanceVars, configVars, time, batch, uncredited>>

Redeem(account, amount, denom, decoys) ==
    /\ Handles("redeem")
    /\ "Redeem" \in Enabled
    /\ amount # 0
    /\ CanPay(account, amount)
    /\ supply >= amount
    /\ \E d \in denoms : /\ denom = d \/ (denom = None /\ denoms = {d})
                         /\ amount <= reserve[d]
                         /\ reserve' = [reserve EXCEPT ![d] = @ - amount]
    /\ balance' = SubtractBalance(balance, account, amount)
    /\ supply' = supply - amount
    /\ StoreCoins("redeem", account, <<[amount |-> amount]>>, decoys)
    /\ UNCHANGED <<allowanceVars, configVars, time, batch, uncredited>>

Transfer(sender, recipient, amount, decoys) ==
    /\ Handles("transfer")
    /\ TransferImpl(sender, recipient, amount, decoys)
    /\ UNCHANGED <<configVars, outerVars, batch>>

TransferFrom(spender, owner, recipient, amount, decoys) ==
    /\ Handles("transfer_from")
    /\ TransferFromImpl(spender, owner, recipient, amount, decoys)
    /\ UNCHANGED <<configVars, outerVars, batch>>

Burn(account, amount, decoys) ==
    /\ Handles("burn")
    /\ "Burn" \in Enabled
    /\ CanPay(account, amount)
    /\ supply >= amount
    /\ balance' = SubtractBalance(balance, account, amount)
    /\ supply' = supply - amount
    /\ StoreAct("burn", account, account, amount, decoys)
    /\ UNCHANGED <<allowanceVars, configVars, outerVars, batch>>

BurnFrom(spender, owner, amount, decoys) ==
    /\ Handles("burn_from")
    /\ "Burn" \in Enabled
    /\ supply >= amount
    /\ BurnFromImpl(spender, owner, amount, decoys)
    /\ supply' = supply - amount
    /\ UNCHANGED <<configVars, outerVars, batch>>

Mint(minter, recipient, amount, decoys) ==
    /\ Handles("mint")
    /\ "Mint" \in Enabled
    /\ minter \in minters
    /\ supply' = SafeAdd(supply, amount)
    /\ MintImpl(minter, recipient, supply' - supply, decoys)
    /\ UNCHANGED <<configVars, outerVars, batch>>

IncreaseAllowance(owner, spender, amount, expiration) ==
    /\ Handles("increase_allowance")
    /\ UpdateAllowance(owner, spender,
                       Increased(AllowanceOf(owner, spender), amount, expiration))
    /\ UNCHANGED <<balanceVars, historyVars, configVars, outerVars, batch>>

DecreaseAllowance(owner, spender, amount, expiration) ==
    /\ Handles("decrease_allowance")
    /\ UpdateAllowance(owner, spender,
                       Decreased(AllowanceOf(owner, spender), amount, expiration))
    /\ UNCHANGED <<balanceVars, historyVars, configVars, outerVars, batch>>
-----------------------------------------------------------------------------
(* The batches.  Those that burn and mint load the total supply at the     *)
(* beginning and save it at the end; an error reverts the whole message.   *)

Batches == {"batch_transfer", "batch_transfer_from", "batch_burn_from", "batch_mint"}

BeginBatch(msg, sender) ==
    /\ Handles(msg)
    /\ messages' < MaxMessages
    /\ msg = "batch_burn_from" => "Burn" \in Enabled
    /\ msg = "batch_mint" => "Mint" \in Enabled /\ sender \in minters
    /\ batch' = [msg |-> msg, sender |-> sender, supply |-> supply,
                 saved |-> [balance |-> balance, txs |-> txs, transfers |-> transfers,
                            tx_count |-> tx_count, allowances |-> allowances,
                            indices |-> indices, allowed |-> allowed]]
    /\ UNCHANGED <<balanceVars, allowanceVars, historyVars, configVars, outerVars>>

InBatch(msg) == /\ batch # NoBatch
                /\ batch.msg = msg

\* The next action of the batch, after which the held back supply is `held'.
NextAction(held) ==
    /\ Counted
    /\ batch' = [batch EXCEPT !.supply = held]
    /\ UNCHANGED <<supply, configVars, outerVars>>

BatchTransfer(recipient, amount, decoys) ==
    /\ InBatch("batch_transfer")
    /\ TransferImpl(batch.sender, recipient, amount, decoys)
    /\ NextAction(batch.supply)

BatchTransferFrom(owner, recipient, amount, decoys) ==
    /\ InBatch("batch_transfer_from")
    /\ TransferFromImpl(batch.sender, owner, recipient, amount, decoys)
    /\ NextAction(batch.supply)

BatchBurnFrom(owner, amount, decoys) ==
    /\ InBatch("batch_burn_from")
    /\ batch.supply >= amount
    /\ BurnFromImpl(batch.sender, owner, amount, decoys)
    /\ NextAction(batch.supply - amount)

BatchMint(recipient, amount, decoys) ==
    /\ InBatch("batch_mint")
    /\ LET held == SafeAdd(batch.supply, amount)
       IN  /\ MintImpl(batch.sender, recipient, held - batch.supply, decoys)
           /\ NextAction(held)

HoldsSupply == batch # NoBatch /\ batch.msg \in {"batch_burn_from", "batch_mint"}

EndBatchUnsaved ==
    /\ batch # NoBatch
    /\ batch' = NoBatch
    /\ UNCHANGED <<balanceVars, allowanceVars, historyVars, configVars, outerVars, messages>>

EndBatch ==
    /\ batch # NoBatch
    /\ supply' = IF HoldsSupply THEN batch.supply ELSE supply
    /\ batch' = NoBatch
    /\ UNCHANGED <<balance, allowanceVars, historyVars, configVars, outerVars, messages>>

\* Any action may be refused, if only for an address that is no address.
FailBatch ==
    /\ batch # NoBatch
    /\ balance' = batch.saved.balance
    /\ allowances' = batch.saved.allowances
    /\ indices' = batch.saved.indices
    /\ allowed' = batch.saved.allowed
    /\ txs' = batch.saved.txs
    /\ transfers' = batch.saved.transfers
    /\ tx_count' = batch.saved.tx_count
    /\ batch' = NoBatch
    /\ UNCHANGED <<supply, configVars, outerVars, messages>>
-----------------------------------------------------------------------------
(* The administration.                                                     *)

Administers(sender, msg) ==
    /\ Handles(msg)
    /\ sender = admin
    /\ UNCHANGED <<balanceVars, allowanceVars, historyVars, outerVars, batch, adminVars>>

ChangeMinters(sender, msg, new) ==
    /\ Administers(sender, msg)
    /\ "Mint" \in Enabled
    /\ minters' = new
    /\ UNCHANGED denoms

AddMinters(sender, named)    == ChangeMinters(sender, "add_minters", minters \cup named)
RemoveMinters(sender, named) == ChangeMinters(sender, "remove_minters", minters \ named)
SetMinters(sender, named)    == ChangeMinters(sender, "set_minters", named)

ChangeDenoms(sender, msg, new) ==
    /\ Administers(sender, msg)
    /\ "ModifyDenoms" \in Enabled
    /\ denoms' = new
    /\ UNCHANGED minters

AddSupportedDenoms(sender, named) ==
    ChangeDenoms(sender, "add_supported_denoms", denoms \cup named)
RemoveSupportedDenoms(sender, named) ==
    ChangeDenoms(sender, "remove_supported_denoms", denoms \ named)

TokenStatus(sender, new) ==
    /\ Handles("set_status")
    /\ SetStatus(sender, new)
    /\ UNCHANGED <<balanceVars, allowanceVars, historyVars, outerVars, batch, minters, denoms>>

TokenAdmin(sender) ==
    /\ Handles("change_admin")
    /\ ChangeAdmin(sender)
    /\ UNCHANGED <<balanceVars, allowanceVars, historyVars, outerVars, batch, minters, denoms>>

Tick == /\ batch = NoBatch
        /\ time < MaxTime
        /\ messages < MaxMessages
        /\ time' = time + 1
        /\ UNCHANGED <<balanceVars, allowanceVars, historyVars, configVars, batch, reserve, uncredited,
                     messages>>
-----------------------------------------------------------------------------
(* Instantiation, here with one initial balance or none: a second one is   *)
(* added and recorded as the first, and as what the admin mints later.     *)

Init ==
    /\ AdminInit
    /\ \E a \in Address, amount \in Amount \cup {0} :
           LET tx == [id |-> 1, amount |-> amount,
                      action |-> [type |-> "mint", actor |-> admin, account |-> a]]
           IN  /\ balance = [b \in Address |-> IF b = a THEN amount ELSE 0]
               /\ supply = amount
               /\ tx_count = IF amount = 0 THEN 0 ELSE 1
               /\ txs = [b \in Address |-> IF amount # 0 /\ b \in {a, admin}
                                           THEN <<tx>> ELSE <<>>]
    /\ transfers = [a \in Address |-> <<>>]
    /\ allowances = [a \in Address |-> <<>>]
    /\ allowed = [a \in Address |-> <<>>]
    /\ indices = [a \in Address |-> [b \in Address |-> None]]
    /\ minters = IF "Mint" \in Enabled THEN {admin} ELSE {}
    /\ denoms \in SUBSET Denom
    /\ reserve = [d \in Denom |-> 0]
    /\ uncredited = [a \in Address |-> 0]
    /\ time = 0
    /\ batch = NoBatch
    /\ messages = 0

Coin == [denom : Denom, amount : Amount]

\* The funds of a message: one coin, or two of different denominations.
Funds == {<<coin>> : coin \in Coin} \cup
         {funds \in Coin \X Coin : funds[1].denom # funds[2].denom}

Expirations == Expiration \cup {None}

Ledger(sender) ==
    \E decoys \in Disguises :
        \/ \E funds \in Funds : Deposit(sender, funds, decoys)
        \/ \E amount \in Amount :
              \/ \E denom \in Denom \cup {None} : Redeem(sender, amount, denom, decoys)
              \/ Burn(sender, amount, decoys)
              \/ \E other \in Address :
                    \/ Transfer(sender, other, amount, decoys)
                    \/ Mint(sender, other, amount, decoys)
                    \/ BurnFrom(sender, other, amount, decoys)
                    \/ \E recipient \in Address :
                          TransferFrom(sender, other, recipient, amount, decoys)

Batch ==
    \/ \E msg \in Batches, sender \in Address : BeginBatch(msg, sender)
    \/ \E a \in Address, amount \in Amount, decoys \in Disguises :
          \/ BatchTransfer(a, amount, decoys)
          \/ BatchMint(a, amount, decoys)
          \/ BatchBurnFrom(a, amount, decoys)
          \/ \E recipient \in Address : BatchTransferFrom(a, recipient, amount, decoys)
    \/ EndBatch
    \/ FailBatch

Administration(sender) ==
    \/ \E named \in SUBSET Address : \/ AddMinters(sender, named)
                                     \/ RemoveMinters(sender, named)
                                     \/ SetMinters(sender, named)
    \/ \E named \in SUBSET Denom : \/ AddSupportedDenoms(sender, named)
                                   \/ RemoveSupportedDenoms(sender, named)
    \/ \E new \in ContractStatus : TokenStatus(sender, new)
    \/ TokenAdmin(sender)

Allowance(sender) ==
    \E spender \in Address, amount \in Amount, expiration \in Expirations :
        \/ IncreaseAllowance(sender, spender, amount, expiration)
        \/ DecreaseAllowance(sender, spender, amount, expiration)

\* A query, or a message that is refused, at any time.
Refused == UNCHANGED vars

Next == \/ \E sender \in Address : \/ Ledger(sender)
                                   \/ Allowance(sender)
                                   \/ Administration(sender)
        \/ Batch
        \/ Tick
        \/ Refused

Spec == Init /\ [][Next]_vars
-----------------------------------------------------------------------------
NumbersFit == /\ balance \in [Address -> 0..MaxUint]
              /\ supply \in 0..MaxUint

(* The stored values have their types, and no number exceeds MaxUint.      *)
TypeOK ==
    /\ AdminTypeOK
    /\ NumbersFit
    /\ indices \in [Address -> [Address -> 0..(Cardinality(Address) - 1) \cup {None}]]
    /\ \A a \in Address : \A i \in DOMAIN allowances[a] :
           allowances[a][i] \in [spender : Address,
                                allowance : [amount : 0..MaxUint, expiration : Expirations]]
    /\ minters \subseteq Address
    /\ denoms \subseteq Denom
    /\ reserve \in [Denom -> Nat]

Held == IF HoldsSupply THEN batch.supply ELSE supply

(* No message makes or loses tokens: between messages, and within the      *)
(* batches that hold it back, the total supply is the sum of the balances. *)
SupplyIsExact == SumFunction(balance) = Held

\* What was minted, and what of it a history tells.
Mints(log) == { <<tx.id, tx.amount>> : tx \in
                   {t \in UNION {ToSet(log[a]) : a \in Address} : t.action.type = "mint"} }
Minted(log) == SumFunction([mint \in Mints(log) |-> mint[2]])

(* Tokens that nobody minted are backed, one to one, by the coins that the *)
(* contract holds, whatever is burnt and however the supply saturates.     *)
ReserveCoversSupply == Held <= SumFunction(reserve) + Minted(txs)

ConsistentFor(entries, index, lenders, owner, spender) ==
    LET lent == {i \in DOMAIN lenders[spender] : lenders[spender][i].lender = owner}
        n    == index[owner][spender]
    IN  IF n = None
        THEN lent = {}
        ELSE /\ n + 1 \in DOMAIN entries[owner]
             /\ entries[owner][n + 1].spender = spender
             /\ \E i \in DOMAIN lenders[spender] :
                   lent = {i} /\ lenders[spender][i].index = n

Consistent(entries, index, lenders) ==
    /\ \A owner, spender \in Address : ConsistentFor(entries, index, lenders, owner, spender)
    /\ \A owner \in Address : \A i \in DOMAIN entries[owner] :
          index[owner][entries[owner][i].spender] = i - 1

(* update_allowance and the queries unwrap what the index of an allowance  *)
(* points to: owner and spender are found from either side, each once.     *)
AllowancesConsistent == Consistent(allowances, indices, allowed)

\* What a transaction in the history of an account says of its balance.
Gain(a, tx) ==
    CASE tx.action.type = "transfer" -> (IF tx.action.recipient = a THEN tx.amount ELSE 0)
                                        - (IF tx.action.from = a THEN tx.amount ELSE 0)
      [] tx.action.type = "mint"     -> IF tx.action.account = a THEN tx.amount ELSE 0
      [] tx.action.type = "burn"     -> IF tx.action.account = a THEN -tx.amount ELSE 0
      [] tx.action.type = "deposit"  -> tx.amount
      [] tx.action.type = "redeem"   -> -tx.amount
      [] OTHER -> 0

Gains(a, history) == SumFunction([i \in DOMAIN history |-> Gain(a, history[i])])

(* The history of an account explains its balance: every transaction that  *)
(* moved it is there exactly once, decoys say nothing, and only deposits   *)
(* beyond the highest supply are recorded for more than they credited.     *)
HistoryExplainsBalance ==
    \A a \in Address : Gains(a, txs[a]) = balance[a] + uncredited[a]

(* A token that is paused can only be redeemed, one that migrates is       *)
(* frozen, down to its admin: no sequence of messages moves anything else. *)
FrozenUnlessOperational ==
    [][(status # Operational) =>
          /\ \A a \in Address : balance'[a] <= balance[a]
          /\ UNCHANGED <<allowanceVars, minters, denoms>>
          /\ status \in Migrating => UNCHANGED <<balanceVars, admin>>]_vars

\* Until a batch ends, what counts is what will be there if it fails.
CommittedAllowance(owner, spender) ==
    IF batch = NoBatch
    THEN AllowanceOf(owner, spender)
    ELSE AllowanceIn(batch.saved.allowances, batch.saved.indices, owner, spender)

LiveAllowances ==
    [owner \in Address |-> [spender \in Address |->
        IF IsExpired(CommittedAllowance(owner, spender))
        THEN NoAllowance
        ELSE CommittedAllowance(owner, spender)]]

Promise == INSTANCE Allowances WITH live <- LiveAllowances

(* Allowances that expire when somebody looks at them are as good as ones  *)
(* that vanish in time, and a batch spends all it spends or nothing.       *)
ImplementsAllowances == Promise!Spec
=============================================================================
