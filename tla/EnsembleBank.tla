----------------------------- MODULE EnsembleBank -----------------------------
(***************************************************************************)
(* The balances of the simulation engine and their part of the undo        *)
(* journal (crates/fadroma-ensemble/src/bank.rs and the add_funds,         *)
(* remove_funds and transfer_funds of state.rs).  An account exists once   *)
(* it has been mentioned; it holds a balance for the denominations it has  *)
(* received.                                                               *)
(*                                                                         *)
(* `bank_saved' is a history variable: the accounts at the opening of each *)
(* open scope.  No action reads it.                                        *)
(***************************************************************************)
EXTENDS Integers, Sequences, SequencesExt, FiniteSetsExt, Functions, TLC

CONSTANTS Account, Denom,
          CoinAmount,  \* amounts of one coin
          MaxCoins,    \* bound: coins of one message
          BankScopes,  \* bound: scopes open at once
          MaxSupply    \* bound: deposits and rewards stop there

\* The accounts are a HashMap; amounts are a Uint128.
ASSUME EnsembleBankAssumption ==
    /\ IsFiniteSet(Account)
    /\ CoinAmount \subseteq Nat
    /\ {MaxCoins, BankScopes, MaxSupply} \subseteq Nat

VARIABLES bank, bank_scopes, bank_saved

bankVars == <<bank, bank_scopes, bank_saved>>

Coin == [denom : Denom, amount : CoinAmount]

NoFunds == <<>>   \* the function with no denomination at all

Has(b, a, d) == a \in DOMAIN b /\ d \in DOMAIN b[a]

Balance(b, a, d) == IF Has(b, a, d) THEN b[a][d] ELSE 0

Balances(b) == [a \in Account |-> [d \in Denom |-> Balance(b, a, d)]]

Total(b, d) == SumFunction([a \in Account |-> Balance(b, a, d)])

Holds(b, a, coin) == Has(b, a, coin.denom) /\ b[a][coin.denom] >= coin.amount

\* HashMap::insert
Put(f, x, y) == [z \in DOMAIN f \cup {x} |-> IF z = x THEN y ELSE f[z]]

Touch(b, a) == IF a \in DOMAIN b THEN b ELSE Put(b, a, NoFunds)

SetBalance(b, a, d, n) == [b EXCEPT ![a] = Put(@, d, n)]

Add(b, a, coin) ==
    SetBalance(Touch(b, a), a, coin.denom, Balance(b, a, coin.denom) + coin.amount)

Take(b, a, coin) ==
    SetBalance(b, a, coin.denom, b[a][coin.denom] - coin.amount)

\* Bank::add_funds, remove_funds and transfer: an error keeps what was done.
Result(ok, b) == [ok |-> ok, bank |-> b]

BankAdd(b, a, coin) == Result(TRUE, Add(b, a, coin))

BankRemove(b, a, coin) ==
    IF Holds(b, a, coin) THEN Result(TRUE, Take(b, a, coin)) ELSE Result(FALSE, b)

StaleTransfer(b, from, to, coin) ==
    LET known == Touch(Touch(b, from), to)
    IN  IF Holds(known, from, coin)
        THEN Result(TRUE, SetBalance(Take(known, from, coin), to, coin.denom,
                                     Balance(known, to, coin.denom) + coin.amount))
        ELSE Result(FALSE, known)

BankTransfer(b, from, to, coin) ==
    LET known == Touch(Touch(b, from), to)
    IN  IF Holds(known, from, coin)
        THEN Result(TRUE, Add(Take(known, from, coin), to, coin))
        ELSE Result(FALSE, known)
-----------------------------------------------------------------------------
(* The journal.                                                            *)

AddOp(a, coin) == [op |-> "add", to |-> a, coin |-> coin]
RemoveOp(a, coin) == [op |-> "remove", from |-> a, coin |-> coin]
TransferOp(from, to, coin) ==
    [op |-> "transfer", from |-> from, to |-> to, coin |-> coin]

\* What a record stands for.
Do(b, op) ==
    CASE op.op = "add" -> BankAdd(b, op.to, op.coin)
      [] op.op = "remove" -> BankRemove(b, op.from, op.coin)
      [] op.op = "transfer" -> BankTransfer(b, op.from, op.to, op.coin)

UndoRepeats(b, op) ==
    CASE op.op = "add" -> BankRemove(b, op.to, op.coin)
      [] op.op = "remove" -> BankAdd(b, op.from, op.coin)
      [] op.op = "transfer" -> BankTransfer(b, op.from, op.to, op.coin)

Undo(b, op) ==
    CASE op.op = "add" -> BankRemove(b, op.to, op.coin)
      [] op.op = "remove" -> BankAdd(b, op.from, op.coin)
      [] op.op = "transfer" -> BankTransfer(b, op.to, op.from, op.coin)

\* Undoing a record is unwrapped: after an error there is no going on.
Unwrap(past, op) == IF past.ok THEN Undo(past.bank, op) ELSE past

\* A scope is replayed from its first record to its last.
UndoScope(past, scope) == FoldLeft(Unwrap, past, scope)

\* The open scopes from the i-th on, the newest first.
UndoScopes(past, undone) == FoldLeft(UndoScope, past, undone)

RevertedFrom(b, i) ==
    UndoScopes(Result(TRUE, b), Reverse(SubSeq(bank_scopes, i, Len(bank_scopes))))

\* Coins are moved one by one, as the records of a temporary scope say; the
\* first that cannot be moved stops the rest.
MoveOne(moved, op) ==
    LET one == Do(moved.bank, op)
    IN  IF ~moved.ok THEN moved
        ELSE [ok |-> one.ok, bank |-> one.bank,
              temp |-> IF one.ok THEN Append(moved.temp, op) ELSE moved.temp]

MoveAll(b, ops) ==
    FoldLeft(MoveOne, [ok |-> TRUE, bank |-> b, temp |-> <<>>], ops)

\* It also takes back the ones before it.
MoveCoins(b, ops) ==
    LET all == MoveAll(b, ops)
    IN  IF all.ok THEN all
        ELSE [all EXCEPT !.bank = UndoScope(Result(TRUE, all.bank), all.temp).bank,
                         !.temp = <<>>]

TransferHalfway(b, from, to, coins) ==
    MoveAll(b, [i \in DOMAIN coins |-> TransferOp(from, to, coins[i])])

TransferFunds(b, from, to, coins) ==
    MoveCoins(b, [i \in DOMAIN coins |-> TransferOp(from, to, coins[i])])

RemoveFunds(b, a, coins) ==
    MoveCoins(b, [i \in DOMAIN coins |-> RemoveOp(a, coins[i])])

AddFunds(b, a, coins) ==
    MoveCoins(b, [i \in DOMAIN coins |-> AddOp(a, coins[i])])
-----------------------------------------------------------------------------
BankInit == bank = <<>> /\ bank_scopes = <<>> /\ bank_saved = <<>>

BankOpen == bank_scopes # <<>>

\* Ensemble::add_funds, outside of any transaction.
Deposit(a, coin) == /\ ~BankOpen
                    /\ Total(bank, coin.denom) + coin.amount <= MaxSupply
                    /\ bank' = Add(bank, a, coin)
                    /\ UNCHANGED <<bank_scopes, bank_saved>>

\* Ensemble::remove_funds and transfer_funds, outside of any transaction: a
\* transfer that fails has nevertheless made the accounts known.
Confiscate(a, coin) == /\ ~BankOpen
                       /\ Holds(bank, a, coin)
                       /\ bank' = Take(bank, a, coin)
                       /\ UNCHANGED <<bank_scopes, bank_saved>>

Move(from, to, coin) == /\ ~BankOpen
                        /\ bank' = BankTransfer(bank, from, to, coin).bank
                        /\ UNCHANGED <<bank_scopes, bank_saved>>

BankPushScope == /\ Len(bank_scopes) < BankScopes
                 /\ bank_scopes' = Append(bank_scopes, <<>>)
                 /\ bank_saved' = Append(bank_saved, bank)
                 /\ UNCHANGED bank

\* Every message moves funds once at most, before its contract runs.  A bank
\* error is not an error of a contract: it fails the whole transaction.
Settle(moved) ==
    /\ BankOpen
    /\ Last(bank_scopes) = <<>>
    /\ IF moved.ok
       THEN /\ bank' = moved.bank
            /\ bank_scopes' = [bank_scopes EXCEPT ![Len(bank_scopes)] = @ \o moved.temp]
            /\ UNCHANGED bank_saved
       ELSE /\ bank' = RevertedFrom(moved.bank, 1).bank
            /\ bank_scopes' = <<>> /\ bank_saved' = <<>>

\* The funds of an execute or instantiate message, or a bank send.
Transfer(from, to, coins) == Settle(TransferFunds(bank, from, to, coins))

\* What a delegation takes from the delegator.
Withhold(a, coin) == Settle(RemoveFunds(bank, a, <<coin>>))

\* A reward that is withdrawn.
PayOut(a, coin) == /\ Total(bank, coin.denom) + coin.amount <= MaxSupply
                   /\ Settle(AddFunds(bank, a, <<coin>>))

RevertBankTo(i) == /\ bank' = RevertedFrom(bank, i).bank
                   /\ bank_scopes' = SubSeq(bank_scopes, 1, i - 1)
                   /\ bank_saved' = SubSeq(bank_saved, 1, i - 1)

BankCommit == /\ BankOpen
              /\ bank_scopes' = <<>> /\ bank_saved' = <<>>
              /\ UNCHANGED bank

BankNext == \/ \E a \in Account, coin \in Coin :
                 \/ Deposit(a, coin) \/ Confiscate(a, coin)
                 \/ Withhold(a, coin) \/ PayOut(a, coin)
                 \/ \E to \in Account : Move(a, to, coin)
            \/ \E from, to \in Account, coins \in SeqOf(Coin, MaxCoins) \ {<<>>} :
                 Transfer(from, to, coins)
            \/ BankPushScope
            \/ \E i \in 1..Len(bank_scopes) : RevertBankTo(i)
            \/ BankCommit

BankSpec == BankInit /\ [][BankNext]_bankVars
-----------------------------------------------------------------------------
\* Some accounts, each with some denominations.
Pockets == UNION {[held -> Nat] : held \in SUBSET Denom}
Banks == UNION {[known -> Pockets] : known \in SUBSET Account}

BankTypeOK == /\ bank \in Banks
              /\ bank_saved \in Seq(Banks)
              /\ Len(bank_saved) = Len(bank_scopes)

(* Reverting back to any open scope succeeds (the unwraps in revert_scope  *)
(* never panic) and gives every account the balances it had when that      *)
(* scope was opened.                                                       *)
BankRollbackIsExact ==
    \A i \in 1..Len(bank_scopes) :
        LET past == RevertedFrom(bank, i)
        IN  past.ok /\ Balances(past.bank) = Balances(bank_saved[i])

(* Whatever moves the coins of messages between accounts, and fails half   *)
(* way through them, neither creates nor destroys any: the journal tells   *)
(* exactly what the open transaction added to and removed from the supply. *)
Recorded(scope, kind, d) ==
    SumFunction([n \in DOMAIN scope |->
        IF scope[n].op = kind /\ scope[n].coin.denom = d THEN scope[n].coin.amount ELSE 0])

Journalled(kind, d) ==
    SumFunction([i \in DOMAIN bank_scopes |-> Recorded(bank_scopes[i], kind, d)])

SupplyIsJournalled ==
    BankOpen => \A d \in Denom :
        Total(bank, d) + Journalled("remove", d)
            = Total(bank_saved[1], d) + Journalled("add", d)

(* Balances as seen through the journal are nested transactions.           *)
NestedBalances == INSTANCE Transactions WITH
                    World <- [Account -> [Denom -> Nat]],
                    world <- Balances(bank),
                    opened <- [i \in DOMAIN bank_saved |-> Balances(bank_saved[i])]
BankImplementsTransactions == NestedBalances!Spec
=============================================================================
