----------------------------- MODULE Snip20Proofs -----------------------------
(***************************************************************************)
(* Proofs about Snip20, for any accounts, coins, limits and settings.      *)
(***************************************************************************)
EXTENDS Snip20, Sums, TLAPS

(***************************************************************************)
(* Killswitch by itself, for any set of addresses.                         *)
(***************************************************************************)
LEMMA KnownStatuses == Operational \in ContractStatus /\ Operational \notin Migrating
BY DEF ContractStatus, Operational, Migrating

(* The stores of the admin and of the killswitch hold addresses and        *)
(* statuses, and nothing else.                                             *)
THEOREM TypeCorrect == AdminSpec => []AdminTypeOK
<1>1. AdminInit => AdminTypeOK
  BY KnownStatuses DEF AdminInit, AdminTypeOK
<1>2. AdminTypeOK /\ [AdminNext]_adminVars => AdminTypeOK'
  <2> SUFFICES ASSUME AdminTypeOK, [AdminNext]_adminVars
               PROVE  AdminTypeOK'
    OBVIOUS
  <2>1. ASSUME NEW sender \in Address, NEW a \in Address, Immediate(sender, a)
        PROVE  AdminTypeOK'
    BY <2>1 DEF AdminTypeOK, Immediate
  <2>2. ASSUME NEW sender \in Address, NEW a \in Address, TwoStep(sender, a)
        PROVE  AdminTypeOK'
    BY <2>2 DEF AdminTypeOK, TwoStep
  <2>3. ASSUME NEW sender \in Address, Accept(sender)
        PROVE  AdminTypeOK'
    BY <2>3 DEF AdminTypeOK, Accept
  <2>4. ASSUME NEW sender \in Address, NEW new \in ContractStatus,
               SetStatus(sender, new)
        PROVE  AdminTypeOK'
    BY <2>4 DEF AdminTypeOK, SetStatus
  <2>5. CASE UNCHANGED adminVars
    BY <2>5 DEF AdminTypeOK, adminVars
  <2> QED BY <2>1, <2>2, <2>3, <2>4, <2>5 DEF AdminNext, ChangeAdmin
<1> QED BY <1>1, <1>2, PTL DEF AdminSpec

(* Nobody becomes admin of a contract, nor gets into a position to, that   *)
(* no admin ever named: change_admin in all its modes keeps it so.         *)
THEOREM AdminChosen == AdminSpec => []AdminWasChosen
<1>1. AdminInit => AdminWasChosen
  BY DEF AdminInit, AdminWasChosen
<1>2. AdminWasChosen /\ [AdminNext]_adminVars => AdminWasChosen'
  BY DEF AdminWasChosen, AdminNext, ChangeAdmin, adminVars, Immediate, TwoStep, Accept, SetStatus
<1> QED BY <1>1, <1>2, PTL DEF AdminSpec

(* A migrating contract stays so, even when its admin changes in between:  *)
(* the check of assert_can_set_status suffices.                            *)
THEOREM MigratingForever == AdminSpec => MigratingIsPermanent
<1>1. [AdminNext]_adminVars => [(status \in Migrating) => (status' \in Migrating)]_adminVars
  <2> SUFFICES ASSUME AdminNext, status \in Migrating
               PROVE  status' \in Migrating
    BY DEF adminVars
  <2>1. ASSUME NEW sender \in Address, NEW new \in ContractStatus,
               SetStatus(sender, new)
        PROVE  status' \in Migrating
    BY <2>1 DEF SetStatus, CanSetStatus
  <2> QED BY <2>1 DEF AdminNext, ChangeAdmin, Immediate, TwoStep, Accept
<1> QED BY <1>1, PTL DEF AdminSpec, MigratingIsPermanent
-----------------------------------------------------------------------------

(***************************************************************************)
(* The administration.  Every message is a step of Killswitch or leaves    *)
(* its variables alone, so that its theorems carry over to the token.      *)
(***************************************************************************)
LEMMA LedgerKeepsAdmin ==
    ASSUME NEW sender \in Address, Ledger(sender) \/ Allowance(sender)
    PROVE  UNCHANGED adminVars
BY DEF Ledger, Allowance, adminVars, configVars, Deposit, Redeem, Burn, Transfer, Mint, BurnFrom,
       TransferFrom, IncreaseAllowance, DecreaseAllowance

LEMMA BatchKeepsAdmin == Batch => UNCHANGED adminVars
BY DEF Batch, adminVars, configVars, BeginBatch, BatchTransfer, BatchMint, BatchBurnFrom,
       BatchTransferFrom, EndBatch, FailBatch, NextAction

LEMMA AdministrationSteps ==
    ASSUME NEW sender \in Address, Administration(sender)
    PROVE  [AdminNext]_adminVars
<1>1. ASSUME NEW new \in ContractStatus, TokenStatus(sender, new)
      PROVE  AdminNext
  BY <1>1 DEF TokenStatus, AdminNext
<1>2. ASSUME TokenAdmin(sender)
      PROVE  AdminNext
  BY <1>2 DEF TokenAdmin, AdminNext
<1>3. ASSUME NEW msg, Administers(sender, msg)
      PROVE  UNCHANGED adminVars
  BY <1>3 DEF Administers
<1> QED BY <1>1, <1>2, <1>3 DEF Administration, AddMinters, RemoveMinters, SetMinters,
              AddSupportedDenoms, RemoveSupportedDenoms, ChangeMinters, ChangeDenoms

(* The token implements Killswitch: its status and its admin change as     *)
(* those of any contract, whatever else happens around them.               *)
THEOREM ImplementsKillswitch == Spec => AdminSpec
<1>1. Init => AdminInit
  BY DEF Init
<1>2. [Next]_vars => [AdminNext]_adminVars
  <2> SUFFICES ASSUME [Next]_vars
               PROVE  [AdminNext]_adminVars
    OBVIOUS
  <2>1. CASE Tick
    BY <2>1 DEF Tick, configVars, adminVars
  <2>2. CASE Refused \/ UNCHANGED vars
    BY <2>2 DEF Refused, vars, configVars, adminVars
  <2> QED BY <2>1, <2>2, LedgerKeepsAdmin, BatchKeepsAdmin, AdministrationSteps DEF Next
<1> QED BY <1>1, <1>2, PTL DEF Spec, AdminSpec

(* Nobody ever administers a token whom no admin of it has named.          *)
THEOREM TokenAdminChosen == Spec => []AdminWasChosen
BY ImplementsKillswitch, AdminChosen, PTL

(* A token that migrates is never paused or operational again.             *)
THEOREM TokenMigratesForever == Spec => MigratingIsPermanent
BY ImplementsKillswitch, MigratingForever, PTL

-----------------------------------------------------------------------------
(***************************************************************************)
(* Balances and supply stay within 0..MaxUint.  The batch carries numbers  *)
(* and balances of its own, which come back when it ends or fails, and it  *)
(* is under way only while the token is operational.                       *)
(***************************************************************************)
BatchNumbersFit ==
    batch # NoBatch =>
       /\ batch = [msg |-> batch.msg, sender |-> batch.sender, supply |-> batch.supply,
                   saved |-> batch.saved]
       /\ batch.sender \in Address
       /\ batch.supply \in 0..MaxUint
       /\ batch.saved.balance \in [Address -> 0..MaxUint]

NumbersInv == NumbersFit /\ BatchNumbersFit

LEMMA Saturates ==
    ASSUME NEW n \in 0..MaxUint, NEW amount \in Nat
    PROVE  /\ SafeAdd(n, amount) \in 0..MaxUint
           /\ SafeAdd(n, amount) - n \in Nat
           /\ SafeAdd(n, amount) - n <= amount
BY Snip20Assumption DEF SafeAdd

LEMMA Credits ==
    ASSUME NEW b \in [Address -> 0..MaxUint], NEW a \in Address, NEW amount \in Nat
    PROVE  AddBalance(b, a, amount) \in [Address -> 0..MaxUint]
<1>1. SafeAdd(b[a], amount) \in 0..MaxUint
  BY Saturates
<1> QED BY <1>1 DEF AddBalance

LEMMA Debits ==
    ASSUME NEW b \in [Address -> 0..MaxUint], NEW a \in Address, NEW amount \in Nat,
           b[a] >= amount
    PROVE  /\ SubtractBalance(b, a, amount) \in [Address -> 0..MaxUint]
           /\ \A c \in Address : SubtractBalance(b, a, amount)[c] <= b[c]
BY Snip20Assumption DEF SubtractBalance

LEMMA Amounts == Amount \subseteq Nat /\ MaxUint \in Nat
BY Snip20Assumption

LEMMA Moves ==
    ASSUME NumbersFit, NEW from \in Address, NEW to \in Address, NEW amount \in Nat,
           PerformTransfer(from, to, amount)
    PROVE  balance' \in [Address -> 0..MaxUint]
<1>1. SubtractBalance(balance, from, amount) \in [Address -> 0..MaxUint]
  BY Debits DEF NumbersFit, PerformTransfer, CanPay
<1> QED BY <1>1, Credits DEF PerformTransfer

LEMMA LedgerFits ==
    ASSUME NumbersInv, NEW sender \in Address, Ledger(sender)
    PROVE  NumbersFit' /\ batch = NoBatch /\ batch' = NoBatch
<1> USE Amounts
<1>1. balance \in [Address -> 0..MaxUint] /\ supply \in 0..MaxUint
  BY DEF NumbersInv, NumbersFit
<1>2. ASSUME NEW funds \in Funds, NEW decoys \in Disguises, Deposit(sender, funds, decoys)
      PROVE  NumbersFit' /\ batch = NoBatch /\ batch' = NoBatch
  <2> DEFINE added == SafeAdd(supply, Total(funds)) - supply
  <2>1. added \in Nat /\ supply + added \in 0..MaxUint
    <3>1. Total(funds) \in Nat
      BY <1>2 DEF Deposit
    <3>2. SafeAdd(supply, Total(funds)) \in 0..MaxUint
      BY <1>1, <3>1, Saturates
    <3>3. SafeAdd(supply, Total(funds)) - supply \in Nat
      BY <1>1, <3>1, Saturates
    <3> QED BY <3>2, <3>3, <1>1
  <2>2. supply' = supply + added /\ balance' = AddBalance(balance, sender, added)
    BY <1>2 DEF Deposit
  <2>3. balance' \in [Address -> 0..MaxUint]
    BY <1>1, <2>1, <2>2, Credits
  <2> QED BY <1>2, <2>1, <2>2, <2>3 DEF NumbersFit, Deposit, Handles
<1>3. ASSUME NEW amount \in Amount, NEW denom, NEW decoys \in Disguises,
             Redeem(sender, amount, denom, decoys) \/ Burn(sender, amount, decoys)
      PROVE  NumbersFit' /\ batch = NoBatch /\ batch' = NoBatch
  <2>1. balance[sender] >= amount /\ balance' = SubtractBalance(balance, sender, amount)
    BY <1>3 DEF Redeem, Burn, CanPay
  <2>2. balance' \in [Address -> 0..MaxUint]
    BY <1>1, <2>1, Debits
  <2>3. supply >= amount /\ supply' = supply - amount /\ batch = NoBatch /\ batch' = batch
    BY <1>3 DEF Redeem, Burn, Handles
  <2>4. supply' \in 0..MaxUint
    BY <1>1, <2>3
  <2> QED BY <2>2, <2>3, <2>4 DEF NumbersFit
<1>4. ASSUME NEW amount \in Amount, NEW decoys \in Disguises,
             NEW owner \in Address, NEW recipient \in Address,
             \/ Transfer(sender, recipient, amount, decoys)
             \/ TransferFrom(sender, owner, recipient, amount, decoys)
      PROVE  NumbersFit' /\ batch = NoBatch /\ batch' = NoBatch
  <2>1. \E from \in Address : PerformTransfer(from, recipient, amount)
    BY <1>4 DEF Transfer, TransferImpl, TransferFrom, TransferFromImpl
  <2>2. balance' \in [Address -> 0..MaxUint]
    BY <2>1, Moves DEF NumbersInv
  <2>3. supply' = supply /\ batch = NoBatch /\ batch' = batch
    BY <1>4 DEF Transfer, TransferImpl, TransferFrom, TransferFromImpl, Handles
  <2> QED BY <1>1, <2>2, <2>3 DEF NumbersFit
<1>5. ASSUME NEW amount \in Amount, NEW decoys \in Disguises, NEW recipient \in Address,
             Mint(sender, recipient, amount, decoys)
      PROVE  NumbersFit' /\ batch = NoBatch /\ batch' = NoBatch
  <2>1. SafeAdd(supply, amount) \in 0..MaxUint /\ SafeAdd(supply, amount) - supply \in Nat
    BY <1>1, Saturates
  <2>2. /\ supply' = SafeAdd(supply, amount)
        /\ balance' = AddBalance(balance, recipient, supply' - supply)
        /\ batch = NoBatch /\ batch' = batch
    BY <1>5 DEF Mint, MintImpl, Handles
  <2>3. balance' \in [Address -> 0..MaxUint]
    BY <1>1, <2>1, <2>2, Credits
  <2> QED BY <2>1, <2>2, <2>3 DEF NumbersFit
<1>6. ASSUME NEW amount \in Amount, NEW decoys \in Disguises, NEW owner \in Address,
             BurnFrom(sender, owner, amount, decoys)
      PROVE  NumbersFit' /\ batch = NoBatch /\ batch' = NoBatch
  <2>1. balance[owner] >= amount /\ balance' = SubtractBalance(balance, owner, amount)
    BY <1>6 DEF BurnFrom, BurnFromImpl, CanPay
  <2>2. balance' \in [Address -> 0..MaxUint]
    BY <1>1, <2>1, Debits
  <2>3. supply >= amount /\ supply' = supply - amount /\ batch = NoBatch /\ batch' = batch
    BY <1>6 DEF BurnFrom, Handles
  <2>4. supply' \in 0..MaxUint
    BY <1>1, <2>3
  <2> QED BY <2>2, <2>3, <2>4 DEF NumbersFit
<1> QED BY <1>2, <1>3, <1>4, <1>5, <1>6 DEF Ledger

LEMMA BatchFits ==
    ASSUME NumbersInv, Batch
    PROVE  NumbersInv'
<1> USE Amounts
<1>1. balance \in [Address -> 0..MaxUint] /\ supply \in 0..MaxUint
  BY DEF NumbersInv, NumbersFit
<1>2. ASSUME NEW msg \in Batches, NEW sender \in Address, BeginBatch(msg, sender)
      PROVE  NumbersInv'
  BY <1>1, <1>2 DEF BeginBatch, NumbersInv, NumbersFit, BatchNumbersFit, balanceVars
<1>3. ASSUME batch # NoBatch, NEW held \in 0..MaxUint, NextAction(held),
             balance' \in [Address -> 0..MaxUint]
      PROVE  NumbersInv'
  <2>1. batch' = [msg |-> batch.msg, sender |-> batch.sender, supply |-> held,
                  saved |-> batch.saved]
    BY <1>3 DEF NextAction, NumbersInv, BatchNumbersFit
  <2> QED BY <1>1, <1>3, <2>1 DEF NextAction, NumbersInv, NumbersFit, BatchNumbersFit
<1>4. ASSUME batch # NoBatch
      PROVE  batch.supply \in 0..MaxUint
  BY <1>4 DEF NumbersInv, BatchNumbersFit
<1>5. ASSUME NEW amount \in Amount, NEW decoys \in Disguises,
             NEW owner \in Address, NEW recipient \in Address,
             \/ BatchTransfer(recipient, amount, decoys)
             \/ BatchTransferFrom(owner, recipient, amount, decoys)
      PROVE  NumbersInv'
  <2>1. batch # NoBatch /\ NextAction(batch.supply)
    BY <1>5 DEF BatchTransfer, BatchTransferFrom, InBatch
  <2>2. \E from \in Address : PerformTransfer(from, recipient, amount)
    <3>1. CASE BatchTransferFrom(owner, recipient, amount, decoys)
      BY <3>1 DEF BatchTransferFrom, TransferFromImpl
    <3>2. CASE BatchTransfer(recipient, amount, decoys)
      BY <3>2, <2>1 DEF BatchTransfer, TransferImpl, NumbersInv, BatchNumbersFit
    <3> QED BY <1>5, <3>1, <3>2
  <2>3. balance' \in [Address -> 0..MaxUint]
    BY <2>2, Moves DEF NumbersInv
  <2> QED BY <1>3, <1>4, <2>1, <2>3
<1>6. ASSUME NEW amount \in Amount, NEW decoys \in Disguises, NEW recipient \in Address,
             BatchMint(recipient, amount, decoys)
      PROVE  NumbersInv'
  <2> DEFINE held == SafeAdd(batch.supply, amount)
  <2>1. batch # NoBatch /\ NextAction(held)
    BY <1>6 DEF BatchMint, InBatch
  <2>2. held \in 0..MaxUint /\ held - batch.supply \in Nat
    BY <1>4, <2>1, Saturates
  <2>3. balance' = AddBalance(balance, recipient, held - batch.supply)
    BY <1>6 DEF BatchMint, MintImpl
  <2>4. balance' \in [Address -> 0..MaxUint]
    BY <1>1, <2>2, <2>3, Credits
  <2> QED BY <1>3, <2>1, <2>2, <2>4
<1>7. ASSUME NEW amount \in Amount, NEW decoys \in Disguises, NEW owner \in Address,
             BatchBurnFrom(owner, amount, decoys)
      PROVE  NumbersInv'
  <2>1. batch # NoBatch /\ NextAction(batch.supply - amount) /\ batch.supply >= amount
    BY <1>7 DEF BatchBurnFrom, InBatch
  <2>2. balance[owner] >= amount /\ balance' = SubtractBalance(balance, owner, amount)
    BY <1>7 DEF BatchBurnFrom, BurnFromImpl, CanPay
  <2>3. balance' \in [Address -> 0..MaxUint]
    BY <1>1, <2>2, Debits
  <2>4. batch.supply - amount \in 0..MaxUint
    BY <1>4, <2>1
  <2> QED BY <1>3, <2>1, <2>3, <2>4
<1>8. ASSUME EndBatch \/ FailBatch
      PROVE  NumbersInv'
  BY <1>1, <1>8 DEF EndBatch, FailBatch, NumbersInv, NumbersFit, BatchNumbersFit
<1> QED BY <1>2, <1>5, <1>6, <1>7, <1>8 DEF Batch

LEMMA InitFits == Init => NumbersInv
BY Snip20Assumption DEF Init, NumbersInv, NumbersFit, BatchNumbersFit

(* Only the ledger and the batches touch balances, supply and batch.       *)
LEMMA OthersKeepBalances ==
    ASSUME [Next]_vars
    PROVE  \/ \E sender \in Address : Ledger(sender)
           \/ Batch
           \/ UNCHANGED <<balanceVars, batch>>
<1>1. ASSUME NEW sender \in Address, Allowance(sender)
      PROVE  UNCHANGED <<balanceVars, batch>>
  BY <1>1 DEF Allowance, IncreaseAllowance, DecreaseAllowance, balanceVars
<1>2. ASSUME NEW sender \in Address, Administration(sender)
      PROVE  UNCHANGED <<balanceVars, batch>>
  BY <1>2 DEF Administration, AddMinters, RemoveMinters, SetMinters, AddSupportedDenoms,
              RemoveSupportedDenoms, ChangeMinters, ChangeDenoms, Administers, TokenStatus,
              TokenAdmin, balanceVars
<1>3. ASSUME Tick \/ Refused \/ UNCHANGED vars
      PROVE  UNCHANGED <<balanceVars, batch>>
  BY <1>3 DEF Tick, Refused, vars, balanceVars
<1> QED BY <1>1, <1>2, <1>3 DEF Next

LEMMA NextFits == NumbersInv /\ [Next]_vars => NumbersInv'
<1> SUFFICES ASSUME NumbersInv, [Next]_vars
             PROVE  NumbersInv'
  OBVIOUS
<1>1. ASSUME NEW sender \in Address, Ledger(sender)
      PROVE  NumbersInv'
  BY <1>1, LedgerFits DEF NumbersInv, BatchNumbersFit
<1>2. ASSUME UNCHANGED <<balanceVars, batch>>
      PROVE  NumbersInv'
  BY <1>2 DEF NumbersInv, NumbersFit, BatchNumbersFit, balanceVars
<1> QED BY <1>1, <1>2, BatchFits, OthersKeepBalances

(* No message, and no action of a batch, leaves a balance or the supply    *)
(* outside of what the stored type holds: nothing wraps, nothing is        *)
(* overdrawn.                                                              *)
THEOREM NumbersAlwaysFit == Spec => []NumbersInv
BY InitFits, NextFits, PTL DEF Spec

-----------------------------------------------------------------------------
(***************************************************************************)
(* What the guard lets through.  A batch begins while the token is         *)
(* operational, and nothing changes the status before it ends.             *)
(***************************************************************************)
BatchIsGuarded == batch # NoBatch => status = Operational

LEMMA StatusesDiffer == /\ Paused \notin Migrating
                        /\ Operational # Paused
                        /\ Operational \notin Migrating
BY DEF Paused, Migrating, Operational

LEMMA BatchAlwaysGuarded == Spec => []BatchIsGuarded
<1>1. Init => BatchIsGuarded
  BY DEF Init, BatchIsGuarded
<1>2. BatchIsGuarded /\ [Next]_vars => BatchIsGuarded'
  <2> SUFFICES ASSUME BatchIsGuarded, [Next]_vars
               PROVE  BatchIsGuarded'
    OBVIOUS
  <2>1. ASSUME batch' = NoBatch
        PROVE  BatchIsGuarded'
    BY <2>1 DEF BatchIsGuarded
  <2>2. ASSUME NEW sender \in Address, Ledger(sender) \/ Allowance(sender)
        PROVE  batch' = NoBatch
    BY <2>2 DEF Ledger, Allowance, Deposit, Redeem, Burn, Transfer, Mint, BurnFrom,
                TransferFrom, IncreaseAllowance, DecreaseAllowance, Handles
  <2>3. ASSUME NEW sender \in Address, Administration(sender)
        PROVE  batch' = NoBatch
    BY <2>3 DEF Administration, AddMinters, RemoveMinters, SetMinters, AddSupportedDenoms,
                RemoveSupportedDenoms, ChangeMinters, ChangeDenoms, Administers, TokenStatus,
                TokenAdmin, Handles
  <2>4. ASSUME NEW msg \in Batches, NEW sender \in Address, BeginBatch(msg, sender)
        PROVE  BatchIsGuarded'
    BY <2>4 DEF BeginBatch, Handles, Guard, Batches, BatchIsGuarded, configVars
  <2>5. ASSUME NEW held, NextAction(held), batch # NoBatch
        PROVE  BatchIsGuarded'
    BY <2>5 DEF NextAction, BatchIsGuarded, configVars
  <2>6. ASSUME Batch
        PROVE  BatchIsGuarded'
    BY <2>1, <2>4, <2>5, <2>6 DEF Batch, BatchTransfer, BatchTransferFrom, BatchMint,
                BatchBurnFrom, InBatch, EndBatch, FailBatch
  <2>7. ASSUME Tick \/ Refused \/ UNCHANGED vars
        PROVE  BatchIsGuarded'
    BY <2>7 DEF Tick, Refused, vars, configVars, BatchIsGuarded
  <2> QED BY <2>1, <2>2, <2>3, <2>6, <2>7 DEF Next
<1> QED BY <1>1, <1>2, PTL DEF Spec

Frozen == /\ \A a \in Address : balance'[a] <= balance[a]
          /\ UNCHANGED <<allowanceVars, minters, denoms>>
          /\ status \in Migrating => UNCHANGED <<balanceVars, admin>>

LEMMA NothingMoves ==
    ASSUME NumbersInv, UNCHANGED <<balanceVars, allowanceVars, minters, denoms>>,
           status \in Migrating => UNCHANGED admin
    PROVE  Frozen
BY Amounts DEF NumbersInv, NumbersFit, balanceVars, Frozen

LEMMA NextIsFrozen ==
    ASSUME NumbersInv, BatchIsGuarded, [Next]_vars, status # Operational
    PROVE  Frozen
<1>1. ASSUME NEW sender \in Address, Ledger(sender)
      PROVE  Frozen
  <2>1. PICK amount \in Amount, denom \in Denom \cup {None}, decoys \in Disguises :
           Redeem(sender, amount, denom, decoys)
    BY <1>1 DEF Ledger, Deposit, Burn, Transfer, Mint, BurnFrom, TransferFrom, Handles, Guard
  <2>2. status = Paused
    BY <2>1 DEF Redeem, Handles, Guard
  <2>3. \A a \in Address : balance'[a] <= balance[a]
    BY <2>1, Amounts, Debits DEF Redeem, CanPay, NumbersInv, NumbersFit
  <2> QED BY <2>1, <2>2, <2>3, StatusesDiffer DEF Redeem, configVars, Frozen
<1>2. ASSUME NEW sender \in Address, Allowance(sender)
      PROVE  FALSE
  BY <1>2 DEF Allowance, IncreaseAllowance, DecreaseAllowance, Handles, Guard
<1>3. ASSUME NEW sender \in Address, Administration(sender)
      PROVE  Frozen
  <2>1. CASE \E new \in ContractStatus : TokenStatus(sender, new)
    BY <2>1, NothingMoves DEF TokenStatus, SetStatus
  <2>2. CASE TokenAdmin(sender)
    <3>1. status = Paused
      BY <2>2 DEF TokenAdmin, Handles, Guard
    <3> QED BY <2>2, <3>1, StatusesDiffer, NothingMoves DEF TokenAdmin
  <2> QED BY <1>3, <2>1, <2>2 DEF Administration, AddMinters, RemoveMinters, SetMinters,
             AddSupportedDenoms, RemoveSupportedDenoms, ChangeMinters, ChangeDenoms,
             Administers, Handles, Guard
<1>4. ASSUME Batch
      PROVE  FALSE
  <2>1. batch = NoBatch
    BY DEF BatchIsGuarded
  <2>2. ASSUME NEW msg \in Batches, NEW sender \in Address, BeginBatch(msg, sender)
        PROVE  FALSE
    BY <2>2 DEF BeginBatch, Handles, Guard, Batches
  <2> QED BY <1>4, <2>1, <2>2 DEF Batch, BatchTransfer, BatchTransferFrom, BatchMint,
             BatchBurnFrom, InBatch, EndBatch, FailBatch
<1>5. CASE Tick \/ Refused \/ UNCHANGED vars
  BY <1>5, NothingMoves DEF Tick, Refused, vars, configVars, adminVars
<1> QED BY <1>1, <1>2, <1>3, <1>4, <1>5 DEF Next

(* While the token is paused, balances only shrink, by redemptions, and    *)
(* while it migrates nothing moves: the list of messages in the guard      *)
(* leaves no way around, batches included.                                 *)
THEOREM FrozenAlways == Spec => FrozenUnlessOperational
<1>1. NumbersInv /\ BatchIsGuarded /\ [Next]_vars
      => [(status # Operational) =>
             /\ \A a \in Address : balance'[a] <= balance[a]
             /\ UNCHANGED <<allowanceVars, minters, denoms>>
             /\ status \in Migrating => UNCHANGED <<balanceVars, admin>>]_vars
  BY NextIsFrozen DEF Frozen
<1> QED BY <1>1, NumbersAlwaysFit, BatchAlwaysGuarded, PTL DEF Spec, FrozenUnlessOperational

-----------------------------------------------------------------------------
(***************************************************************************)
(* The storages of the allowances.  Consistent is inductive once the three *)
(* storages have their types; a batch that fails brings back the ones from *)
(* before it, which must be as good.                                       *)
(***************************************************************************)
AllowanceType == [amount : 0..MaxUint, expiration : Expirations]
EntryType     == [spender : Address, allowance : AllowanceType]
LenderType    == [lender : Address, index : Nat]

Stored(entries, index, lenders) ==
    /\ entries \in [Address -> Seq(EntryType)]
    /\ index \in [Address -> [Address -> Nat \cup {None}]]
    /\ lenders \in [Address -> Seq(LenderType)]

Sound(entries, index, lenders) == /\ Stored(entries, index, lenders)
                                  /\ Consistent(entries, index, lenders)

LEMMA NoneIsNoNumber == None \notin Nat
BY Snip20Assumption

LEMMA Appended ==
    ASSUME NEW S, NEW q \in Seq(S), NEW e \in S
    PROVE  /\ Append(q, e) \in Seq(S)
           /\ Len(q) \in Nat
           /\ DOMAIN q = 1..Len(q)
           /\ DOMAIN Append(q, e) = 1..(Len(q) + 1)
           /\ \A i \in 1..Len(q) : Append(q, e)[i] = q[i]
           /\ Append(q, e)[Len(q) + 1] = e
OBVIOUS

\* f with e appended at a is g.
Extends(S, f, a, e, g) ==
    /\ g \in [Address -> Seq(S)]
    /\ DOMAIN g[a] = 1..(Len(f[a]) + 1)
    /\ g[a][Len(f[a]) + 1] = e
    /\ \A b \in Address : /\ Len(f[b]) \in Nat
                          /\ DOMAIN f[b] = 1..Len(f[b])
                          /\ DOMAIN f[b] \subseteq DOMAIN g[b]
                          /\ \A i \in DOMAIN f[b] : g[b][i] = f[b][i]
                          /\ b # a => DOMAIN g[b] = DOMAIN f[b]

LEMMA AppendedAt ==
    ASSUME NEW S, NEW f \in [Address -> Seq(S)], NEW a \in Address, NEW e \in S,
           NEW g, g = [f EXCEPT ![a] = Append(f[a], e)]
    PROVE  Extends(S, f, a, e, g)
<1>1. f[a] \in Seq(S) /\ Append(f[a], e) \in Seq(S)
  BY Appended
<1>2. g[a] = Append(f[a], e) /\ \A b \in Address \ {a} : g[b] = f[b]
  OBVIOUS
<1>3. /\ g \in [Address -> Seq(S)]
      /\ g[a][Len(f[a]) + 1] = e
      /\ DOMAIN g[a] = 1..(Len(f[a]) + 1)
  BY <1>1, <1>2, Appended
<1>4. ASSUME NEW b \in Address
      PROVE  /\ Len(f[b]) \in Nat
             /\ DOMAIN f[b] = 1..Len(f[b])
             /\ DOMAIN f[b] \subseteq DOMAIN g[b]
             /\ \A i \in DOMAIN f[b] : g[b][i] = f[b][i]
             /\ b # a => DOMAIN g[b] = DOMAIN f[b]
  <2>1. f[b] \in Seq(S) /\ Len(f[b]) \in Nat /\ DOMAIN f[b] = 1..Len(f[b])
    OBVIOUS
  <2>2. CASE b = a
    BY <1>1, <1>2, <2>1, <2>2, Appended
  <2>3. CASE b # a
    BY <1>2, <2>1, <2>3
  <2> QED BY <2>2, <2>3
<1> QED BY <1>3, <1>4 DEF Extends

LEMMA Replaced ==
    ASSUME NEW q \in Seq(EntryType), NEW n \in DOMAIN q, NEW new \in AllowanceType
    PROVE  /\ [q EXCEPT ![n].allowance = new] \in Seq(EntryType)
           /\ DOMAIN [q EXCEPT ![n].allowance = new] = DOMAIN q
           /\ \A i \in DOMAIN q : [q EXCEPT ![n].allowance = new][i].spender = q[i].spender
           /\ \A i \in DOMAIN q \ {n} : [q EXCEPT ![n].allowance = new][i] = q[i]
<1> DEFINE entry == [q[n] EXCEPT !.allowance = new]
           r     == [q EXCEPT ![n] = entry]
<1>1. q[n] \in EntryType
  OBVIOUS
<1>2. entry \in EntryType /\ entry.spender = q[n].spender
  BY <1>1 DEF EntryType
<1>3. r = [q EXCEPT ![n].allowance = new]
  OBVIOUS
<1> HIDE DEF entry
<1>4. /\ r \in Seq(EntryType)
      /\ DOMAIN r = DOMAIN q
      /\ \A i \in DOMAIN q : r[i] = IF i = n THEN entry ELSE q[i]
  BY <1>2
<1> HIDE DEF r
<1> QED BY <1>2, <1>3, <1>4

LEMMA AppendIsSound ==
    ASSUME NEW entries, NEW index, NEW lenders, Sound(entries, index, lenders),
           NEW owner \in Address, NEW spender \in Address, NEW new \in AllowanceType,
           index[owner][spender] = None
    PROVE  Sound([entries EXCEPT ![owner] =
                      Append(@, [spender |-> spender, allowance |-> new])],
                 [index EXCEPT ![owner][spender] = Len(entries[owner])],
                 [lenders EXCEPT ![spender] =
                      Append(@, [lender |-> owner, index |-> Len(entries[owner])])])
<1> DEFINE entry    == [spender |-> spender, allowance |-> new]
           lender   == [lender |-> owner, index |-> Len(entries[owner])]
           entries2 == [entries EXCEPT ![owner] = Append(entries[owner], entry)]
           index2   == [index EXCEPT ![owner][spender] = Len(entries[owner])]
           lenders2 == [lenders EXCEPT ![spender] = Append(lenders[spender], lender)]
<1>1. Stored(entries, index, lenders) /\ Consistent(entries, index, lenders)
  BY DEF Sound
<1>2. /\ \A o \in Address : entries[o] \in Seq(EntryType) /\ Len(entries[o]) \in Nat
      /\ \A s \in Address : lenders[s] \in Seq(LenderType)
      /\ \A o, s \in Address : index[o][s] \in Nat \cup {None}
  BY <1>1 DEF Stored
<1>3. entry \in EntryType /\ entry.spender = spender
  BY DEF EntryType
<1>4. lender \in LenderType /\ lender.lender = owner /\ lender.index = Len(entries[owner])
  BY <1>2 DEF LenderType
<1> HIDE DEF entry, lender
<1>5. Extends(EntryType, entries, owner, entry, entries2)
  <2>1. entries \in [Address -> Seq(EntryType)]
    BY <1>1 DEF Stored
  <2>2. entries2 = [entries EXCEPT ![owner] = Append(entries[owner], entry)]
    OBVIOUS
  <2> HIDE DEF entries2
  <2> QED BY <2>1, <2>2, <1>3, AppendedAt
<1>6. Extends(LenderType, lenders, spender, lender, lenders2)
  <2>1. lenders \in [Address -> Seq(LenderType)]
    BY <1>1 DEF Stored
  <2>2. lenders2 = [lenders EXCEPT ![spender] = Append(lenders[spender], lender)]
    OBVIOUS
  <2> HIDE DEF lenders2
  <2> QED BY <2>1, <2>2, <1>4, AppendedAt
<1>7. /\ index2 \in [Address -> [Address -> Nat \cup {None}]]
      /\ \A o, s \in Address : index2[o][s] = IF o = owner /\ s = spender
                                              THEN Len(entries[o])
                                              ELSE index[o][s]
  BY <1>1, <1>2 DEF Stored
<1>8. Stored(entries2, index2, lenders2)
  BY <1>5, <1>6, <1>7 DEF Stored, Extends
<1> HIDE DEF entries2, index2, lenders2
<1>9. ASSUME NEW o \in Address, NEW s \in Address
      PROVE  ConsistentFor(entries2, index2, lenders2, o, s)
  <2>1. ConsistentFor(entries, index, lenders, o, s)
    BY <1>1 DEF Consistent
  <2>2. /\ DOMAIN entries[o] \subseteq DOMAIN entries2[o]
        /\ \A i \in DOMAIN entries[o] : entries2[o][i] = entries[o][i]
    BY <1>5 DEF Extends
  <2>3. /\ DOMAIN lenders[s] \subseteq DOMAIN lenders2[s]
        /\ \A i \in DOMAIN lenders[s] : lenders2[s][i] = lenders[s][i]
    BY <1>6 DEF Extends
  <2>4. CASE o = owner /\ s = spender
    <3> DEFINE k == Len(lenders[s]) + 1
    <3>1. \A i \in DOMAIN lenders[s] : lenders[s][i].lender # o
      BY <2>1, <2>4 DEF ConsistentFor
    <3>2. /\ Len(lenders[s]) \in Nat
          /\ DOMAIN lenders[s] = 1..Len(lenders[s])
          /\ DOMAIN lenders2[s] = 1..k
          /\ lenders2[s][k] = lender
      BY <1>6, <2>4 DEF Extends
    <3>3. \A i \in DOMAIN lenders2[s] : i = k \/ i \in DOMAIN lenders[s]
      BY <3>2
    <3>4. k \in DOMAIN lenders2[s]
      BY <3>2
    <3>5. \A i \in DOMAIN lenders2[s] : lenders2[s][i].lender = o <=> i = k
      BY <1>4, <2>3, <2>4, <3>1, <3>2, <3>3
    <3>6. {i \in DOMAIN lenders2[s] : lenders2[s][i].lender = o} = {k}
      BY <3>4, <3>5
    <3>7. /\ Len(entries[o]) + 1 \in DOMAIN entries2[o]
          /\ entries2[o][Len(entries[o]) + 1].spender = s
      BY <1>2, <1>3, <1>5, <2>4 DEF Extends
    <3>8. index2[o][s] = Len(entries[o]) /\ Len(entries[o]) # None
      BY <1>2, <1>7, <2>4, NoneIsNoNumber
    <3>9. lenders2[s][k].index = Len(entries[o])
      BY <1>4, <2>4, <3>2
    <3> HIDE DEF k
    <3> QED BY <3>4, <3>6, <3>7, <3>8, <3>9 DEF ConsistentFor
  <2>5. CASE ~(o = owner /\ s = spender)
    <3>1. index2[o][s] = index[o][s]
      BY <1>7, <2>5
    <3>2. \A i \in DOMAIN lenders2[s] \ DOMAIN lenders[s] : lenders2[s][i].lender # o
      <4>1. CASE s = spender
        <5>1. /\ \A i \in DOMAIN lenders2[s] \ DOMAIN lenders[s] : i = Len(lenders[s]) + 1
              /\ lenders2[s][Len(lenders[s]) + 1] = lender
          BY <1>6, <4>1 DEF Extends
        <5> QED BY <1>4, <2>5, <4>1, <5>1
      <4>2. CASE s # spender
        BY <1>6, <4>2 DEF Extends
      <4> QED BY <4>1, <4>2
    <3>3. {i \in DOMAIN lenders2[s] : lenders2[s][i].lender = o}
          = {i \in DOMAIN lenders[s] : lenders[s][i].lender = o}
      BY <2>3, <3>2
    <3> QED BY <2>1, <2>2, <2>3, <3>1, <3>3 DEF ConsistentFor
  <2> QED BY <2>4, <2>5
<1>10. ASSUME NEW o \in Address, NEW i \in DOMAIN entries2[o]
       PROVE  index2[o][entries2[o][i].spender] = i - 1
  <2>1. \A j \in DOMAIN entries[o] : index[o][entries[o][j].spender] = j - 1
    BY <1>1 DEF Consistent
  <2>2. CASE i \in DOMAIN entries[o]
    <3>1. entries2[o][i] = entries[o][i] /\ DOMAIN entries[o] = 1..Len(entries[o])
      BY <1>5, <2>2 DEF Extends
    <3>2. entries[o][i] \in EntryType /\ i - 1 \in Nat
      BY <1>2, <2>2, <3>1
    <3>3. entries[o][i].spender \in Address
      BY <3>2 DEF EntryType
    <3>4. index[o][entries[o][i].spender] # None
      BY <2>1, <2>2, <3>2, NoneIsNoNumber
    <3> QED BY <1>7, <2>1, <2>2, <3>1, <3>3, <3>4
  <2>3. CASE i \notin DOMAIN entries[o]
    <3>1. o = owner /\ i = Len(entries[o]) + 1 /\ entries2[o][i] = entry
      BY <1>2, <1>5, <2>3 DEF Extends
    <3> QED BY <1>2, <1>3, <1>7, <3>1
  <2> QED BY <2>2, <2>3
<1>11. Consistent(entries2, index2, lenders2)
  BY <1>9, <1>10 DEF Consistent
<1> QED BY <1>8, <1>11 DEF Sound, entries2, index2, lenders2, entry, lender

LEMMA ReplaceIsSound ==
    ASSUME NEW entries, NEW index, NEW lenders, Sound(entries, index, lenders),
           NEW owner \in Address, NEW spender \in Address, NEW new \in AllowanceType,
           index[owner][spender] # None
    PROVE  Sound([entries EXCEPT ![owner][index[owner][spender] + 1].allowance = new],
                 index, lenders)
<1> DEFINE n        == index[owner][spender] + 1
           replaced == [entries[owner] EXCEPT ![n].allowance = new]
           entries2 == [entries EXCEPT ![owner] = replaced]
<1>1. Stored(entries, index, lenders) /\ Consistent(entries, index, lenders)
  BY DEF Sound
<1>2. entries[owner] \in Seq(EntryType) /\ n \in DOMAIN entries[owner]
  <2>1. ConsistentFor(entries, index, lenders, owner, spender)
    BY <1>1 DEF Consistent
  <2> QED BY <1>1, <2>1 DEF Stored, ConsistentFor
<1> HIDE DEF n
<1>3. /\ replaced \in Seq(EntryType)
      /\ DOMAIN replaced = DOMAIN entries[owner]
      /\ \A i \in DOMAIN entries[owner] : replaced[i].spender = entries[owner][i].spender
  BY <1>2, Replaced
<1> HIDE DEF replaced
<1>4. Stored(entries2, index, lenders)
  BY <1>1, <1>3 DEF Stored
<1>5. \A o \in Address :
         /\ DOMAIN entries2[o] = DOMAIN entries[o]
         /\ \A i \in DOMAIN entries[o] : entries2[o][i].spender = entries[o][i].spender
  BY <1>1, <1>3 DEF Stored
<1> HIDE DEF entries2
<1>6. \A o, s \in Address : ConsistentFor(entries2, index, lenders, o, s)
  BY <1>1, <1>5 DEF Consistent, ConsistentFor
<1>7. \A o \in Address : \A i \in DOMAIN entries2[o] : index[o][entries2[o][i].spender] = i - 1
  BY <1>1, <1>5 DEF Consistent
<1>8. Consistent(entries2, index, lenders)
  BY <1>6, <1>7 DEF Consistent
<1>9. entries2 = [entries EXCEPT ![owner][index[owner][spender] + 1].allowance = new]
  BY DEF entries2, replaced, n
<1> QED BY <1>4, <1>8, <1>9 DEF Sound

AllowancesInv ==
    /\ Sound(allowances, indices, allowed)
    /\ batch # NoBatch =>
          /\ batch = [msg |-> batch.msg, sender |-> batch.sender, supply |-> batch.supply,
                      saved |-> batch.saved]
          /\ batch.msg \in Batches /\ batch.sender \in Address
          /\ Sound(batch.saved.allowances, batch.saved.indices, batch.saved.allowed)

LEMMA SoundAllowance ==
    ASSUME NEW entries, NEW index, NEW lenders, Sound(entries, index, lenders),
           NEW owner \in Address, NEW spender \in Address
    PROVE  AllowanceIn(entries, index, owner, spender) \in AllowanceType
<1>1. NoAllowance \in AllowanceType
  BY Snip20Assumption DEF NoAllowance, AllowanceType, Expirations
<1>2. ASSUME index[owner][spender] # None
      PROVE  entries[owner][index[owner][spender] + 1].allowance \in AllowanceType
  <2>1. /\ index[owner][spender] + 1 \in DOMAIN entries[owner]
        /\ entries[owner] \in Seq(EntryType)
    <3>1. ConsistentFor(entries, index, lenders, owner, spender)
      BY DEF Sound, Consistent
    <3>2. entries[owner] \in Seq(EntryType)
      BY DEF Sound, Stored
    <3> QED BY <1>2, <3>1, <3>2 DEF ConsistentFor
  <2>2. entries[owner][index[owner][spender] + 1] \in EntryType
    BY <2>1
  <2> QED BY <2>2 DEF EntryType
<1> QED BY <1>1, <1>2 DEF AllowanceIn

LEMMA KnownAllowance ==
    ASSUME AllowancesInv, NEW owner \in Address, NEW spender \in Address
    PROVE  AllowanceOf(owner, spender) \in AllowanceType
BY SoundAllowance DEF AllowancesInv, AllowanceOf

LEMMA UpdateIsSound ==
    ASSUME AllowancesInv, NEW owner \in Address, NEW spender \in Address,
           NEW new \in AllowanceType, UpdateAllowance(owner, spender, new)
    PROVE  Sound(allowances', indices', allowed')
<1>1. Sound(allowances, indices, allowed)
  BY DEF AllowancesInv
<1>2. CASE indices[owner][spender] = None
  <2> DEFINE entry  == [spender |-> spender, allowance |-> new]
             lender == [lender |-> owner, index |-> Len(allowances[owner])]
  <2>1. /\ allowances' = [allowances EXCEPT ![owner] = Append(@, entry)]
        /\ indices' = [indices EXCEPT ![owner][spender] = Len(allowances[owner])]
        /\ allowed' = [allowed EXCEPT ![spender] = Append(@, lender)]
    BY <1>2 DEF UpdateAllowance
  <2>2. Sound([allowances EXCEPT ![owner] = Append(@, entry)],
              [indices EXCEPT ![owner][spender] = Len(allowances[owner])],
              [allowed EXCEPT ![spender] = Append(@, lender)])
    BY <1>1, <1>2, AppendIsSound
  <2> QED BY <2>1, <2>2
<1>3. CASE indices[owner][spender] # None
  BY <1>1, <1>3, ReplaceIsSound DEF UpdateAllowance
<1> QED BY <1>2, <1>3

LEMMA UseIsSound ==
    ASSUME AllowancesInv, NEW owner \in Address, NEW spender \in Address, NEW amount \in Amount,
           UseAllowance(owner, spender, amount)
    PROVE  Sound(allowances', indices', allowed')
<1> DEFINE old == AllowanceOf(owner, spender)
           new == [old EXCEPT !.amount = @ - amount]
<1>1. old \in AllowanceType /\ old.amount >= amount /\ UpdateAllowance(owner, spender, new)
  BY KnownAllowance DEF UseAllowance
<1>2. new \in AllowanceType
  BY <1>1, Amounts DEF AllowanceType
<1> HIDE DEF new
<1> QED BY <1>1, <1>2, UpdateIsSound

LEMMA NewAllowance ==
    ASSUME NEW old \in AllowanceType, NEW amount \in Amount, NEW expiration \in Expirations
    PROVE  /\ Increased(old, amount, expiration) \in AllowanceType
           /\ Decreased(old, amount, expiration) \in AllowanceType
<1>1. ASSUME NEW allowance \in AllowanceType
      PROVE  Until(allowance, expiration) \in AllowanceType
  BY DEF Until, AllowanceType
<1>2. Increased(old, amount, expiration) \in AllowanceType
  <2>1. [NoAllowance EXCEPT !.amount = amount] \in AllowanceType
    BY Snip20Assumption DEF NoAllowance, AllowanceType, Expirations
  <2>2. old.amount \in 0..MaxUint /\ amount \in Nat
    BY Amounts DEF AllowanceType
  <2>3. SafeAdd(old.amount, amount) \in 0..MaxUint
    BY <2>2, Saturates
  <2>4. [old EXCEPT !.amount = SafeAdd(@, amount)] \in AllowanceType
    BY <2>3 DEF AllowanceType
  <2> QED BY <1>1, <2>1, <2>4 DEF Increased
<1>3. Decreased(old, amount, expiration) \in AllowanceType
  <2>1. NoAllowance \in AllowanceType
    BY Snip20Assumption DEF NoAllowance, AllowanceType, Expirations
  <2>2. [old EXCEPT !.amount = IF amount > @ THEN 0 ELSE @ - amount] \in AllowanceType
    BY Amounts DEF AllowanceType
  <2> QED BY <1>1, <2>1, <2>2 DEF Decreased
<1> QED BY <1>2, <1>3

LEMMA NewAllowanceIsSound ==
    ASSUME AllowancesInv, NEW sender \in Address, Allowance(sender)
    PROVE  Sound(allowances', indices', allowed') /\ batch = NoBatch /\ batch' = NoBatch
<1>1. PICK spender \in Address, amount \in Amount, expiration \in Expirations :
         \/ IncreaseAllowance(sender, spender, amount, expiration)
         \/ DecreaseAllowance(sender, spender, amount, expiration)
  BY DEF Allowance
<1>2. PICK new \in AllowanceType : UpdateAllowance(sender, spender, new)
  BY <1>1, KnownAllowance, NewAllowance DEF IncreaseAllowance, DecreaseAllowance
<1>3. batch = NoBatch /\ batch' = NoBatch
  BY <1>1 DEF IncreaseAllowance, DecreaseAllowance, Handles
<1> QED BY <1>2, <1>3, UpdateIsSound

(* A message of the ledger leaves the allowances alone, or spends from one. *)
LEMMA LedgerAllowances ==
    ASSUME NEW sender \in Address, Ledger(sender)
    PROVE  \/ UNCHANGED allowanceVars
           \/ \E owner \in Address, amount \in Amount : UseAllowance(owner, sender, amount)
<1>1. PICK decoys \in Disguises :
         \/ \E funds \in Funds : Deposit(sender, funds, decoys)
         \/ \E amount \in Amount :
               \/ \E denom \in Denom \cup {None} : Redeem(sender, amount, denom, decoys)
               \/ Burn(sender, amount, decoys)
               \/ \E other \in Address :
                     \/ Transfer(sender, other, amount, decoys)
                     \/ Mint(sender, other, amount, decoys)
                     \/ BurnFrom(sender, other, amount, decoys)
                     \/ \E recipient \in Address :
                           TransferFrom(sender, other, recipient, amount, decoys)
  BY DEF Ledger
<1>2. CASE \E funds \in Funds : Deposit(sender, funds, decoys)
  BY <1>2 DEF Deposit
<1>3. ASSUME NEW amount \in Amount, NEW denom, Redeem(sender, amount, denom, decoys)
      PROVE  UNCHANGED allowanceVars
  BY <1>3 DEF Redeem
<1>4. ASSUME NEW amount \in Amount, Burn(sender, amount, decoys)
      PROVE  UNCHANGED allowanceVars
  BY <1>4 DEF Burn
<1>5. ASSUME NEW amount \in Amount, NEW other \in Address
      PROVE  /\ Transfer(sender, other, amount, decoys) => UNCHANGED allowanceVars
             /\ Mint(sender, other, amount, decoys) => UNCHANGED allowanceVars
  BY DEF Transfer, TransferImpl, Mint, MintImpl
<1>6. ASSUME NEW amount \in Amount, NEW other \in Address
      PROVE  /\ BurnFrom(sender, other, amount, decoys) => UseAllowance(other, sender, amount)
             /\ \A recipient \in Address :
                  TransferFrom(sender, other, recipient, amount, decoys)
                    => UseAllowance(other, sender, amount)
  BY DEF BurnFrom, BurnFromImpl, TransferFrom, TransferFromImpl
<1> QED BY <1>1, <1>2, <1>3, <1>4, <1>5, <1>6

LEMMA LedgerIsSound ==
    ASSUME AllowancesInv, NEW sender \in Address, Ledger(sender)
    PROVE  Sound(allowances', indices', allowed') /\ batch = NoBatch /\ batch' = NoBatch
<1>1. batch = NoBatch /\ batch' = NoBatch
  BY DEF Ledger, Deposit, Redeem, Burn, Transfer, Mint, BurnFrom, TransferFrom, Handles
<1>2. CASE \E owner \in Address, amount \in Amount : UseAllowance(owner, sender, amount)
  BY <1>1, <1>2, UseIsSound
<1>3. CASE UNCHANGED allowanceVars
  BY <1>1, <1>3 DEF AllowancesInv, allowanceVars
<1>4. \/ UNCHANGED allowanceVars
      \/ \E owner \in Address, amount \in Amount : UseAllowance(owner, sender, amount)
  BY LedgerAllowances
<1> QED BY <1>2, <1>3, <1>4

LEMMA BatchIsSound ==
    ASSUME AllowancesInv, Batch
    PROVE  AllowancesInv'
<1>1. ASSUME NEW msg \in Batches, NEW sender \in Address, BeginBatch(msg, sender)
      PROVE  AllowancesInv'
  BY <1>1 DEF BeginBatch, AllowancesInv, allowanceVars
<1>2. ASSUME batch # NoBatch, NEW held, NextAction(held), Sound(allowances', indices', allowed')
      PROVE  AllowancesInv'
  <2>1. batch' = [msg |-> batch.msg, sender |-> batch.sender, supply |-> held,
                  saved |-> batch.saved]
    BY <1>2 DEF NextAction, AllowancesInv
  <2> QED BY <1>2, <2>1 DEF AllowancesInv
<1>3. ASSUME NEW amount \in Amount, NEW decoys \in Disguises,
             NEW owner \in Address, NEW recipient \in Address,
             \/ BatchTransferFrom(owner, recipient, amount, decoys)
             \/ BatchBurnFrom(owner, amount, decoys)
      PROVE  AllowancesInv'
  <2>1. batch # NoBatch /\ batch.sender \in Address /\ UseAllowance(owner, batch.sender, amount)
    BY <1>3 DEF BatchTransferFrom, TransferFromImpl, BatchBurnFrom, BurnFromImpl, InBatch,
                AllowancesInv
  <2>2. \E held : NextAction(held)
    BY <1>3 DEF BatchTransferFrom, BatchBurnFrom
  <2> QED BY <1>2, <2>1, <2>2, UseIsSound
<1>4. ASSUME NEW amount \in Amount, NEW decoys \in Disguises, NEW recipient \in Address,
             \/ BatchTransfer(recipient, amount, decoys)
             \/ BatchMint(recipient, amount, decoys)
      PROVE  AllowancesInv'
  <2>1. batch # NoBatch /\ UNCHANGED allowanceVars /\ \E held : NextAction(held)
    BY <1>4 DEF BatchTransfer, TransferImpl, BatchMint, MintImpl, InBatch
  <2>2. Sound(allowances', indices', allowed')
    BY <2>1 DEF AllowancesInv, allowanceVars
  <2> QED BY <1>2, <2>1, <2>2
<1>5. ASSUME EndBatch \/ FailBatch
      PROVE  AllowancesInv'
  BY <1>5 DEF EndBatch, FailBatch, AllowancesInv, allowanceVars
<1> QED BY <1>1, <1>3, <1>4, <1>5 DEF Batch

LEMMA NextIsSound ==
    ASSUME AllowancesInv, [Next]_vars
    PROVE  AllowancesInv'
<1>1. ASSUME NEW sender \in Address, Ledger(sender) \/ Allowance(sender)
      PROVE  AllowancesInv'
  BY <1>1, LedgerIsSound, NewAllowanceIsSound DEF AllowancesInv
<1>2. ASSUME UNCHANGED <<allowanceVars, batch>>
      PROVE  AllowancesInv'
  BY <1>2 DEF AllowancesInv, allowanceVars
<1>3. ASSUME NEW sender \in Address, Administration(sender)
      PROVE  UNCHANGED <<allowanceVars, batch>>
  BY <1>3 DEF Administration, AddMinters, RemoveMinters, SetMinters, AddSupportedDenoms,
              RemoveSupportedDenoms, ChangeMinters, ChangeDenoms, Administers, TokenStatus,
              TokenAdmin, allowanceVars
<1>4. ASSUME Tick \/ Refused \/ UNCHANGED vars
      PROVE  UNCHANGED <<allowanceVars, batch>>
  BY <1>4 DEF Tick, Refused, vars, allowanceVars
<1> QED BY <1>1, <1>2, <1>3, <1>4, BatchIsSound DEF Next

LEMMA InitIsSound == Init => AllowancesInv
<1> SUFFICES ASSUME Init
             PROVE  AllowancesInv
  OBVIOUS
<1>1. Stored(allowances, indices, allowed) /\ batch = NoBatch
  BY DEF Init, Stored
<1>2. Consistent(allowances, indices, allowed)
  BY DEF Init, Consistent, ConsistentFor
<1> QED BY <1>1, <1>2 DEF AllowancesInv, Sound

(* Every allowance is found from the owner and from the spender, once, at  *)
(* the place its index names, after any sequence of messages and batches,  *)
(* failed ones included: what the code unwraps is there.                   *)
THEOREM AllowancesStayConsistent == Spec => []AllowancesConsistent
<1>1. AllowancesInv => AllowancesConsistent
  BY DEF AllowancesInv, Sound, AllowancesConsistent
<1> QED BY <1>1, InitIsSound, NextIsSound, PTL DEF Spec

-----------------------------------------------------------------------------
(***************************************************************************)
(* The refinement.  What the storage says of an allowance changes for one  *)
(* owner and one spender at a time; within a batch only the sender spends, *)
(* and what it has spent so far counts when the batch ends.                *)
(***************************************************************************)
LEMMA UpdateChangesOne ==
    ASSUME AllowancesInv, NEW owner \in Address, NEW spender \in Address,
           NEW new \in AllowanceType, UpdateAllowance(owner, spender, new),
           NEW o \in Address, NEW s \in Address
    PROVE  AllowanceOf(o, s)' = IF o = owner /\ s = spender THEN new ELSE AllowanceOf(o, s)
<1>1. Stored(allowances, indices, allowed) /\ Consistent(allowances, indices, allowed)
  BY DEF AllowancesInv, Sound
<1>2. /\ allowances \in [Address -> Seq(EntryType)]
      /\ indices \in [Address -> [Address -> Nat \cup {None}]]
  BY <1>1 DEF Stored
<1>3. indices[o][s] # None => /\ indices[o][s] \in Nat
                              /\ indices[o][s] + 1 \in DOMAIN allowances[o]
                              /\ allowances[o][indices[o][s] + 1].spender = s
  BY <1>1, <1>2 DEF Consistent, ConsistentFor
<1>4. CASE indices[owner][spender] = None
  <2> DEFINE entry == [spender |-> spender, allowance |-> new]
             k     == Len(allowances[owner])
  <2>1. /\ allowances' = [allowances EXCEPT ![owner] = Append(allowances[owner], entry)]
        /\ indices' = [indices EXCEPT ![owner][spender] = k]
    BY <1>4 DEF UpdateAllowance
  <2>2. entry \in EntryType /\ entry.allowance = new
    BY DEF EntryType
  <2> HIDE DEF entry
  <2>3. Extends(EntryType, allowances, owner, entry, allowances')
    BY <1>2, <2>1, <2>2, AppendedAt
  <2>4. CASE o = owner /\ s = spender
    <3>1. indices'[o][s] = k /\ k # None /\ allowances'[o][k + 1] = entry
      BY <1>2, <2>1, <2>3, <2>4, NoneIsNoNumber DEF Extends
    <3> QED BY <2>2, <2>4, <3>1 DEF AllowanceOf, AllowanceIn
  <2>5. CASE ~(o = owner /\ s = spender)
    <3>1. indices'[o][s] = indices[o][s]
      BY <1>2, <2>1, <2>5
    <3>2. indices[o][s] # None
          => allowances'[o][indices[o][s] + 1] = allowances[o][indices[o][s] + 1]
      BY <1>3, <2>3 DEF Extends
    <3> QED BY <2>5, <3>1, <3>2 DEF AllowanceOf, AllowanceIn
  <2> QED BY <2>4, <2>5
<1>5. CASE indices[owner][spender] # None
  <2> DEFINE n == indices[owner][spender] + 1
  <2>1. /\ n \in DOMAIN allowances[owner]
        /\ allowances[owner][n].spender = spender
        /\ allowances[owner] \in Seq(EntryType)
        /\ indices[owner][spender] \in Nat
    BY <1>1, <1>2, <1>5 DEF Consistent, ConsistentFor
  <2>2. /\ allowances' = [allowances EXCEPT ![owner][n].allowance = new]
        /\ indices' = indices
    BY <1>5 DEF UpdateAllowance
  <2>3. allowances[owner][n] \in EntryType
    BY <2>1
  <2>4. CASE o = owner /\ s = spender
    <3>1. allowances'[o][n].allowance = new
      BY <1>2, <2>1, <2>2, <2>3, <2>4 DEF EntryType
    <3> QED BY <1>5, <2>2, <2>4, <3>1 DEF AllowanceOf, AllowanceIn
  <2>5. CASE ~(o = owner /\ s = spender)
    <3>1. ASSUME indices[o][s] # None
          PROVE  allowances'[o][indices[o][s] + 1] = allowances[o][indices[o][s] + 1]
      <4>1. CASE o = owner
        <5>1. indices[o][s] + 1 # n
          BY <1>3, <2>1, <2>5, <3>1, <4>1
        <5>2. allowances'[owner] = [allowances[owner] EXCEPT ![n].allowance = new]
          BY <1>2, <2>2
        <5>3. indices[o][s] + 1 \in DOMAIN allowances[owner]
          BY <1>3, <3>1, <4>1
        <5> DEFINE i == indices[o][s] + 1
        <5> HIDE DEF n, i
        <5>4. i # n /\ i \in DOMAIN allowances[owner]
          BY <5>1, <5>3 DEF i
        <5>5. [allowances[owner] EXCEPT ![n].allowance = new][i] = allowances[owner][i]
          BY <2>1, <5>4, Replaced
        <5>6. allowances'[owner][i] = allowances[owner][i]
          BY <5>2, <5>5
        <5> QED BY <4>1, <5>6 DEF i
      <4>2. CASE o # owner
        BY <1>2, <2>2, <4>2
      <4> QED BY <4>1, <4>2
    <3>2. indices' = indices
      BY <2>2
    <3> QED BY <2>5, <3>1, <3>2 DEF AllowanceOf, AllowanceIn
  <2> QED BY <2>4, <2>5
<1> QED BY <1>4, <1>5

\* The spender has spent some of old, or nothing, and new is what is left.
LeftOver(old, new) == new.expiration = old.expiration /\ new.amount <= old.amount

LEMMA UseSpends ==
    ASSUME AllowancesInv, NEW owner \in Address, NEW spender \in Address, NEW amount \in Amount,
           UseAllowance(owner, spender, amount), NEW o \in Address, NEW s \in Address
    PROVE  /\ AllowanceOf(o, s)' \in AllowanceType
           /\ s # spender => AllowanceOf(o, s)' = AllowanceOf(o, s)
           /\ LeftOver(AllowanceOf(o, s), AllowanceOf(o, s)')
<1> DEFINE old == AllowanceOf(owner, spender)
           new == [old EXCEPT !.amount = @ - amount]
<1>1. old \in AllowanceType /\ old.amount >= amount /\ UpdateAllowance(owner, spender, new)
  BY KnownAllowance DEF UseAllowance
<1>2. new \in AllowanceType /\ LeftOver(old, new)
  BY <1>1, Amounts DEF AllowanceType, LeftOver
<1>3. AllowanceOf(o, s) \in AllowanceType /\ LeftOver(AllowanceOf(o, s), AllowanceOf(o, s))
  <2>1. AllowanceOf(o, s) \in AllowanceType
    BY KnownAllowance
  <2> QED BY <2>1, Amounts DEF AllowanceType, LeftOver
<1> HIDE DEF new
<1>4. AllowanceOf(o, s)' = IF o = owner /\ s = spender THEN new ELSE AllowanceOf(o, s)
  BY <1>1, <1>2, UpdateChangesOne
<1> QED BY <1>2, <1>3, <1>4

SpendingInv ==
    /\ AllowancesInv
    /\ time \in Nat
    /\ batch # NoBatch =>
          \A o, s \in Address :
             /\ s # batch.sender => AllowanceOf(o, s) = CommittedAllowance(o, s)
             /\ LeftOver(CommittedAllowance(o, s), AllowanceOf(o, s))

LEMMA KnownCommitted ==
    ASSUME AllowancesInv, NEW o \in Address, NEW s \in Address
    PROVE  CommittedAllowance(o, s) \in AllowanceType
BY SoundAllowance, KnownAllowance DEF AllowancesInv, CommittedAllowance

LEMMA Live ==
    ASSUME NEW o \in Address, NEW s \in Address
    PROVE  /\ LiveAllowances[o][s] = IF IsExpired(CommittedAllowance(o, s))
                                     THEN NoAllowance
                                     ELSE CommittedAllowance(o, s)
           /\ LiveAllowances'[o][s] = IF IsExpired(CommittedAllowance(o, s))'
                                      THEN NoAllowance
                                      ELSE CommittedAllowance(o, s)'
BY DEF LiveAllowances

LEMMA SameAllowances ==
    ASSUME \A o, s \in Address : CommittedAllowance(o, s)' = CommittedAllowance(o, s),
           time' = time
    PROVE  UNCHANGED <<LiveAllowances, time>>
BY DEF LiveAllowances, IsExpired

LEMMA SpendStep ==
    ASSUME AllowancesInv, time' = time, NEW spender \in Address,
           \A o, s \in Address :
              /\ CommittedAllowance(o, s)' \in AllowanceType
              /\ s # spender => CommittedAllowance(o, s)' = CommittedAllowance(o, s)
              /\ LeftOver(CommittedAllowance(o, s), CommittedAllowance(o, s)')
    PROVE  Promise!Spend(spender)
<1> SUFFICES ASSUME NEW o \in Address, NEW s \in Address
             PROVE  IF s = spender
                    THEN /\ LiveAllowances'[o][s].amount <= LiveAllowances[o][s].amount
                         /\ LiveAllowances'[o][s].expiration = LiveAllowances[o][s].expiration
                    ELSE LiveAllowances'[o][s] = LiveAllowances[o][s]
  BY DEF Promise!Spend
<1>1. /\ IsExpired(CommittedAllowance(o, s))' <=> IsExpired(CommittedAllowance(o, s))
      /\ CommittedAllowance(o, s)'.amount <= CommittedAllowance(o, s).amount
      /\ CommittedAllowance(o, s)'.expiration = CommittedAllowance(o, s).expiration
  BY DEF LeftOver, IsExpired
<1>2. /\ NoAllowance.amount <= NoAllowance.amount
  BY DEF NoAllowance
<1> QED BY <1>1, <1>2, Live

LEMMA OneChanged ==
    ASSUME NEW f, f = [o \in Address |-> [s \in Address |-> f[o][s]]],
           NEW g, g = [o \in Address |-> [s \in Address |-> g[o][s]]],
           NEW a \in Address, NEW b \in Address,
           \A o, s \in Address : ~(o = a /\ s = b) => g[o][s] = f[o][s]
    PROVE  g = [f EXCEPT ![a][b] = g[a][b]]
<1> DEFINE r == [f[a] EXCEPT ![b] = g[a][b]]
<1>1. /\ f[a] = [s \in Address |-> f[a][s]]
      /\ g[a] = [s \in Address |-> g[a][s]]
  OBVIOUS
<1>2. r = g[a]
  BY <1>1
<1>3. \A o \in Address \ {a} : f[o] = g[o]
  <2> SUFFICES ASSUME NEW o \in Address \ {a}
               PROVE  f[o] = g[o]
    OBVIOUS
  <2>1. /\ f[o] = [s \in Address |-> f[o][s]]
        /\ g[o] = [s \in Address |-> g[o][s]]
    OBVIOUS
  <2>2. \A s \in Address : g[o][s] = f[o][s]
    OBVIOUS
  <2> QED BY <2>1, <2>2
<1>4. [f EXCEPT ![a] = g[a]] = g
  BY <1>3
<1> QED BY <1>2, <1>4

LEMMA UntilIs ==
    ASSUME NEW n, NEW e, NEW expiration
    PROVE  Until([amount |-> n, expiration |-> e], expiration)
           = [amount |-> n, expiration |-> IF expiration = None THEN e ELSE expiration]
BY DEF Until

LEMMA Changed ==
    ASSUME NEW old \in AllowanceType, NEW amount \in Amount, NEW expiration \in Expirations,
           NEW live, live = IF IsExpired(old) THEN NoAllowance ELSE old
    PROVE  /\ Increased(old, amount, expiration)
              = [amount     |-> SafeAdd(live.amount, amount),
                 expiration |-> IF expiration = None THEN live.expiration ELSE expiration]
           /\ Decreased(old, amount, expiration)
              = [amount     |-> IF amount > live.amount THEN 0 ELSE live.amount - amount,
                 expiration |-> IF expiration = None THEN live.expiration ELSE expiration]
<1>1. CASE IsExpired(old)
  <2>1. SafeAdd(0, amount) = amount /\ amount \in 0..MaxUint
    BY Snip20Assumption DEF SafeAdd
  <2>2. /\ live.amount = 0 /\ live.expiration = None
        /\ [NoAllowance EXCEPT !.amount = amount] = [amount |-> amount, expiration |-> None]
        /\ NoAllowance = [amount |-> 0, expiration |-> None]
    BY <1>1 DEF NoAllowance
  <2>3. (IF amount > 0 THEN 0 ELSE 0 - amount) = 0
    BY <2>1
  <2> QED BY <1>1, <2>1, <2>2, <2>3, UntilIs DEF Increased, Decreased
<1>2. CASE ~IsExpired(old)
  <2>1. live = old
    BY <1>2
  <2>2. /\ [old EXCEPT !.amount = SafeAdd(@, amount)]
           = [amount |-> SafeAdd(old.amount, amount), expiration |-> old.expiration]
        /\ [old EXCEPT !.amount = IF amount > @ THEN 0 ELSE @ - amount]
           = [amount |-> IF amount > old.amount THEN 0 ELSE old.amount - amount,
              expiration |-> old.expiration]
    BY DEF AllowanceType
  <2> QED BY <1>2, <2>1, <2>2, UntilIs DEF Increased, Decreased
<1> QED BY <1>1, <1>2

LEMMA GiveStep ==
    ASSUME SpendingInv, NEW owner \in Address, Allowance(owner)
    PROVE  Promise!Next
<1>1. PICK spender \in Address, amount \in Amount, expiration \in Expirations :
         \/ IncreaseAllowance(owner, spender, amount, expiration)
         \/ DecreaseAllowance(owner, spender, amount, expiration)
  BY DEF Allowance
<1> DEFINE old == AllowanceOf(owner, spender)
<1>2. batch = NoBatch /\ batch' = NoBatch /\ time' = time
  BY <1>1 DEF IncreaseAllowance, DecreaseAllowance, Handles, outerVars
<1>3. \A o, s \in Address : /\ CommittedAllowance(o, s) = AllowanceOf(o, s)
                            /\ CommittedAllowance(o, s)' = AllowanceOf(o, s)'
  BY <1>2 DEF CommittedAllowance
<1>4. /\ old \in AllowanceType /\ old.amount \in 0..MaxUint /\ amount \in 0..MaxUint
      /\ Increased(old, amount, expiration) \in AllowanceType
      /\ Decreased(old, amount, expiration) \in AllowanceType
  BY KnownAllowance, NewAllowance, Snip20Assumption DEF SpendingInv, AllowanceType
<1>5. ASSUME NEW new, \A o, s \in Address : CommittedAllowance(o, s)'
                   = IF o = owner /\ s = spender THEN new ELSE CommittedAllowance(o, s)
      PROVE  LiveAllowances' = [LiveAllowances EXCEPT
                                    ![owner][spender] = LiveAllowances'[owner][spender]]
  <2>1. \A o, s \in Address : ~(o = owner /\ s = spender) =>
            LiveAllowances'[o][s] = LiveAllowances[o][s]
    BY <1>2, <1>5, Live DEF IsExpired
  <2>2. /\ LiveAllowances = [o \in Address |-> [s \in Address |-> LiveAllowances[o][s]]]
        /\ LiveAllowances' = [o \in Address |-> [s \in Address |-> LiveAllowances'[o][s]]]
    BY DEF LiveAllowances
  <2> QED BY <2>1, <2>2, OneChanged
<1>7. CASE IncreaseAllowance(owner, spender, amount, expiration)
  <2> DEFINE new == Increased(old, amount, expiration)
  <2>1. new \in AllowanceType /\ UpdateAllowance(owner, spender, new)
    BY <1>4, <1>7 DEF IncreaseAllowance
  <2>2. \A o, s \in Address : CommittedAllowance(o, s)'
                             = IF o = owner /\ s = spender THEN new ELSE CommittedAllowance(o, s)
    BY <1>3, <2>1, UpdateChangesOne DEF SpendingInv
  <2>3. LiveAllowances' = [LiveAllowances EXCEPT
                               ![owner][spender] = LiveAllowances'[owner][spender]]
    BY <1>5, <2>2
  <2>4. LiveAllowances'[owner][spender]
        = Promise!Unexpired([amount |-> Promise!SaturatingAdd(
                                            LiveAllowances[owner][spender].amount, amount),
                             expiration |-> IF expiration = None
                                            THEN LiveAllowances[owner][spender].expiration
                                            ELSE expiration],
                            time)
    <3> DEFINE live == LiveAllowances[owner][spender]
               x == [amount |-> Promise!SaturatingAdd(live.amount, amount),
                     expiration |-> IF expiration = None THEN live.expiration ELSE expiration]
    <3>1. live = IF IsExpired(old) THEN NoAllowance ELSE old
      BY <1>3, Live
    <3> HIDE DEF live
    <3>2. new = x
      BY <1>4, <3>1, Changed DEF Promise!SaturatingAdd, SafeAdd
    <3>3. LiveAllowances'[owner][spender] = IF IsExpired(new) THEN NoAllowance ELSE new
      BY <1>2, <2>2, Live DEF IsExpired
    <3>4. LiveAllowances'[owner][spender] = Promise!Unexpired(new, time)
      BY <3>3 DEF IsExpired, NoAllowance, Promise!Unexpired, Promise!Nothing
    <3> QED BY <3>2, <3>4 DEF live
  <2>5. Promise!Increase(owner, spender, amount, expiration)
    BY <1>2, <2>3, <2>4 DEF Promise!Increase, Promise!Give
  <2> QED BY <2>5 DEF Promise!Next, Expirations
<1>8. CASE DecreaseAllowance(owner, spender, amount, expiration)
  <2> DEFINE new == Decreased(old, amount, expiration)
  <2>1. new \in AllowanceType /\ UpdateAllowance(owner, spender, new)
    BY <1>4, <1>8 DEF DecreaseAllowance
  <2>2. \A o, s \in Address : CommittedAllowance(o, s)'
                             = IF o = owner /\ s = spender THEN new ELSE CommittedAllowance(o, s)
    BY <1>3, <2>1, UpdateChangesOne DEF SpendingInv
  <2>3. LiveAllowances' = [LiveAllowances EXCEPT
                               ![owner][spender] = LiveAllowances'[owner][spender]]
    BY <1>5, <2>2
  <2>4. LiveAllowances'[owner][spender]
        = Promise!Unexpired([amount |-> Promise!SaturatingSub(
                                            LiveAllowances[owner][spender].amount, amount),
                             expiration |-> IF expiration = None
                                            THEN LiveAllowances[owner][spender].expiration
                                            ELSE expiration],
                            time)
    <3> DEFINE live == LiveAllowances[owner][spender]
               x == [amount |-> Promise!SaturatingSub(live.amount, amount),
                     expiration |-> IF expiration = None THEN live.expiration ELSE expiration]
    <3>1. live = IF IsExpired(old) THEN NoAllowance ELSE old
      BY <1>3, Live
    <3> HIDE DEF live
    <3>2. new = x
      BY <1>4, <3>1, Changed DEF Promise!SaturatingSub
    <3>3. LiveAllowances'[owner][spender] = IF IsExpired(new) THEN NoAllowance ELSE new
      BY <1>2, <2>2, Live DEF IsExpired
    <3>4. LiveAllowances'[owner][spender] = Promise!Unexpired(new, time)
      BY <3>3 DEF IsExpired, NoAllowance, Promise!Unexpired, Promise!Nothing
    <3> QED BY <3>2, <3>4 DEF live
  <2>5. Promise!Decrease(owner, spender, amount, expiration)
    BY <1>2, <2>3, <2>4 DEF Promise!Decrease, Promise!Give
  <2> QED BY <2>5 DEF Promise!Next, Expirations
<1> QED BY <1>1, <1>7, <1>8

LEMMA TickStep ==
    ASSUME SpendingInv, Tick
    PROVE  Promise!Tick
<1>1. /\ batch = NoBatch /\ batch' = NoBatch /\ UNCHANGED allowanceVars
      /\ time \in Nat /\ time' = time + 1
  BY DEF Tick, SpendingInv
<1>2. ASSUME NEW o \in Address, NEW s \in Address
      PROVE  LiveAllowances'[o][s] = Promise!Unexpired(LiveAllowances[o][s], time')
  <2>1. CommittedAllowance(o, s)' = CommittedAllowance(o, s)
    BY <1>1 DEF CommittedAllowance, AllowanceOf, AllowanceIn, allowanceVars
  <2>2. CommittedAllowance(o, s) \in AllowanceType
    BY KnownCommitted DEF SpendingInv
  <2>3. CommittedAllowance(o, s).expiration \in Nat \cup {None}
    BY <2>2, Snip20Assumption DEF AllowanceType, Expirations
  <2> QED BY <1>1, <2>1, <2>3, Live DEF IsExpired, NoAllowance, Promise!Unexpired, Promise!Nothing
<1> QED BY <1>1, <1>2 DEF Promise!Tick, LiveAllowances

LEMMA InTurn ==
    ASSUME NEW a \in AllowanceType, NEW b \in AllowanceType, NEW c \in AllowanceType
    PROVE  LeftOver(a, a) /\ (LeftOver(a, b) /\ LeftOver(b, c) => LeftOver(a, c))
BY Amounts DEF AllowanceType, LeftOver

\* What a step of a batch does to the storages.
LEMMA ActionSpends ==
    ASSUME AllowancesInv, Batch, batch # NoBatch, batch' # NoBatch,
           NEW o \in Address, NEW s \in Address
    PROVE  /\ batch'.saved = batch.saved /\ batch'.sender = batch.sender
           /\ AllowanceOf(o, s)' \in AllowanceType
           /\ s # batch.sender => AllowanceOf(o, s)' = AllowanceOf(o, s)
           /\ LeftOver(AllowanceOf(o, s), AllowanceOf(o, s)')
<1>1. PICK amount \in Amount, decoys \in Disguises, a \in Address, recipient \in Address :
         \/ BatchTransfer(a, amount, decoys)
         \/ BatchMint(a, amount, decoys)
         \/ BatchBurnFrom(a, amount, decoys)
         \/ BatchTransferFrom(a, recipient, amount, decoys)
  BY DEF Batch, BeginBatch, Handles, EndBatch, FailBatch
<1>2. \E held : NextAction(held)
  BY <1>1 DEF BatchTransfer, BatchMint, BatchBurnFrom, BatchTransferFrom
<1>3. batch'.saved = batch.saved /\ batch'.sender = batch.sender
  <2>1. PICK held : batch' = [batch EXCEPT !.supply = held]
    BY <1>2 DEF NextAction
  <2>2. batch = [msg |-> batch.msg, sender |-> batch.sender, supply |-> batch.supply,
                 saved |-> batch.saved]
    BY DEF AllowancesInv
  <2>3. batch' = [msg |-> batch.msg, sender |-> batch.sender, supply |-> held,
                  saved |-> batch.saved]
    BY <2>1, <2>2
  <2> QED BY <2>3
<1>4. CASE UNCHANGED allowanceVars
  <2>1. AllowanceOf(o, s)' = AllowanceOf(o, s) /\ AllowanceOf(o, s) \in AllowanceType
    BY <1>4, KnownAllowance DEF AllowanceOf, AllowanceIn, allowanceVars
  <2> QED BY <1>3, <2>1, InTurn
<1>5. CASE UseAllowance(a, batch.sender, amount)
  <2>1. batch.sender \in Address
    BY DEF AllowancesInv
  <2> QED BY <1>3, <1>5, <2>1, UseSpends
<1> QED BY <1>1, <1>4, <1>5 DEF BatchTransfer, TransferImpl, BatchMint, MintImpl, BatchBurnFrom,
           BurnFromImpl, BatchTransferFrom, TransferFromImpl

LEMMA BeginningSaves ==
    ASSUME Batch, batch = NoBatch, NEW o \in Address, NEW s \in Address
    PROVE  /\ UNCHANGED allowanceVars
           /\ AllowanceOf(o, s)' = AllowanceOf(o, s)
           /\ CommittedAllowance(o, s)' = AllowanceOf(o, s)
<1>1. PICK msg \in Batches, sender \in Address : BeginBatch(msg, sender)
  BY DEF Batch, BatchTransfer, BatchTransferFrom, BatchMint, BatchBurnFrom, InBatch, EndBatch,
         FailBatch
<1>2. /\ batch'.saved.allowances = allowances /\ batch'.saved.indices = indices
      /\ UNCHANGED allowanceVars
  BY <1>1 DEF BeginBatch
<1>3. AllowanceOf(o, s)' = AllowanceOf(o, s)
  BY <1>2 DEF AllowanceOf, AllowanceIn, allowanceVars
<1> QED BY <1>2, <1>3 DEF CommittedAllowance, AllowanceOf

LEMMA BatchKeepsTime == Batch => time' = time
BY DEF Batch, BeginBatch, BatchTransfer, BatchTransferFrom, BatchMint, BatchBurnFrom, NextAction,
       EndBatch, FailBatch, outerVars

LEMMA SpendingIsInductive ==
    ASSUME SpendingInv, [Next]_vars
    PROVE  SpendingInv'
<1>1. AllowancesInv'
  BY NextIsSound DEF SpendingInv
<1>2. time' \in Nat
  <2>1. CASE Tick
    BY <2>1 DEF Tick, SpendingInv
  <2>2. ASSUME NEW sender \in Address, Ledger(sender) \/ Allowance(sender)
        PROVE  time' = time
    BY <2>2 DEF Ledger, Allowance, Deposit, Redeem, Burn, Transfer, Mint, BurnFrom,
                TransferFrom, IncreaseAllowance, DecreaseAllowance, outerVars
  <2>3. ASSUME NEW sender \in Address, Administration(sender)
        PROVE  time' = time
    BY <2>3 DEF Administration, AddMinters, RemoveMinters, SetMinters, AddSupportedDenoms,
                RemoveSupportedDenoms, ChangeMinters, ChangeDenoms, Administers, TokenStatus,
                TokenAdmin, outerVars
  <2>4. CASE Refused \/ UNCHANGED vars
    BY <2>4 DEF Refused, vars, outerVars, SpendingInv
  <2> QED BY <2>1, <2>2, <2>3, <2>4, BatchKeepsTime DEF Next, SpendingInv
<1>3. ASSUME batch' # NoBatch, NEW o \in Address, NEW s \in Address
      PROVE  /\ s # batch'.sender => AllowanceOf(o, s)' = CommittedAllowance(o, s)'
             /\ LeftOver(CommittedAllowance(o, s)', AllowanceOf(o, s)')
  <2>1. AllowanceOf(o, s) \in AllowanceType /\ CommittedAllowance(o, s) \in AllowanceType
    BY KnownAllowance, KnownCommitted DEF SpendingInv
  <2>2. CASE Batch /\ batch = NoBatch
    <3>1. /\ AllowanceOf(o, s)' = AllowanceOf(o, s)
          /\ CommittedAllowance(o, s)' = AllowanceOf(o, s)
      BY <2>2, BeginningSaves
    <3>2. LeftOver(AllowanceOf(o, s), AllowanceOf(o, s))
      BY <2>1, InTurn
    <3> QED BY <3>1, <3>2
  <2>3. CASE Batch /\ batch # NoBatch
    <3>1. /\ batch'.saved = batch.saved /\ batch'.sender = batch.sender
          /\ AllowanceOf(o, s)' \in AllowanceType
          /\ s # batch.sender => AllowanceOf(o, s)' = AllowanceOf(o, s)
          /\ LeftOver(AllowanceOf(o, s), AllowanceOf(o, s)')
      BY <1>3, <2>3, ActionSpends DEF SpendingInv
    <3>2. CommittedAllowance(o, s)' = CommittedAllowance(o, s)
      BY <1>3, <2>3, <3>1 DEF CommittedAllowance
    <3>3. /\ s # batch.sender => AllowanceOf(o, s) = CommittedAllowance(o, s)
          /\ LeftOver(CommittedAllowance(o, s), AllowanceOf(o, s))
      BY <2>3 DEF SpendingInv
    <3>4. LeftOver(CommittedAllowance(o, s), AllowanceOf(o, s)')
      BY <2>1, <3>1, <3>3, InTurn
    <3> QED BY <3>1, <3>2, <3>3, <3>4
  <2>4. CASE UNCHANGED vars
    <3>1. UNCHANGED <<allowances, indices, batch>>
      BY <2>4 DEF vars, allowanceVars
    <3>2. /\ AllowanceOf(o, s)' = AllowanceOf(o, s)
          /\ CommittedAllowance(o, s)' = CommittedAllowance(o, s)
      BY <3>1 DEF CommittedAllowance, AllowanceOf, AllowanceIn
    <3> QED BY <1>3, <3>1, <3>2 DEF SpendingInv
  <2>5. ASSUME NEW sender \in Address,
               Ledger(sender) \/ Allowance(sender) \/ Administration(sender)
        PROVE  batch' = NoBatch
    BY <2>5 DEF Ledger, Allowance, Administration, Deposit, Redeem, Burn, Transfer, Mint,
                BurnFrom, TransferFrom, IncreaseAllowance, DecreaseAllowance, AddMinters,
                RemoveMinters, SetMinters, AddSupportedDenoms, RemoveSupportedDenoms,
                ChangeMinters, ChangeDenoms, Administers, TokenStatus, TokenAdmin, Handles
  <2>6. Tick => batch' = NoBatch
    BY DEF Tick
  <2> QED BY <1>3, <2>2, <2>3, <2>4, <2>5, <2>6 DEF Next, Refused
<1> QED BY <1>1, <1>2, <1>3 DEF SpendingInv

LEMMA LedgerStep ==
    ASSUME SpendingInv, NEW sender \in Address, Ledger(sender)
    PROVE  Promise!Spend(sender) \/ UNCHANGED <<LiveAllowances, time>>
<1>1. batch = NoBatch /\ batch' = NoBatch /\ time' = time
  BY DEF Ledger, Deposit, Redeem, Burn, Transfer, Mint, BurnFrom, TransferFrom, Handles, outerVars
<1>2. \A o, s \in Address : /\ CommittedAllowance(o, s) = AllowanceOf(o, s)
                            /\ CommittedAllowance(o, s)' = AllowanceOf(o, s)'
  BY <1>1 DEF CommittedAllowance
<1>3. CASE \E owner \in Address, amount \in Amount : UseAllowance(owner, sender, amount)
  BY <1>1, <1>2, <1>3, UseSpends, SpendStep DEF SpendingInv
<1>4. CASE UNCHANGED allowanceVars
  <2>1. \A o, s \in Address : AllowanceOf(o, s)' = AllowanceOf(o, s)
    BY <1>4 DEF AllowanceOf, AllowanceIn, allowanceVars
  <2> QED BY <1>1, <1>2, <2>1, SameAllowances
<1>5. \/ UNCHANGED allowanceVars
      \/ \E owner \in Address, amount \in Amount : UseAllowance(owner, sender, amount)
  BY LedgerAllowances
<1> QED BY <1>3, <1>4, <1>5

LEMMA BatchStep ==
    ASSUME SpendingInv, Batch
    PROVE  Promise!Next \/ UNCHANGED <<LiveAllowances, time>>
<1>1. time' = time
  BY BatchKeepsTime
<1>2. CASE batch = NoBatch
  <2>1. \A o, s \in Address : CommittedAllowance(o, s)' = CommittedAllowance(o, s)
    BY <1>2, BeginningSaves DEF CommittedAllowance
  <2> QED BY <1>1, <2>1, SameAllowances
<1>3. CASE batch # NoBatch /\ batch' # NoBatch
  <2>1. \A o, s \in Address : CommittedAllowance(o, s)' = CommittedAllowance(o, s)
    BY <1>3, ActionSpends DEF CommittedAllowance, SpendingInv
  <2> QED BY <1>1, <2>1, SameAllowances
<1>4. CASE batch # NoBatch /\ EndBatch
  <2>1. batch' = NoBatch /\ UNCHANGED allowanceVars /\ batch.sender \in Address
    BY <1>4 DEF EndBatch, SpendingInv, AllowancesInv
  <2>2. \A o, s \in Address : CommittedAllowance(o, s)' = AllowanceOf(o, s)
    BY <2>1 DEF CommittedAllowance, AllowanceOf, AllowanceIn, allowanceVars
  <2>3. Promise!Spend(batch.sender)
    BY <1>1, <1>4, <2>1, <2>2, KnownAllowance, SpendStep DEF SpendingInv
  <2> QED BY <2>1, <2>3 DEF Promise!Next
<1>5. CASE batch # NoBatch /\ FailBatch
  <2>1. /\ batch' = NoBatch
        /\ allowances' = batch.saved.allowances
        /\ indices' = batch.saved.indices
    BY <1>5 DEF FailBatch
  <2>2. \A o, s \in Address : CommittedAllowance(o, s)' = CommittedAllowance(o, s)
    BY <1>5, <2>1 DEF CommittedAllowance, AllowanceOf, AllowanceIn
  <2> QED BY <1>1, <2>2, SameAllowances
<1>6. ASSUME batch # NoBatch, batch' = NoBatch
      PROVE  EndBatch \/ FailBatch
  <2>1. ASSUME NEW held, NextAction(held)
        PROVE  FALSE
    <3>1. batch' = [msg |-> batch.msg, sender |-> batch.sender, supply |-> held,
                    saved |-> batch.saved]
      BY <1>6, <2>1 DEF NextAction, SpendingInv, AllowancesInv
    <3>2. batch.msg # "none"
      BY <1>6 DEF SpendingInv, AllowancesInv, Batches
    <3> QED BY <1>6, <3>1, <3>2 DEF NoBatch
  <2> QED BY <1>6, <2>1 DEF Batch, BeginBatch, Handles, BatchTransfer, BatchTransferFrom,
             BatchMint, BatchBurnFrom
<1> QED BY <1>2, <1>3, <1>4, <1>5, <1>6

(* The token implements Allowances: allowances that are still in the       *)
(* storage after they have expired are never of use again, and a batch     *)
(* spends at its end what its actions have spent, or nothing at all.       *)
THEOREM AllowancesRefined == Spec => ImplementsAllowances
<1>1. Init => SpendingInv /\ Promise!Init
  <2> SUFFICES ASSUME Init
               PROVE  SpendingInv /\ Promise!Init
    OBVIOUS
  <2>1. /\ batch = NoBatch /\ time = 0
        /\ indices = [a \in Address |-> [b \in Address |-> None]]
    BY DEF Init
  <2>2. SpendingInv
    BY <2>1, InitIsSound DEF SpendingInv
  <2>3. \A o, s \in Address : CommittedAllowance(o, s) = NoAllowance
    BY <2>1 DEF CommittedAllowance, AllowanceOf, AllowanceIn
  <2>4. LiveAllowances = [o \in Address |-> [s \in Address |-> NoAllowance]]
    BY <2>3 DEF LiveAllowances
  <2> QED BY <2>1, <2>2, <2>4 DEF Promise!Init, Promise!Nothing, NoAllowance
<1>2. SpendingInv /\ [Next]_vars => SpendingInv'
  BY SpendingIsInductive
<1>3. SpendingInv /\ [Next]_vars => [Promise!Next]_(Promise!vars)
  <2> SUFFICES ASSUME SpendingInv, [Next]_vars
               PROVE  Promise!Next \/ UNCHANGED <<LiveAllowances, time>>
    BY DEF Promise!vars
  <2>1. ASSUME NEW sender \in Address, Ledger(sender)
        PROVE  Promise!Next \/ UNCHANGED <<LiveAllowances, time>>
    BY <2>1, LedgerStep DEF Promise!Next
  <2>2. ASSUME UNCHANGED <<allowanceVars, time, batch>>
        PROVE  UNCHANGED <<LiveAllowances, time>>
    <3>1. \A o, s \in Address : CommittedAllowance(o, s)' = CommittedAllowance(o, s)
      BY <2>2 DEF CommittedAllowance, AllowanceOf, AllowanceIn, allowanceVars
    <3> QED BY <2>2, <3>1, SameAllowances
  <2>3. ASSUME NEW sender \in Address, Administration(sender)
        PROVE  UNCHANGED <<allowanceVars, time, batch>>
    BY <2>3 DEF Administration, AddMinters, RemoveMinters, SetMinters, AddSupportedDenoms,
                RemoveSupportedDenoms, ChangeMinters, ChangeDenoms, Administers, TokenStatus,
                TokenAdmin, allowanceVars, outerVars
  <2>4. ASSUME Refused \/ UNCHANGED vars
        PROVE  UNCHANGED <<allowanceVars, time, batch>>
    BY <2>4 DEF Refused, vars, allowanceVars, outerVars
  <2>5. CASE Tick
    BY <2>5, TickStep DEF Promise!Next
  <2> QED BY <2>1, <2>2, <2>3, <2>4, <2>5, GiveStep, BatchStep DEF Next
<1> QED BY <1>1, <1>2, <1>3, PTL DEF Spec, ImplementsAllowances, Promise!Spec
-----------------------------------------------------------------------------
(***************************************************************************)
(* The sums: that the total supply is the sum of the balances, whatever is *)
(* batched, fails or saturates, that the history of an account explains    *)
(* its balance, and that the reserve covers what nobody minted.            *)
(***************************************************************************)
SavedSupply == batch # NoBatch => SumFunction(batch.saved.balance) = supply

SupplyInv == NumbersInv /\ SupplyIsExact /\ SavedSupply

LEMMA BalancesAreNat ==
    ASSUME NEW b \in [Address -> 0..MaxUint]
    PROVE  /\ SumFunction(b) \in Nat
           /\ \A a \in Address : b[a] \in Nat /\ b[a] <= SumFunction(b)
<1>1. b \in [Address -> Nat] /\ IsFiniteSet(Address)
  BY Snip20Assumption
<1> QED BY <1>1, TotalNat, TotalCovers

LEMMA DebitSum ==
    ASSUME NEW b \in [Address -> 0..MaxUint], NEW a \in Address, NEW n \in Nat
    PROVE  SumFunction(SubtractBalance(b, a, n)) = SumFunction(b) - n
<1> DEFINE c == SubtractBalance(b, a, n)
<1>1. /\ DOMAIN b = Address /\ DOMAIN c = Address /\ IsFiniteSet(Address)
      /\ \A d \in Address : b[d] \in Int
      /\ \A d \in Address \ {a} : c[d] = b[d]
      /\ c[a] = b[a] - n /\ c[a] \in Int
  BY Snip20Assumption DEF SubtractBalance
<1> HIDE DEF c
<1>2. SumFunction(c) = SumFunction(b) - b[a] + c[a]
  BY <1>1, TotalChanges
<1> QED BY <1>1, <1>2, BalancesAreNat DEF c

(* What fits beside all the balances is credited in full.                  *)
LEMMA CreditSum ==
    ASSUME NEW b \in [Address -> 0..MaxUint], NEW a \in Address, NEW n \in Nat,
           SumFunction(b) + n <= MaxUint
    PROVE  /\ SumFunction(AddBalance(b, a, n)) = SumFunction(b) + n
           /\ AddBalance(b, a, n)[a] = b[a] + n
<1> DEFINE c == AddBalance(b, a, n)
<1>1. b[a] \in Nat /\ b[a] <= SumFunction(b) /\ SumFunction(b) \in Nat
  BY BalancesAreNat
<1>2. SafeAdd(b[a], n) = b[a] + n
  BY <1>1, Snip20Assumption DEF SafeAdd
<1>3. /\ DOMAIN b = Address /\ DOMAIN c = Address /\ IsFiniteSet(Address)
      /\ \A d \in Address : b[d] \in Int
      /\ \A d \in Address \ {a} : c[d] = b[d]
      /\ c[a] = b[a] + n /\ c[a] \in Int
  BY <1>1, <1>2, Snip20Assumption DEF AddBalance
<1> HIDE DEF c
<1>4. SumFunction(c) = SumFunction(b) - b[a] + c[a]
  BY <1>3, TotalChanges
<1> QED BY <1>1, <1>3, <1>4 DEF c

LEMMA TransferSum ==
    ASSUME NumbersFit, SumFunction(balance) <= MaxUint,
           NEW from \in Address, NEW to \in Address, NEW n \in Nat,
           PerformTransfer(from, to, n)
    PROVE  SumFunction(balance') = SumFunction(balance)
<1> DEFINE b == SubtractBalance(balance, from, n)
<1>1. balance \in [Address -> 0..MaxUint] /\ balance[from] >= n
  BY DEF NumbersFit, PerformTransfer, CanPay
<1>2. b \in [Address -> 0..MaxUint] /\ SumFunction(b) = SumFunction(balance) - n
  BY <1>1, Debits, DebitSum
<1>3. SumFunction(balance) \in Nat /\ balance' = AddBalance(b, to, n)
  BY <1>1, BalancesAreNat DEF PerformTransfer
<1> HIDE DEF b
<1>4. SumFunction(b) + n <= MaxUint
  BY <1>2, <1>3, Snip20Assumption
<1>5. SumFunction(balance') = SumFunction(b) + n
  BY <1>2, <1>3, <1>4, CreditSum
<1> QED BY <1>2, <1>3, <1>5

LEMMA SupplyOfMessage ==
    ASSUME SupplyInv, batch = NoBatch
    PROVE  /\ SumFunction(balance) = supply
           /\ balance \in [Address -> 0..MaxUint] /\ supply \in 0..MaxUint
           /\ SumFunction(balance) <= MaxUint
BY Snip20Assumption DEF SupplyInv, SupplyIsExact, Held, HoldsSupply, NumbersInv, NumbersFit

(* Every message of the ledger changes the supply by what it changes of    *)
(* the sum of the balances.                                                *)
LEMMA LedgerSupply ==
    ASSUME SupplyInv, NEW sender \in Address, Ledger(sender)
    PROVE  SumFunction(balance') = supply'
<1> USE Amounts
<1>1. batch = NoBatch
  BY LedgerFits DEF SupplyInv
<1>2. /\ SumFunction(balance) = supply
      /\ balance \in [Address -> 0..MaxUint] /\ supply \in 0..MaxUint
      /\ SumFunction(balance) <= MaxUint
      /\ NumbersFit
  BY <1>1, SupplyOfMessage DEF SupplyInv, NumbersInv
<1>3. ASSUME NEW funds \in Funds, NEW decoys \in Disguises, Deposit(sender, funds, decoys)
      PROVE  SumFunction(balance') = supply'
  <2> DEFINE n == Total(funds)
             added == SafeAdd(supply, n) - supply
  <2>1. n \in Nat /\ supply' = supply + added /\ balance' = AddBalance(balance, sender, added)
    BY <1>3 DEF Deposit
  <2> HIDE DEF n
  <2>2. added \in Nat /\ supply + added <= MaxUint
    BY <1>2, <2>1, Saturates
  <2> HIDE DEF added
  <2> QED BY <1>2, <2>1, <2>2, CreditSum
<1>4. ASSUME NEW n \in Amount, NEW a \in Address,
             supply' = supply - n, balance' = SubtractBalance(balance, a, n)
      PROVE  SumFunction(balance') = supply'
  BY <1>2, <1>4, DebitSum
<1>5. ASSUME NEW amount \in Amount, NEW denom, NEW decoys \in Disguises, NEW owner \in Address,
             \/ Redeem(sender, amount, denom, decoys)
             \/ Burn(sender, amount, decoys)
             \/ BurnFrom(sender, owner, amount, decoys)
      PROVE  SumFunction(balance') = supply'
  BY <1>4, <1>5 DEF Redeem, Burn, BurnFrom, BurnFromImpl
<1>6. ASSUME NEW amount \in Amount, NEW decoys \in Disguises,
             NEW owner \in Address, NEW recipient \in Address,
             \/ Transfer(sender, recipient, amount, decoys)
             \/ TransferFrom(sender, owner, recipient, amount, decoys)
      PROVE  SumFunction(balance') = supply'
  <2>1. \E from \in Address : PerformTransfer(from, recipient, amount)
    BY <1>6 DEF Transfer, TransferImpl, TransferFrom, TransferFromImpl
  <2>2. supply' = supply
    BY <1>6 DEF Transfer, TransferImpl, TransferFrom, TransferFromImpl
  <2> QED BY <1>2, <2>1, <2>2, TransferSum
<1>7. ASSUME NEW amount \in Amount, NEW decoys \in Disguises, NEW recipient \in Address,
             Mint(sender, recipient, amount, decoys)
      PROVE  SumFunction(balance') = supply'
  <2> DEFINE added == SafeAdd(supply, amount) - supply
  <2>1. /\ supply' = SafeAdd(supply, amount)
        /\ balance' = AddBalance(balance, recipient, added)
    BY <1>7 DEF Mint, MintImpl
  <2>2. added \in Nat /\ supply' \in 0..MaxUint /\ supply' = supply + added
    BY <1>2, <2>1, Saturates
  <2> HIDE DEF added
  <2> QED BY <1>2, <2>1, <2>2, CreditSum
<1> QED BY <1>3, <1>5, <1>6, <1>7 DEF Ledger

(* A batch that holds the supply back keeps it equal to the sum, and one   *)
(* that does not leaves the sum alone.                                     *)
LEMMA BatchSupply ==
    ASSUME SupplyInv, Batch, NumbersInv'
    PROVE  SupplyInv'
<1> USE Amounts
<1>1. /\ balance \in [Address -> 0..MaxUint] /\ supply \in 0..MaxUint
      /\ SumFunction(balance) = Held /\ NumbersFit
  BY DEF SupplyInv, SupplyIsExact, NumbersInv, NumbersFit
<1>2. Held \in 0..MaxUint /\ SumFunction(balance) <= MaxUint
  BY <1>1 DEF Held, HoldsSupply, SupplyInv, NumbersInv, BatchNumbersFit
<1>3. ASSUME NEW msg \in Batches, NEW sender \in Address, BeginBatch(msg, sender)
      PROVE  SupplyInv'
  <2>1. batch = NoBatch /\ balance' = balance /\ supply' = supply
    BY <1>3 DEF BeginBatch, Handles, balanceVars
  <2>2. batch'.supply = supply /\ batch'.saved.balance = balance
    BY <1>3 DEF BeginBatch
  <2>3. SumFunction(balance) = supply
    BY <2>1, SupplyOfMessage
  <2> QED BY <2>1, <2>2, <2>3 DEF SupplyInv, SupplyIsExact, SavedSupply, Held, HoldsSupply
<1>4. ASSUME batch # NoBatch, NEW held, NextAction(held),
             SumFunction(balance') = IF HoldsSupply THEN held ELSE supply
      PROVE  SupplyInv'
  <2>1. batch' = [msg |-> batch.msg, sender |-> batch.sender, supply |-> held,
                  saved |-> batch.saved]
    BY <1>4 DEF NextAction, SupplyInv, NumbersInv, BatchNumbersFit
  <2>2. /\ batch'.msg = batch.msg /\ batch'.supply = held /\ batch'.saved = batch.saved
        /\ batch' # NoBatch /\ supply' = supply
    BY <1>4, <2>1 DEF NextAction, NoBatch
  <2>3. SavedSupply'
    BY <1>4, <2>2 DEF SupplyInv, SavedSupply
  <2>4. SupplyIsExact'
    BY <1>4, <2>2 DEF SupplyIsExact, Held, HoldsSupply
  <2> QED BY <2>3, <2>4 DEF SupplyInv
<1>5. ASSUME batch # NoBatch
      PROVE  batch.supply \in 0..MaxUint /\ batch.sender \in Address
  BY <1>5 DEF SupplyInv, NumbersInv, BatchNumbersFit
<1>6. ASSUME NEW amount \in Amount, NEW decoys \in Disguises,
             NEW owner \in Address, NEW recipient \in Address,
             \/ BatchTransfer(recipient, amount, decoys)
             \/ BatchTransferFrom(owner, recipient, amount, decoys)
      PROVE  SupplyInv'
  <2>1. batch # NoBatch /\ NextAction(batch.supply) /\ ~HoldsSupply
    BY <1>6 DEF BatchTransfer, BatchTransferFrom, InBatch, HoldsSupply
  <2>2. \E from \in Address : PerformTransfer(from, recipient, amount)
    <3>1. CASE BatchTransferFrom(owner, recipient, amount, decoys)
      BY <3>1 DEF BatchTransferFrom, TransferFromImpl
    <3>2. CASE BatchTransfer(recipient, amount, decoys)
      BY <1>5, <3>2, <2>1 DEF BatchTransfer, TransferImpl
    <3> QED BY <1>6, <3>1, <3>2
  <2>3. SumFunction(balance') = supply
    BY <1>1, <1>2, <2>1, <2>2, TransferSum DEF Held
  <2> QED BY <1>4, <2>1, <2>3
<1>7. ASSUME NEW amount \in Amount, NEW decoys \in Disguises, NEW recipient \in Address,
             BatchMint(recipient, amount, decoys)
      PROVE  SupplyInv'
  <2> DEFINE held == SafeAdd(batch.supply, amount)
             added == held - batch.supply
  <2>1. batch # NoBatch /\ NextAction(held) /\ HoldsSupply
    BY <1>7 DEF BatchMint, InBatch, HoldsSupply
  <2>2. held \in 0..MaxUint /\ added \in Nat
    BY <1>5, <2>1, Saturates
  <2>3. balance' = AddBalance(balance, recipient, added)
    BY <1>7 DEF BatchMint, MintImpl
  <2>4. SumFunction(balance) = batch.supply
    BY <1>1, <2>1 DEF Held
  <2>5. held = SumFunction(balance) + added
    BY <1>5, <2>1, <2>2, <2>4
  <2> HIDE DEF added, held
  <2>6. SumFunction(balance') = held
    BY <1>1, <2>2, <2>3, <2>5, CreditSum
  <2> QED BY <1>4, <2>1, <2>6
<1>8. ASSUME NEW amount \in Amount, NEW decoys \in Disguises, NEW owner \in Address,
             BatchBurnFrom(owner, amount, decoys)
      PROVE  SupplyInv'
  <2>1. batch # NoBatch /\ NextAction(batch.supply - amount) /\ HoldsSupply
    BY <1>8 DEF BatchBurnFrom, InBatch, HoldsSupply
  <2>2. balance' = SubtractBalance(balance, owner, amount)
    BY <1>8 DEF BatchBurnFrom, BurnFromImpl
  <2>3. SumFunction(balance') = batch.supply - amount
    BY <1>1, <2>1, <2>2, DebitSum DEF Held
  <2> QED BY <1>4, <2>1, <2>3
<1>9. ASSUME EndBatch
      PROVE  SupplyInv'
  <2>1. batch' = NoBatch /\ supply' = Held /\ balance' = balance
    BY <1>9 DEF EndBatch, Held
  <2> QED BY <1>1, <2>1 DEF SupplyInv, SupplyIsExact, SavedSupply, Held, HoldsSupply
<1>10. ASSUME FailBatch
       PROVE  SupplyInv'
  <2>1. /\ batch # NoBatch /\ batch' = NoBatch /\ supply' = supply
        /\ balance' = batch.saved.balance
    BY <1>10 DEF FailBatch
  <2> QED BY <2>1 DEF SupplyInv, SupplyIsExact, SavedSupply, Held, HoldsSupply
<1> QED BY <1>3, <1>6, <1>7, <1>8, <1>9, <1>10 DEF Batch

LEMMA NextSupply == SupplyInv /\ [Next]_vars => SupplyInv'
<1> SUFFICES ASSUME SupplyInv, [Next]_vars PROVE SupplyInv'
  OBVIOUS
<1>1. NumbersInv'
  BY NextFits DEF SupplyInv
<1>2. ASSUME NEW sender \in Address, Ledger(sender)
      PROVE  SupplyInv'
  <2>1. batch' = NoBatch
    BY <1>2, LedgerFits DEF SupplyInv
  <2> QED BY <1>1, <1>2, <2>1, LedgerSupply
          DEF SupplyInv, SupplyIsExact, SavedSupply, Held, HoldsSupply
<1>3. CASE UNCHANGED <<balanceVars, batch>>
  BY <1>1, <1>3 DEF SupplyInv, SupplyIsExact, SavedSupply, Held, HoldsSupply, balanceVars
<1>4. CASE Batch
  BY <1>1, <1>4, BatchSupply
<1> QED BY <1>2, <1>3, <1>4, OthersKeepBalances

LEMMA SupplyInit == Init => SupplyInv
<1> SUFFICES ASSUME Init PROVE SupplyInv
  OBVIOUS
<1>1. NumbersInv /\ batch = NoBatch
  BY InitFits DEF Init
<1>2. PICK a \in Address, n \in Nat :
        /\ balance = [b \in Address |-> IF b = a THEN n ELSE 0]
        /\ supply = n
  BY Snip20Assumption DEF Init
<1> DEFINE zero == [b \in Address |-> 0]
<1>3. SumFunction(balance) = SumFunction(zero) - zero[a] + balance[a]
  <2>1. /\ DOMAIN zero = Address /\ DOMAIN balance = Address /\ IsFiniteSet(Address)
        /\ \A b \in Address : zero[b] \in Int
        /\ \A b \in Address \ {a} : balance[b] = zero[b]
        /\ balance[a] \in Int
    BY <1>2, Snip20Assumption
  <2> HIDE DEF zero
  <2> QED BY <2>1, TotalChanges
<1>4. SumFunction(zero) = 0
  BY Snip20Assumption, TotalZero
<1>5. SumFunction(balance) = supply
  BY <1>2, <1>3, <1>4
<1> QED BY <1>1, <1>5 DEF SupplyInv, SupplyIsExact, SavedSupply, Held, HoldsSupply

(* Between messages, and within the batches that hold it back, the total   *)
(* supply is the sum of the balances, for any number of accounts and       *)
(* whatever saturates at MaxUint: a credit never does.                     *)
THEOREM SupplyAlwaysExact == Spec => []SupplyIsExact
<1>1. SupplyInv => SupplyIsExact
  BY DEF SupplyInv
<1> QED BY <1>1, SupplyInit, NextSupply, PTL DEF Spec
-----------------------------------------------------------------------------
(* Transactions and histories.                                             *)

Action == [type : {"transfer"}, from : Address, sender : Address, recipient : Address]
          \cup [type : {"mint", "burn"}, actor : Address, account : Address]
          \cup [type : {"deposit", "redeem"}]
          \cup [type : {"decoy"}, address : Address]

Tx == [id : Nat, amount : Nat, action : Action]

Logs == [Address -> Seq(Tx)]

IdsUpTo(log, n) == \A a \in Address : \A i \in DOMAIN log[a] : log[a][i].id <= n

MintOf(tx) == IF tx.action.type = "mint" THEN {<<tx.id, tx.amount>>} ELSE {}

LEMMA GainIsInt == ASSUME NEW a, NEW tx \in Tx PROVE Gain(a, tx) \in Int
<1>1. tx.amount \in Nat
  BY DEF Tx
<1> QED BY <1>1 DEF Gain

LEMMA DecoysSayNothing ==
    ASSUME NEW tx \in Tx, NEW b \in Address
    PROVE  /\ Decoy(tx, b) \in Tx /\ Decoy(tx, b).id = tx.id
           /\ \A a : Gain(a, Decoy(tx, b)) = 0
           /\ MintOf(Decoy(tx, b)) = {}
<1>1. Decoy(tx, b) = [id |-> tx.id, amount |-> tx.amount,
                      action |-> [type |-> "decoy", address |-> b]]
  BY DEF Decoy, Tx
<1>2. tx.id \in Nat /\ tx.amount \in Nat
  BY DEF Tx
<1> QED BY <1>1, <1>2 DEF Tx, Action, Gain, MintOf

LEMMA AppendGain ==
    ASSUME NEW a, NEW h \in Seq(Tx), NEW tx \in Tx
    PROVE  Gains(a, h) \in Int /\ Gains(a, Append(h, tx)) = Gains(a, h) + Gain(a, tx)
<1> DEFINE n == Len(h)
           h2 == Append(h, tx)
           f == [i \in 1..n |-> Gain(a, h[i])]
           g == [i \in 1..(n + 1) |-> Gain(a, h2[i])]
           S == 1..n
<1>1. /\ n \in Nat /\ DOMAIN h = 1..n /\ DOMAIN h2 = 1..(n + 1)
      /\ h2[n + 1] = tx /\ \A i \in 1..n : h2[i] = h[i] /\ h[i] \in Tx
  OBVIOUS
<1>2. /\ Gains(a, h) = SumFunctionOnSet(f, S) /\ Gains(a, h2) = SumFunctionOnSet(g, 1..(n + 1))
  BY <1>1 DEF Gains, SumFunction
<1>3. /\ \A i \in S : f[i] \in Int /\ f[i] = g[i] /\ g[i] \in Int
      /\ g[n + 1] = Gain(a, tx) /\ g[n + 1] \in Int
  BY <1>1, GainIsInt
<1>4. IsFiniteSet(S) /\ 1..(n + 1) = S \cup {n + 1} /\ n + 1 \notin S
  BY <1>1, UpTo
<1> HIDE DEF f, g, S, h2, n
<1>5. SumFunctionOnSet(f, S) \in Int
  BY <1>3, <1>4, SumInt
<1>6. SumFunctionOnSet(f, S) = SumFunctionOnSet(g, S)
  BY <1>3, <1>4, SumSame
<1>7. SumFunctionOnSet(g, S \cup {n + 1}) = g[n + 1] + SumFunctionOnSet(g, S)
  BY <1>3, <1>4, SumInsert
<1>8. Gains(a, h) \in Int /\ Gains(a, h2) = Gain(a, tx) + Gains(a, h)
  BY <1>2, <1>3, <1>4, <1>5, <1>6, <1>7
<1>9. Gain(a, tx) \in Int
  BY GainIsInt
<1> HIDE DEF Gains, Gain
<1> QED BY <1>8, <1>9 DEF h2

LEMMA GainsAreInt ==
    ASSUME NEW a, NEW h \in Seq(Tx)
    PROVE  Gains(a, h) \in Int
<1> DEFINE tx == [id |-> 0, amount |-> 0, action |-> [type |-> "deposit"]]
<1>1. tx \in Tx
  BY DEF Tx, Action
<1> HIDE DEF tx
<1> QED BY <1>1, AppendGain

LEMMA EntriesAreTx ==
    ASSUME NEW log \in Logs, NEW a \in Address
    PROVE  \A i \in DOMAIN log[a] : log[a][i] \in Tx /\ log[a][i].id \in Nat
<1>1. log[a] \in Seq(Tx) /\ \A tx \in Tx : tx.id \in Nat
  BY DEF Logs, Tx
<1>2. \A i \in DOMAIN log[a] : log[a][i] \in Tx
  BY <1>1
<1> QED BY <1>1, <1>2

(* What it means that a transaction was told to some accounts, and nobody  *)
(* else heard of it but as a decoy.                                        *)
Tells(old, new, accounts, tx) ==
    /\ new \in Logs
    /\ \A a \in Address :
           Gains(a, new[a]) = Gains(a, old[a]) + (IF a \in accounts THEN Gain(a, tx) ELSE 0)
    /\ Mints(new) = Mints(old) \cup (IF accounts = {} THEN {} ELSE MintOf(tx))
    /\ \A n \in Nat : IdsUpTo(old, n) /\ tx.id <= n => IdsUpTo(new, n)

LEMMA TellsNobody == ASSUME NEW log \in Logs, NEW tx \in Tx PROVE Tells(log, log, {}, tx)
<1>1. ASSUME NEW a \in Address
      PROVE  Gains(a, log[a]) \in Int
  BY AppendGain DEF Logs
<1> QED BY <1>1 DEF Tells

LEMMA TellsMore ==
    ASSUME NEW old \in Logs, NEW log, NEW new, NEW tx \in Tx, NEW A, NEW B, A \cap B = {},
           Tells(old, log, A, tx), Tells(log, new, B, tx)
    PROVE  Tells(old, new, A \cup B, tx)
<1>1. ASSUME NEW a \in Address
      PROVE  /\ Gains(a, old[a]) \in Int
             /\ Gain(a, tx) \in Int
  BY AppendGain, GainIsInt DEF Logs
<1>2. ASSUME NEW a \in Address
      PROVE  Gains(a, new[a]) =
                Gains(a, old[a]) + (IF a \in A \cup B THEN Gain(a, tx) ELSE 0)
  BY <1>1 DEF Tells
<1>3. Mints(new) = Mints(old) \cup (IF A \cup B = {} THEN {} ELSE MintOf(tx))
  BY DEF Tells
<1>4. \A n \in Nat : IdsUpTo(old, n) /\ tx.id <= n => IdsUpTo(new, n)
  BY DEF Tells
<1> QED BY <1>2, <1>3, <1>4 DEF Tells

LEMMA AppendSet ==
    ASSUME NEW h \in Seq(Tx), NEW tx \in Tx
    PROVE  ToSet(Append(h, tx)) = ToSet(h) \cup {tx}
<1> DEFINE h2 == Append(h, tx)
           n == Len(h)
<1>1. /\ n \in Nat /\ DOMAIN h = 1..n /\ DOMAIN h2 = 1..(n + 1)
      /\ h2[n + 1] = tx /\ \A i \in 1..n : h2[i] = h[i]
  OBVIOUS
<1> HIDE DEF h2, n
<1>2. ToSet(h2) = {h2[i] : i \in 1..(n + 1)} /\ ToSet(h) = {h[i] : i \in 1..n}
  BY <1>1 DEF ToSet
<1>3. {h2[i] : i \in 1..(n + 1)} = {h2[i] : i \in 1..n} \cup {h2[n + 1]}
  BY <1>1
<1>4. {h2[i] : i \in 1..n} = {h[i] : i \in 1..n}
  BY <1>1
<1> QED BY <1>1, <1>2, <1>3, <1>4 DEF h2

LEMMA MintsAre ==
    ASSUME NEW log, NEW m
    PROVE  m \in Mints(log) <=> \E a \in Address : \E t \in ToSet(log[a]) : m \in MintOf(t)
BY DEF Mints, MintOf

(* Entries: one account is told, or gets to see a decoy.                   *)
LEMMA EntryTells ==
    ASSUME NEW log \in Logs, NEW tx \in Tx, NEW b \in Address, NEW e \in Tx, NEW A,
           \/ A = {b} /\ e = tx
           \/ A = {} /\ e = Decoy(tx, b)
    PROVE  Tells(log, [log EXCEPT ![b] = Append(@, e)], A, tx)
<1> DEFINE new == [log EXCEPT ![b] = Append(@, e)]
<1>1. /\ e \in Tx /\ e.id = tx.id
      /\ \/ A = {b} /\ e = tx
         \/ A = {} /\ Gain(b, e) = 0 /\ MintOf(e) = {}
  BY DecoysSayNothing
<1>2. /\ log[b] \in Seq(Tx) /\ new[b] = Append(log[b], e)
      /\ \A a \in Address \ {b} : new[a] = log[a] /\ log[a] \in Seq(Tx)
      /\ new \in Logs
  BY <1>1 DEF Logs
<1> HIDE DEF new
<1>3. ASSUME NEW a \in Address
      PROVE  Gains(a, new[a]) =
               Gains(a, log[a]) + (IF a \in A THEN Gain(a, tx) ELSE 0)
  <2>1. CASE a = b
    <3>1. Gains(b, new[b]) = Gains(b, log[b]) + Gain(b, e) /\ Gains(b, log[b]) \in Int
      BY <1>1, <1>2, AppendGain
    <3> QED BY <1>1, <2>1, <3>1
  <2>2. CASE a # b
    <3>1. Gains(a, new[a]) = Gains(a, log[a]) /\ Gains(a, log[a]) \in Int
      BY <1>1, <1>2, <2>2, AppendGain
    <3> QED BY <2>2, <3>1
  <2> QED BY <2>1, <2>2
<1>4. Mints(new) = Mints(log) \cup MintOf(e)
  <2>1. ToSet(new[b]) = ToSet(log[b]) \cup {e}
    BY <1>1, <1>2, AppendSet
  <2>2. \A a \in Address \ {b} : ToSet(new[a]) = ToSet(log[a])
    BY <1>2
  <2> HIDE DEF MintOf, ToSet, Mints
  <2>3. \A m : (\E a \in Address : \E t \in ToSet(new[a]) : m \in MintOf(t)) <=>
               \/ \E a \in Address : \E t \in ToSet(log[a]) : m \in MintOf(t)
               \/ m \in MintOf(e)
    BY <2>1, <2>2
  <2>4. \A m : m \in Mints(new) <=> m \in Mints(log) \/ m \in MintOf(e)
    BY <2>3, MintsAre
  <2> QED BY <2>4
<1>5. ASSUME NEW n \in Nat, IdsUpTo(log, n), tx.id <= n
      PROVE  IdsUpTo(new, n)
  BY <1>1, <1>2, <1>5 DEF IdsUpTo
<1>6. MintOf(e) = IF A = {} THEN {} ELSE MintOf(tx)
  BY <1>1
<1> QED BY <1>2, <1>3, <1>4, <1>5, <1>6 DEF Tells, new

LEMMA DecoyTells ==
    ASSUME NEW log \in Logs, NEW tx \in Tx, NEW b \in Address
    PROVE  Tells(log, [log EXCEPT ![b] = Append(@, Decoy(tx, b))], {}, tx)
BY EntryTells, DecoysSayNothing

\* The same entry for several accounts.
LEMMA WithEntryTells ==
    ASSUME NEW log \in Logs, NEW tx \in Tx, NEW accounts \in SUBSET Address
    PROVE  Tells(log, WithEntry(log, accounts, tx), accounts, tx)
<1> DEFINE new == WithEntry(log, accounts, tx)
<1>1. /\ \A a \in accounts : log[a] \in Seq(Tx) /\ new[a] = Append(log[a], tx)
      /\ \A a \in Address \ accounts : log[a] \in Seq(Tx) /\ new[a] = log[a]
      /\ new \in Logs
  <2>1. \A a \in Address : log[a] \in Seq(Tx) /\ Append(log[a], tx) \in Seq(Tx)
    BY DEF Logs
  <2>2. /\ new = [a \in Address |-> new[a]]
        /\ \A a \in Address :
             new[a] = IF a \in accounts THEN Append(log[a], tx) ELSE log[a]
    BY DEF WithEntry
  <2> HIDE DEF new
  <2>3. \A a \in Address : new[a] \in Seq(Tx)
    BY <2>1, <2>2
  <2> QED BY <2>1, <2>2, <2>3 DEF Logs
<1> HIDE DEF new
<1>2. ASSUME NEW a \in Address
      PROVE  Gains(a, new[a]) = Gains(a, log[a]) + (IF a \in accounts THEN Gain(a, tx) ELSE 0)
  <2>1. Gains(a, log[a]) \in Int
    BY <1>1, AppendGain
  <2>2. CASE a \in accounts
    BY <1>1, <2>2, AppendGain
  <2>3. CASE a \notin accounts
    <3>1. new[a] = log[a]
      BY <1>1, <2>3
    <3> HIDE DEF Gains
    <3> QED BY <2>1, <2>3, <3>1
  <2> QED BY <2>2, <2>3
<1>3. Mints(new) = Mints(log) \cup (IF accounts = {} THEN {} ELSE MintOf(tx))
  <2>1. \A a \in accounts : ToSet(new[a]) = ToSet(log[a]) \cup {tx}
    BY <1>1, AppendSet
  <2>2. \A a \in Address \ accounts : ToSet(new[a]) = ToSet(log[a])
    BY <1>1
  <2> DEFINE told == IF accounts = {} THEN {} ELSE MintOf(tx)
  <2>3. \A m : m \in told <=> \E a \in accounts : m \in MintOf(tx)
    OBVIOUS
  <2> HIDE DEF told
  <2>4. \A m : (\E a \in Address : \E t \in ToSet(new[a]) : m \in MintOf(t)) <=>
               \/ \E a \in Address : \E t \in ToSet(log[a]) : m \in MintOf(t)
               \/ \E a \in accounts : m \in MintOf(tx)
    BY <2>1, <2>2
  <2>5. \A m : m \in Mints(new) <=> m \in Mints(log) \/ m \in told
    BY <2>3, <2>4, MintsAre
  <2> QED BY <2>5 DEF told
<1>4. ASSUME NEW n \in Nat, IdsUpTo(log, n), tx.id <= n
      PROVE  IdsUpTo(new, n)
  BY <1>1, <1>4 DEF IdsUpTo
<1> QED BY <1>1, <1>2, <1>3, <1>4 DEF Tells, new

(* The real account goes to the place chosen for it, and every other place *)
(* shows a decoy.                                                          *)
LEMMA Shuffles ==
    ASSUME NEW account \in Address, NEW decoys \in Disguises
    PROVE  /\ ShuffleIn(account, decoys) \in Seq(Address)
           /\ decoys.pos + 1 \in 1..Len(ShuffleIn(account, decoys))
           /\ ShuffleIn(account, decoys)[decoys.pos + 1] = account
<1> DEFINE s == decoys.accounts
           p == decoys.pos
<1>1. s \in Seq(Address) /\ p \in 0..Len(s)
  <2>1. CASE decoys = NoDecoys
    BY <2>1 DEF NoDecoys
  <2>2. ASSUME NEW accounts \in Decoys, decoys \in [accounts : {accounts}, pos : 0..Len(accounts)]
        PROVE  s \in Seq(Address) /\ p \in 0..Len(s)
    BY <2>2, Snip20Assumption
  <2> QED BY <2>1, <2>2 DEF Disguises
<1> DEFINE front == SubSeq(s, 1, p)
           back == SubSeq(s, p + 1, Len(s))
<1>2. front \in Seq(Address) /\ Len(front) = p
  BY <1>1
<1>3. back \in Seq(Address)
  BY <1>1
<1>4. ShuffleIn(account, decoys) = front \o <<account>> \o back
  <2>1. (p + 1) - 1 = p
    BY <1>1
  <2> HIDE DEF p
  <2> QED BY <2>1 DEF ShuffleIn, InsertAt, p
<1> HIDE DEF front, back, s
<1> QED BY <1>1, <1>2, <1>3, <1>4

\* What AddTx goes through, entry by entry.
Told(log, all, tx, decoys, i) ==
    [log EXCEPT ![all[i]] = Append(@, IF i = decoys.pos + 1 THEN tx ELSE Decoy(tx, all[i]))]

IsTxFold(log, all, tx, decoys, order, g) ==
    g = [s \in SUBSET (DOMAIN order) |->
           IF s = {} THEN log
                     ELSE Told(g[s \ {Max(s)}], all, tx, decoys, order[Max(s)])]

LEMMA AddTxIsChosen ==
    ASSUME NEW log, NEW account, NEW tx, NEW decoys, NEW all, all = ShuffleIn(account, decoys),
           NEW order, order = [i \in DOMAIN all |-> i]
    PROVE  AddTx(log, account, tx, decoys) =
              (CHOOSE g : IsTxFold(log, all, tx, decoys, order, g))[DOMAIN order]
BY DEF AddTx, FoldLeftDomain, FoldLeft, MapThenFoldSet, IsTxFold, Told

LEMMA AddTxSteps ==
    ASSUME NEW log \in Logs, NEW account \in Address, NEW tx \in Tx, NEW decoys \in Disguises,
           NEW all, all = ShuffleIn(account, decoys)
    PROVE  \E steps :
             /\ steps[0] = log
             /\ steps[Len(all)] = AddTx(log, account, tx, decoys)
             /\ \A i \in 1..Len(all) : steps[i] = Told(steps[i - 1], all, tx, decoys, i)
<1> DEFINE n == Len(all)
           order == [i \in DOMAIN all |-> i]
           F == [i \in 1..n |-> [l \in Logs |-> Told(l, all, tx, decoys, i)]]
           IsFold(g) == IsTxFold(log, all, tx, decoys, order, g)
<1>1. /\ all \in Seq(Address) /\ n \in Nat /\ DOMAIN all = 1..n /\ DOMAIN order = 1..n
      /\ \A i \in 1..n : order[i] = i
  BY Shuffles
<1>2. ASSUME NEW i \in 1..n, NEW l \in Logs
      PROVE  Told(l, all, tx, decoys, i) \in Logs
  <2>1. all[i] \in Address /\ Decoy(tx, all[i]) \in Tx
    BY <1>1, DecoysSayNothing
  <2> QED BY <2>1 DEF Logs, Told
<1>3. \A i \in 1..n : F[i] \in [Logs -> Logs]
  BY <1>2
<1>4. \A i \in 1..n : \A l \in Logs : F[i][l] = Told(l, all, tx, decoys, i)
  OBVIOUS
<1>5. AddTx(log, account, tx, decoys) = (CHOOSE g : IsFold(g))[1..n]
  <2>1. order = [i \in DOMAIN all |-> i]
    OBVIOUS
  <2> HIDE DEF order
  <2>2. AddTx(log, account, tx, decoys) =
          (CHOOSE g : IsTxFold(log, all, tx, decoys, order, g))[DOMAIN order]
    BY <2>1, AddTxIsChosen
  <2> QED BY <1>1, <2>2
<1> HIDE DEF n, F, order
<1>6. PICK g \in [SUBSET (1..n) -> Logs] : Steps(n, F, log, g)
  BY <1>1, <1>3, StepsExist
<1>7. IsFold(g)
  <2>1. ASSUME NEW s \in SUBSET (1..n), s # {}
        PROVE  g[s] = Told(g[s \ {Max(s)}], all, tx, decoys, order[Max(s)])
    <3>1. Max(s) \in 1..n /\ g[s \ {Max(s)}] \in Logs
      BY <1>1, <1>6, <2>1, MaxIn
    <3>2. g[s] = F[Max(s)][g[s \ {Max(s)}]]
      BY <1>6, <2>1 DEF Steps
    <3> QED BY <1>1, <1>4, <3>1, <3>2
  <2>2. g = [s \in SUBSET (1..n) |->
               IF s = {} THEN log ELSE Told(g[s \ {Max(s)}], all, tx, decoys, order[Max(s)])]
    BY <1>6, <2>1 DEF Steps
  <2> QED BY <1>1, <2>2 DEF IsTxFold
<1> DEFINE h == CHOOSE f : IsFold(f)
           steps == [k \in 0..n |-> h[1..k]]
<1>8. IsFold(h)
  BY <1>7
<1>9. AddTx(log, account, tx, decoys) = h[1..n]
  BY <1>5
<1> HIDE DEF h
<1>10. h[{}] = log
  BY <1>1, <1>8 DEF IsTxFold
<1>11. ASSUME NEW k \in 1..n
       PROVE  h[1..k] = Told(h[1..(k - 1)], all, tx, decoys, k)
  <2>1. k \in Nat /\ k # 0 /\ 1..k \in SUBSET (1..n) /\ k \in 1..k
    BY <1>1
  <2>2. Max(1..k) = k /\ (1..k) \ {k} = 1..(k - 1)
    BY <2>1, MaxUpTo
  <2> HIDE DEF Max
  <2>3. h[1..k] = Told(h[(1..k) \ {Max(1..k)}], all, tx, decoys, order[Max(1..k)])
    BY <1>1, <1>8, <2>1 DEF IsTxFold
  <2> QED BY <1>1, <2>2, <2>3
<1>12. /\ steps[0] = log
       /\ steps[n] = AddTx(log, account, tx, decoys)
       /\ \A i \in 1..n : steps[i] = Told(steps[i - 1], all, tx, decoys, i)
  <2>1. steps[0] = h[1..0] /\ 1..0 = {}
    BY <1>1
  <2>2. \A i \in 1..n : steps[i] = h[1..i] /\ steps[i - 1] = h[1..(i - 1)]
    BY <1>1
  <2>3. steps[n] = h[1..n]
    BY <1>1
  <2> HIDE DEF steps
  <2> QED BY <1>9, <1>10, <1>11, <2>1, <2>2, <2>3
<1> QED BY <1>12 DEF n

LEMMA AddTxTells ==
    ASSUME NEW log \in Logs, NEW account \in Address, NEW tx \in Tx, NEW decoys \in Disguises
    PROVE  Tells(log, AddTx(log, account, tx, decoys), {account}, tx)
<1> DEFINE all == ShuffleIn(account, decoys)
           n == Len(all)
           real == decoys.pos + 1
           Knows(k) == IF real <= k THEN {account} ELSE {}
<1>1. all \in Seq(Address) /\ n \in Nat /\ real \in 1..n /\ all[real] = account
  BY Shuffles
<1>2. PICK steps :
        /\ steps[0] = log
        /\ steps[n] = AddTx(log, account, tx, decoys)
        /\ \A i \in 1..n : steps[i] = Told(steps[i - 1], all, tx, decoys, i)
  BY AddTxSteps
<1> HIDE DEF all, n
<1> DEFINE E == {k \in 1..n : ~Tells(log, steps[k], Knows(k), tx)}
<1>3. Tells(log, steps[0], Knows(0), tx)
  BY <1>1, <1>2, TellsNobody
<1>4. ASSUME NEW k \in 1..n, Tells(log, steps[k - 1], Knows(k - 1), tx)
      PROVE  Tells(log, steps[k], Knows(k), tx)
  <2> DEFINE now == IF k = real THEN {account} ELSE {}
             e == IF k = real THEN tx ELSE Decoy(tx, all[k])
             past == steps[k - 1]
  <2>1. past \in Logs /\ all[k] \in Address
    BY <1>1, <1>4 DEF Tells, n
  <2>2. steps[k] = [past EXCEPT ![all[k]] = Append(@, e)]
    BY <1>2 DEF Told
  <2>3. Tells(past, steps[k], now, tx)
    <3>1. CASE k = real
      <4>1. Tells(past, [past EXCEPT ![account] = Append(@, tx)], {account}, tx)
        BY <2>1, EntryTells
      <4> QED BY <1>1, <2>2, <3>1, <4>1
    <3>2. CASE k # real
      <4>1. Tells(past, [past EXCEPT ![all[k]] = Append(@, Decoy(tx, all[k]))], {}, tx)
        BY <2>1, DecoyTells
      <4> QED BY <2>2, <3>2, <4>1
    <3> QED BY <3>1, <3>2
  <2>4. Knows(k - 1) \cap now = {} /\ Knows(k - 1) \cup now = Knows(k)
    BY <1>1
  <2> HIDE DEF Knows, now, past
  <2> QED BY <1>4, <2>3, <2>4, TellsMore DEF past
<1> HIDE DEF Knows
<1>5. E = {}
  <2>1. SUFFICES ASSUME E # {} PROVE FALSE
    OBVIOUS
  <2>2. E \subseteq 1..n
    OBVIOUS
  <2> HIDE DEF E
  <2>3. PICK k \in E : k - 1 \notin E
    BY <1>1, <2>1, <2>2, SmallestNumber
  <2>4. k \in 1..n /\ ~Tells(log, steps[k], Knows(k), tx)
    BY DEF E
  <2>5. Tells(log, steps[k - 1], Knows(k - 1), tx)
    BY <1>1, <1>3, <2>3, <2>4 DEF E
  <2> QED BY <1>4, <2>4, <2>5
<1>6. n = 0 => FALSE
  BY <1>1
<1>7. Tells(log, steps[n], Knows(n), tx)
  BY <1>1, <1>5, <1>6
<1>8. Knows(n) = {account}
  BY <1>1 DEF Knows
<1> QED BY <1>2, <1>7, <1>8
-----------------------------------------------------------------------------
(* What is minted, and what the histories of all the accounts say.         *)

LEMMA MintedIsNat ==
    ASSUME NEW log \in Logs, IsFiniteSet(Mints(log))
    PROVE  /\ Minted(log) \in Nat
           /\ \A m \in Mints(log) : m[2] \in Nat
<1>1. ASSUME NEW m \in Mints(log)
      PROVE  m[2] \in Nat
  <2>1. PICK a \in Address : \E t \in ToSet(log[a]) : m \in MintOf(t)
    BY MintsAre
  <2>2. PICK t \in ToSet(log[a]) : m \in MintOf(t)
    BY <2>1
  <2>3. t \in Tx
    BY DEF ToSet, Logs
  <2> QED BY <2>2, <2>3 DEF MintOf, Tx
<1>2. [m \in Mints(log) |-> m[2]] \in [Mints(log) -> Nat]
  BY <1>1
<1> QED BY <1>1, <1>2, TotalNat DEF Minted

(* A transaction with a number of its own is minted once.                  *)
LEMMA MintedGrows ==
    ASSUME NEW old \in Logs, NEW new, NEW accounts, accounts # {}, NEW tx \in Tx,
           Tells(old, new, accounts, tx), IdsUpTo(old, tx.id - 1), IsFiniteSet(Mints(old))
    PROVE  /\ IsFiniteSet(Mints(new))
           /\ Minted(new) = Minted(old) + (IF tx.action.type = "mint" THEN tx.amount ELSE 0)
<1> DEFINE m == <<tx.id, tx.amount>>
           S == Mints(old)
<1>1. Mints(new) = S \cup MintOf(tx)
  BY DEF Tells
<1>2. Minted(old) \in Nat /\ \A x \in S : x[2] \in Nat
  BY MintedIsNat
<1>3. CASE tx.action.type # "mint"
  BY <1>1, <1>2, <1>3 DEF MintOf, Minted
<1>4. CASE tx.action.type = "mint"
  <2>1. Mints(new) = S \cup {m}
    BY <1>1, <1>4 DEF MintOf
  <2>2. m \notin S
    <3>1. ASSUME m \in S
          PROVE  FALSE
      <4>1. PICK a \in Address : \E t \in ToSet(old[a]) : m \in MintOf(t)
        BY <3>1, MintsAre
      <4>2. PICK t \in ToSet(old[a]) : m \in MintOf(t)
        BY <4>1
      <4>3. t.id = tx.id
        BY <4>2 DEF MintOf
      <4>4. t.id <= tx.id - 1 /\ t.id \in Nat
        BY <4>2, EntriesAreTx DEF ToSet, IdsUpTo
      <4> QED BY <4>3, <4>4
    <3> QED BY <3>1
  <2>3. tx.amount \in Nat /\ m[2] = tx.amount
    BY DEF Tx
  <2> DEFINE f == [x \in S |-> x[2]]
             g == [x \in S \cup {m} |-> x[2]]
  <2>4. /\ IsFiniteSet(S) /\ \A x \in S : f[x] \in Int /\ g[x] \in Int /\ f[x] = g[x]
        /\ g[m] = tx.amount
    BY <1>2, <2>3
  <2>5. Minted(old) = SumFunctionOnSet(f, S) /\ Minted(new) = SumFunctionOnSet(g, S \cup {m})
    BY <2>1 DEF Minted, SumFunction
  <2> HIDE DEF f, g, m, S
  <2>6. SumFunctionOnSet(f, S) = SumFunctionOnSet(g, S)
    BY <2>4, SumSame
  <2>7. SumFunctionOnSet(g, S \cup {m}) = g[m] + SumFunctionOnSet(g, S)
    BY <2>2, <2>3, <2>4, SumInsert
  <2>8. IsFiniteSet(Mints(new))
    BY <2>1, <2>4, FS_AddElement
  <2> QED BY <1>2, <1>4, <2>3, <2>4, <2>5, <2>6, <2>7, <2>8
<1> QED BY <1>3, <1>4

\* A history that is complete, beside the balances that it explains.
Explains(log, count, balances, lost) ==
    /\ log \in Logs /\ count \in Nat
    /\ IdsUpTo(log, count) /\ IsFiniteSet(Mints(log))
    /\ \A a \in Address : Gains(a, log[a]) = balances[a] + lost[a]

\* The balances that a transaction is known to change, and how.
Accounted(balances, after, accounts, tx) ==
    /\ after \in [Address -> Nat]
    /\ \A a \in Address :
          after[a] = balances[a] + (IF a \in accounts THEN Gain(a, tx) ELSE 0)

(* One more transaction, known to those whose balance it changes.          *)
LEMMA ExplainsMore ==
    ASSUME NEW log, NEW count, NEW balances \in [Address -> Nat], NEW lost \in [Address -> Nat],
           Explains(log, count, balances, lost),
           NEW new, NEW accounts, accounts # {}, NEW tx \in Tx, tx.id = count + 1,
           Tells(log, new, accounts, tx),
           NEW after, Accounted(balances, after, accounts, tx)
    PROVE  /\ Explains(new, count + 1, after, lost)
           /\ Minted(new) = Minted(log) + (IF tx.action.type = "mint" THEN tx.amount ELSE 0)
<1>1. count \in Nat /\ log \in Logs /\ tx.id - 1 = count
  BY DEF Explains
<1>2. IdsUpTo(log, count + 1)
  <2>1. \A a \in Address : \A i \in DOMAIN log[a] : log[a][i].id \in Nat
    BY <1>1, EntriesAreTx
  <2> QED BY <1>1, <2>1 DEF Explains, IdsUpTo
<1>3. IdsUpTo(new, count + 1)
  BY <1>1, <1>2 DEF Tells
<1>4. /\ IsFiniteSet(Mints(new))
      /\ Minted(new) = Minted(log) + (IF tx.action.type = "mint" THEN tx.amount ELSE 0)
  BY <1>1, MintedGrows DEF Explains
<1>5. ASSUME NEW a \in Address
      PROVE  Gains(a, new[a]) = after[a] + lost[a]
  <2>1. Gain(a, tx) \in Int
    BY GainIsInt
  <2>2. Gains(a, new[a]) = Gains(a, log[a]) + (IF a \in accounts THEN Gain(a, tx) ELSE 0)
    BY DEF Tells
  <2>3. Gains(a, log[a]) = balances[a] + lost[a]
    BY DEF Explains
  <2>4. balances[a] \in Nat /\ lost[a] \in Nat
    OBVIOUS
  <2>5. after[a] = balances[a] + (IF a \in accounts THEN Gain(a, tx) ELSE 0)
    BY DEF Accounted
  <2> QED BY <2>1, <2>2, <2>3, <2>4, <2>5
<1> QED BY <1>1, <1>3, <1>4, <1>5 DEF Tells, Explains
-----------------------------------------------------------------------------
(* What the messages, and the actions of batches, do to histories and      *)
(* balances.                                                               *)

Balances == [Address -> 0..MaxUint]
Lost == [Address -> Nat]

LEMMA StoreTransferTells ==
    ASSUME txs \in Logs, tx_count \in Nat,
           NEW owner \in Address, NEW sender \in Address, NEW receiver \in Address,
           NEW n \in Nat, NEW decoys \in Disguises,
           StoreTransfer(owner, sender, receiver, n, decoys)
    PROVE  LET tx == [id |-> tx_count + 1, amount |-> n,
                      action |-> [type |-> "transfer", from |-> owner, sender |-> sender,
                                  recipient |-> receiver]]
           IN  /\ tx \in Tx /\ Tells(txs, txs', {owner, sender, receiver}, tx)
               /\ tx_count' = tx_count + 1
<1> DEFINE tx == [id |-> tx_count + 1, amount |-> n,
                  action |-> [type |-> "transfer", from |-> owner, sender |-> sender,
                              recipient |-> receiver]]
           others == {owner, sender} \ {receiver}
           log == WithEntry(txs, others, tx)
<1>1. tx \in Tx
  BY DEF Tx, Action
<1>2. txs' = AddTx(log, receiver, tx, decoys) /\ tx_count' = tx_count + 1
  BY DEF StoreTransfer
<1> HIDE DEF tx
<1>3. Tells(txs, log, others, tx)
  BY <1>1, WithEntryTells
<1> HIDE DEF log
<1>4. Tells(log, txs', {receiver}, tx)
  BY <1>1, <1>2, <1>3, AddTxTells DEF Tells
<1>5. Tells(txs, txs', others \cup {receiver}, tx)
  BY <1>1, <1>3, <1>4, TellsMore
<1>6. others \cup {receiver} = {owner, sender, receiver}
  OBVIOUS
<1> QED BY <1>1, <1>2, <1>5, <1>6 DEF tx

LEMMA StoreActTells ==
    ASSUME txs \in Logs, tx_count \in Nat,
           NEW type \in {"mint", "burn"}, NEW actor \in Address, NEW account \in Address,
           NEW n \in Nat, NEW decoys \in Disguises,
           StoreAct(type, actor, account, n, decoys)
    PROVE  LET tx == [id |-> tx_count + 1, amount |-> n,
                      action |-> [type |-> type, actor |-> actor, account |-> account]]
           IN  /\ tx \in Tx /\ Tells(txs, txs', {actor, account}, tx)
               /\ tx_count' = tx_count + 1
<1> DEFINE tx == [id |-> tx_count + 1, amount |-> n,
                  action |-> [type |-> type, actor |-> actor, account |-> account]]
           log == IF actor # account THEN AddTx(txs, account, tx, decoys) ELSE txs
           first == IF actor # account THEN {account} ELSE {}
<1>1. tx \in Tx
  BY DEF Tx, Action
<1>2. txs' = WithEntry(log, {actor}, tx) /\ tx_count' = tx_count + 1
  BY DEF StoreAct
<1> HIDE DEF tx
<1>3. Tells(txs, log, first, tx)
  BY <1>1, AddTxTells, TellsNobody
<1> HIDE DEF log
<1>4. Tells(log, txs', {actor}, tx)
  BY <1>1, <1>2, <1>3, WithEntryTells DEF Tells
<1>5. Tells(txs, txs', first \cup {actor}, tx)
  BY <1>1, <1>3, <1>4, TellsMore
<1>6. first \cup {actor} = {actor, account}
  OBVIOUS
<1> QED BY <1>1, <1>2, <1>5, <1>6 DEF tx

(* A transfer is known to whoever pays and whoever is paid.                *)
LEMMA TransferExplained ==
    ASSUME balance \in Balances, SumFunction(balance) <= MaxUint, NEW lost \in Lost,
           Explains(txs, tx_count, balance, lost),
           NEW owner \in Address, NEW sender \in Address, NEW receiver \in Address,
           NEW n \in Nat, NEW decoys \in Disguises,
           PerformTransfer(owner, receiver, n),
           StoreTransfer(owner, sender, receiver, n, decoys)
    PROVE  Explains(txs', tx_count', balance', lost) /\ Minted(txs') = Minted(txs)
<1> DEFINE tx == [id |-> tx_count + 1, amount |-> n,
                  action |-> [type |-> "transfer", from |-> owner, sender |-> sender,
                              recipient |-> receiver]]
           paid == SubtractBalance(balance, owner, n)
           accounts == {owner, sender, receiver}
<1>1. /\ txs \in Logs /\ tx_count \in Nat
  BY DEF Explains
<1>2. /\ tx \in Tx /\ Tells(txs, txs', accounts, tx) /\ tx_count' = tx_count + 1
  BY <1>1, StoreTransferTells
<1>3. balance[owner] >= n /\ balance' = AddBalance(paid, receiver, n)
  BY DEF PerformTransfer, CanPay
<1>4. /\ paid \in Balances /\ SumFunction(paid) = SumFunction(balance) - n
      /\ SumFunction(balance) \in Nat
      /\ \A a \in Address : paid[a] = balance[a] - (IF a = owner THEN n ELSE 0)
  <2>1. paid \in Balances /\ SumFunction(paid) = SumFunction(balance) - n
    BY <1>3, Debits, DebitSum DEF Balances
  <2>2. SumFunction(balance) \in Nat
    BY BalancesAreNat DEF Balances
  <2>3. \A a \in Address : paid[a] = balance[a] - (IF a = owner THEN n ELSE 0)
    BY Amounts DEF Balances, SubtractBalance
  <2> QED BY <2>1, <2>2, <2>3
<1> HIDE DEF paid
<1>5. /\ balance' \in Balances /\ balance'[receiver] = paid[receiver] + n
      /\ \A a \in Address \ {receiver} : balance'[a] = paid[a]
  <2>1. SumFunction(paid) + n <= MaxUint
    BY <1>4, Amounts
  <2> QED BY <1>3, <1>4, <2>1, Credits, CreditSum DEF Balances, AddBalance
<1>6. ASSUME NEW a \in Address
      PROVE  balance'[a] = balance[a] + (IF a \in accounts THEN Gain(a, tx) ELSE 0)
  <2>1. Gain(a, tx) = (IF receiver = a THEN n ELSE 0) - (IF owner = a THEN n ELSE 0)
    BY DEF Gain
  <2>2. balance[a] \in Nat /\ balance'[a] = balance[a] - (IF a = owner THEN n ELSE 0)
                                               + (IF a = receiver THEN n ELSE 0)
    BY <1>4, <1>5, Amounts DEF Balances
  <2> HIDE DEF tx
  <2> QED BY <2>1, <2>2
<1>7. tx.id = tx_count + 1 /\ tx.action.type # "mint" /\ accounts # {}
  OBVIOUS
<1>8. balance \in [Address -> Nat] /\ balance' \in [Address -> Nat] /\ lost \in [Address -> Nat]
  BY <1>5, Amounts DEF Balances, Lost
<1> HIDE DEF tx, accounts
<1>9. /\ Explains(txs', tx_count + 1, balance', lost)
      /\ Minted(txs') = Minted(txs) + (IF tx.action.type = "mint" THEN tx.amount ELSE 0)
  <2>1. Accounted(balance, balance', accounts, tx)
    BY <1>6, <1>8 DEF Accounted
  <2> QED BY <1>2, <1>7, <1>8, <2>1, ExplainsMore
<1>10. Minted(txs) \in Nat
  BY <1>1, MintedIsNat DEF Explains
<1> QED BY <1>2, <1>7, <1>9, <1>10

(* What is burnt is known to whom it belonged.                             *)
LEMMA BurnExplained ==
    ASSUME balance \in Balances, NEW lost \in Lost, Explains(txs, tx_count, balance, lost),
           NEW actor \in Address, NEW owner \in Address,
           NEW n \in Nat, NEW decoys \in Disguises,
           balance[owner] >= n, balance' = SubtractBalance(balance, owner, n),
           StoreAct("burn", actor, owner, n, decoys)
    PROVE  Explains(txs', tx_count', balance', lost) /\ Minted(txs') = Minted(txs)
<1> DEFINE tx == [id |-> tx_count + 1, amount |-> n,
                  action |-> [type |-> "burn", actor |-> actor, account |-> owner]]
           accounts == {actor, owner}
<1>1. txs \in Logs /\ tx_count \in Nat
  BY DEF Explains
<1>2. tx \in Tx /\ Tells(txs, txs', accounts, tx) /\ tx_count' = tx_count + 1
  BY <1>1, StoreActTells
<1>3. balance' \in Balances
  BY Debits DEF Balances
<1>4. ASSUME NEW a \in Address
      PROVE  balance'[a] = balance[a] + (IF a \in accounts THEN Gain(a, tx) ELSE 0)
  <2>1. Gain(a, tx) = IF owner = a THEN -n ELSE 0
    BY DEF Gain
  <2>2. balance[a] \in Nat /\ balance'[a] = balance[a] - (IF a = owner THEN n ELSE 0)
    BY Amounts DEF Balances, SubtractBalance
  <2> HIDE DEF tx
  <2> QED BY <2>1, <2>2
<1>5. tx.id = tx_count + 1 /\ tx.action.type # "mint" /\ accounts # {}
  OBVIOUS
<1>6. balance \in [Address -> Nat] /\ balance' \in [Address -> Nat] /\ lost \in [Address -> Nat]
  BY <1>3, Amounts DEF Balances, Lost
<1> HIDE DEF tx, accounts
<1>7. /\ Explains(txs', tx_count + 1, balance', lost)
      /\ Minted(txs') = Minted(txs) + (IF tx.action.type = "mint" THEN tx.amount ELSE 0)
  <2>1. Accounted(balance, balance', accounts, tx)
    BY <1>4, <1>6 DEF Accounted
  <2> QED BY <1>2, <1>5, <1>6, <2>1, ExplainsMore
<1>8. Minted(txs) \in Nat
  BY <1>1, MintedIsNat DEF Explains
<1> QED BY <1>2, <1>5, <1>7, <1>8

(* What is minted is known to whom it goes, and counts as minted.          *)
LEMMA MintExplained ==
    ASSUME balance \in Balances, NEW lost \in Lost, Explains(txs, tx_count, balance, lost),
           NEW minter \in Address, NEW recipient \in Address,
           NEW n \in Nat, SumFunction(balance) + n <= MaxUint, NEW decoys \in Disguises,
           MintImpl(minter, recipient, n, decoys)
    PROVE  Explains(txs', tx_count', balance', lost) /\ Minted(txs') = Minted(txs) + n
<1> DEFINE tx == [id |-> tx_count + 1, amount |-> n,
                  action |-> [type |-> "mint", actor |-> minter, account |-> recipient]]
           accounts == {minter, recipient}
<1>1. txs \in Logs /\ tx_count \in Nat
  BY DEF Explains
<1>2. tx \in Tx /\ Tells(txs, txs', accounts, tx) /\ tx_count' = tx_count + 1
  BY <1>1, StoreActTells DEF MintImpl
<1>3. /\ balance' \in Balances /\ balance'[recipient] = balance[recipient] + n
      /\ \A a \in Address \ {recipient} : balance'[a] = balance[a]
  BY Credits, CreditSum DEF Balances, MintImpl, AddBalance
<1>4. ASSUME NEW a \in Address
      PROVE  balance'[a] = balance[a] + (IF a \in accounts THEN Gain(a, tx) ELSE 0)
  <2>1. Gain(a, tx) = IF recipient = a THEN n ELSE 0
    BY DEF Gain
  <2>2. balance[a] \in Nat /\ balance'[a] = balance[a] + (IF a = recipient THEN n ELSE 0)
    BY <1>3, Amounts DEF Balances
  <2> HIDE DEF tx
  <2> QED BY <2>1, <2>2
<1>5. tx.id = tx_count + 1 /\ tx.action.type = "mint" /\ tx.amount = n /\ accounts # {}
  OBVIOUS
<1>6. balance \in [Address -> Nat] /\ balance' \in [Address -> Nat] /\ lost \in [Address -> Nat]
  BY <1>3, Amounts DEF Balances, Lost
<1> HIDE DEF tx, accounts
<1>7. /\ Explains(txs', tx_count + 1, balance', lost)
      /\ Minted(txs') = Minted(txs) + (IF tx.action.type = "mint" THEN tx.amount ELSE 0)
  <2>1. Accounted(balance, balance', accounts, tx)
    BY <1>4, <1>6 DEF Accounted
  <2> QED BY <1>2, <1>5, <1>6, <2>1, ExplainsMore
<1> QED BY <1>2, <1>5, <1>7
-----------------------------------------------------------------------------
(* Deposits and redemptions, coin by coin.                                 *)

Worth(type, n) == IF type = "deposit" THEN n ELSE -n

JournalState == [tx_count : Nat, txs : Logs]

\* The histories after some coins, which are worth so much to the account.
Records(old, new, account, worth) ==
    /\ new \in JournalState /\ IdsUpTo(new.txs, new.tx_count)
    /\ \A a \in Address : Gains(a, new.txs[a]) =
                           Gains(a, old.txs[a]) + (IF a = account THEN worth ELSE 0)
    /\ Mints(new.txs) = Mints(old.txs)

LEMMA CoinRecords ==
    ASSUME NEW old \in JournalState, IdsUpTo(old.txs, old.tx_count),
           NEW type \in {"deposit", "redeem"}, NEW account \in Address, NEW n \in Nat,
           NEW decoys \in Disguises
    PROVE  Records(old, StoreCoin(old, type, account, n, decoys), account, Worth(type, n))
<1> DEFINE id == old.tx_count + 1
           tx == [id |-> id, amount |-> n, action |-> [type |-> type]]
           log == AddTx(old.txs, account, tx, decoys)
           new == StoreCoin(old, type, account, n, decoys)
<1>1. old.txs \in Logs /\ old.tx_count \in Nat /\ id \in Nat /\ id - 1 = old.tx_count
  BY DEF JournalState
<1>2. ASSUME NEW a \in Address
      PROVE  Gains(a, old.txs[a]) \in Int
  BY <1>1, GainsAreInt DEF Logs
<1>3. CASE n = 0
  <2>1. new = old
    BY <1>3 DEF StoreCoin
  <2>2. Worth(type, n) = 0
    <3>1. /\ Worth(type, n) \in Int
          /\ Worth(type, n) = n \/ Worth(type, n) + n = 0
      BY DEF Worth
    <3> QED BY <1>3, <3>1
  <2> HIDE DEF new
  <2> QED BY <1>2, <2>1, <2>2 DEF Records, new
<1>4. CASE n # 0
  <2>1. new = [tx_count |-> id, txs |-> log]
    BY <1>4 DEF StoreCoin
  <2>2. tx \in Tx /\ tx.id = id /\ MintOf(tx) = {} /\ \A a : Gain(a, tx) = Worth(type, n)
    BY <1>1 DEF Tx, Action, MintOf, Gain, Worth
  <2> HIDE DEF tx
  <2>3. Tells(old.txs, log, {account}, tx)
    BY <1>1, <2>2, AddTxTells
  <2> HIDE DEF log, new
  <2>4. IdsUpTo(old.txs, id)
    <3>1. \A a \in Address : \A i \in DOMAIN old.txs[a] : old.txs[a][i].id \in Nat
      BY <1>1, EntriesAreTx
    <3> QED BY <1>1, <3>1 DEF IdsUpTo
  <2>5. IdsUpTo(log, id) /\ log \in Logs
    BY <1>1, <2>2, <2>3, <2>4 DEF Tells
  <2>6. Mints(log) = Mints(old.txs)
    BY <2>2, <2>3 DEF Tells
  <2>7. ASSUME NEW a \in Address
        PROVE  Gains(a, log[a]) =
                 Gains(a, old.txs[a]) + (IF a = account THEN Worth(type, n) ELSE 0)
    BY <2>2, <2>3 DEF Tells
  <2>8. new \in JournalState /\ new.txs = log /\ new.tx_count = id
    BY <1>1, <2>1, <2>5 DEF JournalState
  <2>9. Records(old, new, account, Worth(type, n))
    BY <2>5, <2>6, <2>7, <2>8 DEF Records
  <2> QED BY <2>9 DEF new
<1> QED BY <1>3, <1>4

LEMMA RecordsMore ==
    ASSUME NEW old \in JournalState, NEW mid, NEW new, NEW account, NEW m \in Int, NEW n \in Int,
           Records(old, mid, account, m), Records(mid, new, account, n)
    PROVE  Records(old, new, account, m + n)
<1>1. ASSUME NEW a \in Address
      PROVE  Gains(a, old.txs[a]) \in Int
  BY GainsAreInt DEF Logs, JournalState
<1> QED BY <1>1 DEF Records

IsCoinFold(start, type, account, coins, decoys, g) ==
    g = [s \in SUBSET (DOMAIN coins) |->
           IF s = {} THEN start
                     ELSE StoreCoin(g[s \ {Max(s)}], type, account, coins[Max(s)].amount, decoys)]

StoredCoins(start, type, account, coins, decoys) ==
    FoldLeft(LAMBDA past, coin : StoreCoin(past, type, account, coin.amount, decoys), start, coins)

LEMMA StoredIsChosen ==
    ASSUME NEW start, NEW type, NEW account, NEW coins, NEW decoys
    PROVE  StoredCoins(start, type, account, coins, decoys) =
              (CHOOSE f : IsCoinFold(start, type, account, coins, decoys, f))[DOMAIN coins]
BY DEF StoredCoins, FoldLeft, MapThenFoldSet, IsCoinFold

LEMMA StoredSteps ==
    ASSUME NEW start \in JournalState, IdsUpTo(start.txs, start.tx_count),
           NEW type \in {"deposit", "redeem"}, NEW account \in Address,
           NEW n \in Nat, NEW coins, DOMAIN coins = 1..n, \A i \in 1..n : coins[i].amount \in Nat,
           NEW decoys \in Disguises
    PROVE  \E steps :
             /\ steps[0] = start
             /\ steps[n] = StoredCoins(start, type, account, coins, decoys)
             /\ \A i \in 1..n :
                   steps[i] = StoreCoin(steps[i - 1], type, account, coins[i].amount, decoys)
<1> DEFINE Acc == {stored \in JournalState : IdsUpTo(stored.txs, stored.tx_count)}
           Op(stored, i) == StoreCoin(stored, type, account, coins[i].amount, decoys)
           F == [i \in 1..n |-> [stored \in Acc |-> Op(stored, i)]]
           IsFold(g) == IsCoinFold(start, type, account, coins, decoys, g)
<1>1. ASSUME NEW i \in 1..n, NEW stored \in Acc
      PROVE  Op(stored, i) \in Acc
  BY CoinRecords DEF Records
<1>2. \A i \in 1..n : F[i] \in [Acc -> Acc]
  BY <1>1
<1>3. \A i \in 1..n : \A stored \in Acc : F[i][stored] = Op(stored, i)
  OBVIOUS
<1>4. start \in Acc
  OBVIOUS
<1> HIDE DEF F, Acc
<1>5. PICK g \in [SUBSET (1..n) -> Acc] : Steps(n, F, start, g)
  BY <1>2, <1>4, StepsExist
<1>6. IsFold(g)
  <2>1. ASSUME NEW s \in SUBSET (1..n), s # {}
        PROVE  g[s] = Op(g[s \ {Max(s)}], Max(s))
    <3>1. Max(s) \in 1..n /\ g[s \ {Max(s)}] \in Acc
      BY <1>5, <2>1, MaxIn
    <3>2. g[s] = F[Max(s)][g[s \ {Max(s)}]]
      BY <1>5, <2>1 DEF Steps
    <3> QED BY <1>3, <3>1, <3>2
  <2>2. g = [s \in SUBSET (1..n) |-> IF s = {} THEN start ELSE Op(g[s \ {Max(s)}], Max(s))]
    BY <1>5, <2>1 DEF Steps
  <2> QED BY <2>2 DEF IsCoinFold
<1> DEFINE h == CHOOSE f : IsFold(f)
           steps == [k \in 0..n |-> h[1..k]]
<1>7. IsFold(h)
  BY <1>6
<1>8. StoredCoins(start, type, account, coins, decoys) = h[1..n]
  <2>1. StoredCoins(start, type, account, coins, decoys) =
          (CHOOSE f : IsCoinFold(start, type, account, coins, decoys, f))[DOMAIN coins]
    BY StoredIsChosen
  <2> QED BY <2>1
<1> HIDE DEF h
<1>9. h[{}] = start
  BY <1>7 DEF IsCoinFold
<1>10. ASSUME NEW k \in 1..n
       PROVE  h[1..k] = Op(h[1..(k - 1)], k)
  <2>1. k \in Nat /\ k # 0 /\ 1..k \in SUBSET (1..n) /\ k \in 1..k
    OBVIOUS
  <2>2. Max(1..k) = k /\ (1..k) \ {k} = 1..(k - 1)
    BY <2>1, MaxUpTo
  <2> HIDE DEF Max
  <2>3. h[1..k] = Op(h[(1..k) \ {Max(1..k)}], Max(1..k))
    BY <1>7, <2>1 DEF IsCoinFold
  <2> QED BY <2>2, <2>3
<1>11. steps[0] = h[{}] /\ \A i \in 1..n : steps[i] = h[1..i] /\ steps[i - 1] = h[1..(i - 1)]
  <2>1. 1..0 = {}
    OBVIOUS
  <2> QED BY <2>1
<1>12. steps[n] = h[1..n]
  OBVIOUS
<1> HIDE DEF steps
<1> QED BY <1>8, <1>9, <1>10, <1>11, <1>12

LEMMA Worths ==
    ASSUME NEW type, NEW m \in Nat, NEW n \in Nat
    PROVE  /\ Worth(type, n) \in Int /\ (n = 0 => Worth(type, n) = 0)
           /\ Worth(type, m) + Worth(type, n) = Worth(type, m + n)
<1>1. /\ Worth(type, n) \in Int
      /\ Worth(type, n) = n \/ Worth(type, n) + n = 0
  BY DEF Worth
<1>2. Worth(type, m) + Worth(type, n) = Worth(type, m + n)
  BY DEF Worth
<1> QED BY <1>1, <1>2

\* Coins in the order in which a message lists them.
Coins(coins, n) ==
    /\ DOMAIN coins = 1..n
    /\ \A i \in 1..n : coins[i].amount \in Nat

SumTo(coins, k) == SumFunctionOnSet([i \in DOMAIN coins |-> coins[i].amount], 1..k)

LEMMA SumSteps ==
    ASSUME NEW n \in Nat, NEW coins, Coins(coins, n)
    PROVE  /\ SumTo(coins, 0) = 0 /\ SumTo(coins, n) = Total(coins)
           /\ \A k \in 0..n : SumTo(coins, k) \in Nat
           /\ \A k \in 1..n : SumTo(coins, k) = SumTo(coins, k - 1) + coins[k].amount
<1> DEFINE f == [i \in DOMAIN coins |-> coins[i].amount]
<1>1. /\ DOMAIN f = 1..n /\ \A i \in 1..n : f[i] = coins[i].amount /\ f[i] \in Nat
  BY DEF Coins
<1>2. /\ \A k : SumTo(coins, k) = SumFunctionOnSet(f, 1..k)
      /\ Total(coins) = SumFunctionOnSet(f, DOMAIN f)
  <2>1. Total(coins) = SumFunctionOnSet(f, DOMAIN f)
    BY DEF Total, SumFunction
  <2>2. ASSUME NEW k
        PROVE  SumTo(coins, k) = SumFunctionOnSet(f, 1..k)
    BY Zenon DEF SumTo
  <2> QED BY <2>1, <2>2
<1> HIDE DEF f
<1>3. SumTo(coins, 0) = 0
  <2>1. 1..0 = {}
    OBVIOUS
  <2> QED BY <1>2, <2>1, SumEmpty
<1>4. ASSUME NEW k \in 1..n
      PROVE  /\ SumTo(coins, k - 1) \in Nat
             /\ SumTo(coins, k) = SumTo(coins, k - 1) + coins[k].amount
  <2>1. /\ SumFunctionOnSet(f, 1..(k - 1)) \in Nat
        /\ SumFunctionOnSet(f, 1..k) = SumFunctionOnSet(f, 1..(k - 1)) + f[k]
    BY <1>1, SumUpTo
  <2> QED BY <1>1, <1>2, <2>1
<1>5. ASSUME NEW k \in 0..n
      PROVE  SumTo(coins, k) \in Nat
  <2>1. CASE k = 0
    BY <1>3, <2>1
  <2>2. CASE k # 0
    <3>1. k \in 1..n /\ coins[k].amount \in Nat
      BY <2>2 DEF Coins
    <3> QED BY <1>4, <3>1
  <2> QED BY <2>1, <2>2
<1> QED BY <1>1, <1>2, <1>3, <1>4, <1>5

(* The coins of a deposit are worth their sum to the account.              *)
LEMMA StoredTotal ==
    ASSUME NEW start \in JournalState, IdsUpTo(start.txs, start.tx_count),
           NEW type \in {"deposit", "redeem"}, NEW account \in Address,
           NEW n \in Nat, NEW coins, Coins(coins, n), NEW decoys \in Disguises
    PROVE  Records(start, StoredCoins(start, type, account, coins, decoys), account,
                   Worth(type, Total(coins)))
<1>1. PICK steps :
        /\ steps[0] = start
        /\ steps[n] = StoredCoins(start, type, account, coins, decoys)
        /\ \A i \in 1..n :
              steps[i] = StoreCoin(steps[i - 1], type, account, coins[i].amount, decoys)
  <2>1. DOMAIN coins = 1..n /\ \A i \in 1..n : coins[i].amount \in Nat
    BY DEF Coins
  <2> QED BY <2>1, StoredSteps
<1>2. /\ SumTo(coins, 0) = 0 /\ SumTo(coins, n) = Total(coins)
      /\ \A k \in 0..n : SumTo(coins, k) \in Nat
      /\ \A k \in 1..n : SumTo(coins, k) = SumTo(coins, k - 1) + coins[k].amount
  BY SumSteps
<1> DEFINE Upheld(k) == Records(start, steps[k], account, Worth(type, SumTo(coins, k)))
           E == {k \in 1..n : ~Upheld(k)}
<1>3. Upheld(0)
  <2>1. ASSUME NEW a \in Address
        PROVE  Gains(a, start.txs[a]) \in Int
    BY GainsAreInt DEF Logs, JournalState
  <2>2. Worth(type, SumTo(coins, 0)) = 0
    BY <1>2, Worths
  <2> QED BY <1>1, <2>1, <2>2 DEF Records
<1>4. ASSUME NEW k \in 1..n, Upheld(k - 1)
      PROVE  Upheld(k)
  <2> DEFINE m == coins[k].amount
             past == steps[k - 1]
             sum == SumTo(coins, k - 1)
  <2>1. m \in Nat /\ sum \in Nat
    BY <1>2 DEF Coins
  <2>2. past \in JournalState /\ IdsUpTo(past.txs, past.tx_count)
    BY <1>4 DEF Records
  <2>3. steps[k] = StoreCoin(past, type, account, m, decoys)
    BY <1>1
  <2> HIDE DEF past, m
  <2>4. Records(past, steps[k], account, Worth(type, m))
    BY <2>1, <2>2, <2>3, CoinRecords
  <2>5. Worth(type, sum) \in Int /\ Worth(type, m) \in Int
    BY <2>1, Worths
  <2>6. Records(start, past, account, Worth(type, sum))
    BY <1>4 DEF past
  <2>7. Worth(type, SumTo(coins, k)) = Worth(type, sum) + Worth(type, m)
    <3>1. SumTo(coins, k) = sum + m
      BY <1>2 DEF m
    <3> HIDE DEF sum
    <3> QED BY <2>1, <3>1, Worths
  <2> HIDE DEF sum
  <2>8. Records(start, steps[k], account, Worth(type, sum) + Worth(type, m))
    BY <2>4, <2>5, <2>6, RecordsMore
  <2> QED BY <2>7, <2>8
<1> HIDE DEF Upheld
<1>5. E = {}
  <2>1. SUFFICES ASSUME E # {} PROVE FALSE
    OBVIOUS
  <2>2. E \subseteq 1..n
    OBVIOUS
  <2> HIDE DEF E
  <2>3. PICK k \in E : k - 1 \notin E
    BY <2>1, <2>2, SmallestNumber
  <2>4. k \in 1..n /\ ~Upheld(k)
    BY DEF E
  <2>5. Upheld(k - 1)
    BY <1>3, <2>3, <2>4 DEF E
  <2> QED BY <1>4, <2>4, <2>5
<1>6. Upheld(n)
  BY <1>3, <1>5
<1> QED BY <1>1, <1>2, <1>6 DEF Upheld
(* The same coins, one by one, in the reserve.                             *)
Holdings == [Denom -> Nat]

Receive(held, coin) == [held EXCEPT ![coin.denom] = @ + coin.amount]

IsReceiptFold(coins, g) ==
    g = [s \in SUBSET (DOMAIN coins) |->
           IF s = {} THEN reserve ELSE Receive(g[s \ {Max(s)}], coins[Max(s)])]

LEMMA ReceivedIsChosen ==
    ASSUME NEW coins
    PROVE  Received(coins) = (CHOOSE f : IsReceiptFold(coins, f))[DOMAIN coins]
BY DEF Received, FoldLeft, MapThenFoldSet, IsReceiptFold, Receive

LEMMA ReceiveAdds ==
    ASSUME NEW held \in Holdings, NEW coin, coin.denom \in Denom, coin.amount \in Nat
    PROVE  /\ Receive(held, coin) \in Holdings
           /\ SumFunction(Receive(held, coin)) = SumFunction(held) + coin.amount
<1> DEFINE d == coin.denom
           n == coin.amount
           new == Receive(held, coin)
<1>1. /\ DOMAIN held = Denom /\ DOMAIN new = Denom /\ IsFiniteSet(Denom)
      /\ \A e \in Denom : held[e] \in Int /\ held[e] \in Nat
      /\ \A e \in Denom \ {d} : new[e] = held[e]
      /\ new[d] = held[d] + n /\ new[d] \in Int
  BY Snip20Assumption DEF Holdings, Receive
<1>2. new \in Holdings
  BY DEF Holdings, Receive
<1>3. SumFunction(held) \in Nat
  BY <1>1, TotalNat DEF Holdings
<1> HIDE DEF new
<1>4. SumFunction(new) = SumFunction(held) - held[d] + new[d]
  BY <1>1, TotalChanges
<1> QED BY <1>1, <1>2, <1>3, <1>4 DEF new

LEMMA ReceivedSteps ==
    ASSUME reserve \in Holdings, NEW n \in Nat, NEW coins, DOMAIN coins = 1..n,
           \A i \in 1..n : coins[i].denom \in Denom /\ coins[i].amount \in Nat
    PROVE  \E steps : /\ steps[0] = reserve
                      /\ steps[n] = Received(coins)
                      /\ \A i \in 1..n : steps[i] = Receive(steps[i - 1], coins[i])
<1> DEFINE F == [i \in 1..n |-> [held \in Holdings |-> Receive(held, coins[i])]]
           IsFold(g) == IsReceiptFold(coins, g)
<1>1. ASSUME NEW i \in 1..n, NEW held \in Holdings
      PROVE  Receive(held, coins[i]) \in Holdings
  BY ReceiveAdds
<1>2. \A i \in 1..n : F[i] \in [Holdings -> Holdings]
  BY <1>1
<1>3. \A i \in 1..n : \A held \in Holdings : F[i][held] = Receive(held, coins[i])
  OBVIOUS
<1> HIDE DEF F
<1>4. PICK g \in [SUBSET (1..n) -> Holdings] : Steps(n, F, reserve, g)
  BY <1>2, StepsExist
<1>5. IsFold(g)
  <2>1. ASSUME NEW s \in SUBSET (1..n), s # {}
        PROVE  g[s] = Receive(g[s \ {Max(s)}], coins[Max(s)])
    <3>1. Max(s) \in 1..n /\ g[s \ {Max(s)}] \in Holdings
      BY <1>4, <2>1, MaxIn
    <3>2. g[s] = F[Max(s)][g[s \ {Max(s)}]]
      BY <1>4, <2>1 DEF Steps
    <3> QED BY <1>3, <3>1, <3>2
  <2>2. g = [s \in SUBSET (1..n) |->
               IF s = {} THEN reserve ELSE Receive(g[s \ {Max(s)}], coins[Max(s)])]
    BY <1>4, <2>1 DEF Steps
  <2> QED BY <2>2 DEF IsReceiptFold
<1> DEFINE h == CHOOSE f : IsFold(f)
           steps == [k \in 0..n |-> h[1..k]]
<1>6. IsFold(h)
  BY <1>5
<1>7. Received(coins) = h[1..n]
  <2>1. Received(coins) = (CHOOSE f : IsReceiptFold(coins, f))[DOMAIN coins]
    BY ReceivedIsChosen
  <2> QED BY <2>1
<1> HIDE DEF h
<1>8. h[{}] = reserve
  BY <1>6 DEF IsReceiptFold
<1>9. ASSUME NEW k \in 1..n
      PROVE  h[1..k] = Receive(h[1..(k - 1)], coins[k])
  <2>1. k \in Nat /\ k # 0 /\ 1..k \in SUBSET (1..n) /\ k \in 1..k
    OBVIOUS
  <2>2. Max(1..k) = k /\ (1..k) \ {k} = 1..(k - 1)
    BY <2>1, MaxUpTo
  <2> HIDE DEF Max
  <2>3. h[1..k] = Receive(h[(1..k) \ {Max(1..k)}], coins[Max(1..k)])
    BY <1>6, <2>1 DEF IsReceiptFold
  <2> QED BY <2>2, <2>3
<1>10. steps[0] = h[{}] /\ \A i \in 1..n : steps[i] = h[1..i] /\ steps[i - 1] = h[1..(i - 1)]
  <2>1. 1..0 = {}
    OBVIOUS
  <2> QED BY <2>1
<1>11. steps[n] = h[1..n]
  OBVIOUS
<1> HIDE DEF steps
<1> QED BY <1>7, <1>8, <1>9, <1>10, <1>11

LEMMA ReceivedTotal ==
    ASSUME reserve \in Holdings, NEW n \in Nat, NEW coins, Coins(coins, n),
           \A i \in 1..n : coins[i].denom \in Denom
    PROVE  /\ Received(coins) \in Holdings
           /\ SumFunction(Received(coins)) = SumFunction(reserve) + Total(coins)
<1>1. PICK steps : /\ steps[0] = reserve
                   /\ steps[n] = Received(coins)
                   /\ \A i \in 1..n : steps[i] = Receive(steps[i - 1], coins[i])
  <2>1. DOMAIN coins = 1..n /\ \A i \in 1..n : coins[i].denom \in Denom /\ coins[i].amount \in Nat
    BY DEF Coins
  <2> QED BY <2>1, ReceivedSteps
<1>2. /\ SumTo(coins, 0) = 0 /\ SumTo(coins, n) = Total(coins)
      /\ \A k \in 0..n : SumTo(coins, k) \in Nat
      /\ \A k \in 1..n : SumTo(coins, k) = SumTo(coins, k - 1) + coins[k].amount
  BY SumSteps
<1>3. SumFunction(reserve) \in Nat
  BY TotalNat, Snip20Assumption DEF Holdings
<1> DEFINE Upheld(k) == /\ steps[k] \in Holdings
                      /\ SumFunction(steps[k]) = SumFunction(reserve) + SumTo(coins, k)
           E == {k \in 1..n : ~Upheld(k)}
<1>4. Upheld(0)
  BY <1>1, <1>2, <1>3
<1>5. ASSUME NEW k \in 1..n, Upheld(k - 1)
      PROVE  Upheld(k)
  <2>1. /\ coins[k].amount \in Nat /\ coins[k].denom \in Denom
        /\ SumTo(coins, k - 1) \in Nat
        /\ SumTo(coins, k) = SumTo(coins, k - 1) + coins[k].amount
    BY <1>2 DEF Coins
  <2>2. /\ Receive(steps[k - 1], coins[k]) \in Holdings
        /\ SumFunction(Receive(steps[k - 1], coins[k])) =
             SumFunction(steps[k - 1]) + coins[k].amount
    BY <1>5, <2>1, ReceiveAdds
  <2>3. steps[k] = Receive(steps[k - 1], coins[k])
    BY <1>1
  <2> QED BY <1>3, <1>5, <2>1, <2>2, <2>3
<1> HIDE DEF Upheld
<1>6. E = {}
  <2>1. SUFFICES ASSUME E # {} PROVE FALSE
    OBVIOUS
  <2>2. E \subseteq 1..n
    OBVIOUS
  <2> HIDE DEF E
  <2>3. PICK k \in E : k - 1 \notin E
    BY <2>1, <2>2, SmallestNumber
  <2>4. k \in 1..n /\ ~Upheld(k)
    BY DEF E
  <2>5. Upheld(k - 1)
    BY <1>4, <2>3, <2>4 DEF E
  <2> QED BY <1>5, <2>4, <2>5
<1>7. Upheld(n)
  BY <1>4, <1>6
<1> QED BY <1>1, <1>2, <1>7 DEF Upheld

LEMMA FundsAreCoins ==
    ASSUME NEW funds \in Funds
    PROVE  \E n \in Nat : Coins(funds, n) /\ \A i \in 1..n : funds[i].denom \in Denom
<1>1. \A coin \in Coin : coin.denom \in Denom /\ coin.amount \in Nat
  BY Amounts DEF Coin
<1>2. CASE \E coin \in Coin : funds = <<coin>>
  <2>1. Coins(funds, 1) /\ \A i \in 1..1 : funds[i].denom \in Denom
    BY <1>1, <1>2 DEF Coins
  <2> QED BY <2>1
<1>3. CASE funds \in Coin \X Coin
  <2>1. PICK c \in Coin, d \in Coin : funds = <<c, d>>
    BY <1>3
  <2>2. Coins(funds, 2) /\ \A i \in 1..2 : funds[i].denom \in Denom
    BY <1>1, <2>1 DEF Coins
  <2> QED BY <2>2
<1> QED BY <1>2, <1>3 DEF Funds
LEMMA CoinsRecorded ==
    ASSUME txs \in Logs, tx_count \in Nat, IdsUpTo(txs, tx_count),
           NEW type \in {"deposit", "redeem"}, NEW account \in Address,
           NEW n \in Nat, NEW coins, Coins(coins, n), NEW decoys \in Disguises,
           StoreCoins(type, account, coins, decoys)
    PROVE  /\ txs' \in Logs /\ tx_count' \in Nat /\ IdsUpTo(txs', tx_count')
           /\ \A a \in Address :
                 Gains(a, txs'[a]) = Gains(a, txs[a])
                                     + (IF a = account THEN Worth(type, Total(coins)) ELSE 0)
           /\ Mints(txs') = Mints(txs) /\ Minted(txs') = Minted(txs)
<1> DEFINE start == [tx_count |-> tx_count, txs |-> txs]
           end == StoredCoins(start, type, account, coins, decoys)
<1>1. start \in JournalState /\ start.txs = txs /\ start.tx_count = tx_count
  BY DEF JournalState
<1>2. txs' = end.txs /\ tx_count' = end.tx_count
  BY DEF StoreCoins, StoredCoins, FoldLeft, MapThenFoldSet
<1> HIDE DEF start
<1>3. Records(start, end, account, Worth(type, Total(coins)))
  BY <1>1, StoredTotal
<1> HIDE DEF end
<1>4. Minted(txs') = Minted(txs)
  BY <1>1, <1>2, <1>3 DEF Records, Minted
<1> QED BY <1>1, <1>2, <1>3, <1>4 DEF Records, JournalState

\* What the proofs need to know of the reserve while no batch is under way.
Backed(supplied, held, log) == supplied <= SumFunction(held) + Minted(log)

LEMMA DepositExplained ==
    ASSUME balance \in Balances, uncredited \in Lost, reserve \in Holdings,
           supply \in 0..MaxUint, SumFunction(balance) = supply,
           Explains(txs, tx_count, balance, uncredited), Backed(supply, reserve, txs),
           NEW account \in Address, NEW funds \in Funds, NEW decoys \in Disguises,
           Deposit(account, funds, decoys)
    PROVE  /\ uncredited' \in Lost /\ reserve' \in Holdings
           /\ Explains(txs', tx_count', balance', uncredited')
           /\ Backed(supply', reserve', txs')
<1> DEFINE total == Total(funds)
           added == SafeAdd(supply, total) - supply
<1>1. PICK n \in Nat : Coins(funds, n) /\ \A i \in 1..n : funds[i].denom \in Denom
  BY FundsAreCoins
<1>2. /\ total \in Nat
      /\ supply' = supply + added
      /\ balance' = AddBalance(balance, account, added)
      /\ uncredited' = [uncredited EXCEPT ![account] = @ + total - added]
      /\ reserve' = Received(funds)
      /\ StoreCoins("deposit", account, funds, decoys)
  BY Amounts DEF Deposit
<1>3. txs \in Logs /\ tx_count \in Nat /\ IdsUpTo(txs, tx_count) /\ IsFiniteSet(Mints(txs))
  BY DEF Explains
<1>4. reserve' \in Holdings /\ SumFunction(reserve') = SumFunction(reserve) + total
  BY <1>1, <1>2, ReceivedTotal
<1>5. /\ txs' \in Logs /\ tx_count' \in Nat /\ IdsUpTo(txs', tx_count')
      /\ \A a \in Address : Gains(a, txs'[a]) = Gains(a, txs[a])
                                + (IF a = account THEN Worth("deposit", total) ELSE 0)
      /\ Mints(txs') = Mints(txs) /\ Minted(txs') = Minted(txs)
  <2> HIDE DEF total
  <2>1. "deposit" \in {"deposit", "redeem"}
    OBVIOUS
  <2>2. StoreCoins("deposit", account, funds, decoys)
    BY <1>2
  <2> QED BY <1>1, <1>3, <2>1, <2>2, CoinsRecorded DEF total
<1>6. Worth("deposit", total) = total
  BY DEF Worth
<1> HIDE DEF total
<1>7. added \in Nat /\ added <= total /\ supply + added <= MaxUint
  BY <1>2, Saturates, Amounts
<1> HIDE DEF added
<1>8. /\ balance'[account] = balance[account] + added
      /\ \A a \in Address \ {account} : balance'[a] = balance[a]
  BY <1>2, <1>7, CreditSum DEF Balances, AddBalance
<1>9. uncredited' \in Lost
  BY <1>2, <1>7 DEF Lost
<1>10. ASSUME NEW a \in Address
       PROVE  Gains(a, txs'[a]) = balance'[a] + uncredited'[a]
  <2>1. Gains(a, txs[a]) = balance[a] + uncredited[a]
    BY DEF Explains
  <2>2. Gains(a, txs'[a]) = Gains(a, txs[a]) + (IF a = account THEN total ELSE 0)
    BY <1>5, <1>6
  <2>3. balance[a] \in Nat /\ uncredited[a] \in Nat
    BY Amounts DEF Balances, Lost
  <2>4. /\ balance'[a] = balance[a] + (IF a = account THEN added ELSE 0)
        /\ uncredited'[a] = uncredited[a] + (IF a = account THEN total - added ELSE 0)
    <3>1. uncredited'[a] = IF a = account THEN uncredited[a] + total - added ELSE uncredited[a]
      BY <1>2 DEF Lost
    <3> QED BY <1>2, <1>7, <1>8, <2>3, <3>1
  <2> HIDE DEF Gains
  <2> QED BY <1>2, <1>7, <2>1, <2>2, <2>3, <2>4
<1>11. Explains(txs', tx_count', balance', uncredited')
  BY <1>3, <1>5, <1>10 DEF Explains
<1>12. Backed(supply', reserve', txs')
  <2>1. SumFunction(reserve) \in Nat /\ Minted(txs) \in Nat /\ supply \in Nat
    BY <1>3, TotalNat, MintedIsNat, Snip20Assumption DEF Holdings
  <2>2. supply <= SumFunction(reserve) + Minted(txs)
    BY DEF Backed
  <2>3. supply' <= SumFunction(reserve') + Minted(txs')
    BY <1>2, <1>4, <1>5, <1>7, <2>1, <2>2
  <2> QED BY <2>3 DEF Backed
<1> QED BY <1>4, <1>9, <1>11, <1>12

LEMMA RedeemExplained ==
    ASSUME balance \in Balances, uncredited \in Lost, reserve \in Holdings,
           supply \in 0..MaxUint, denoms \subseteq Denom,
           Explains(txs, tx_count, balance, uncredited), Backed(supply, reserve, txs),
           NEW account \in Address, NEW amount \in Amount, NEW denom, NEW decoys \in Disguises,
           Redeem(account, amount, denom, decoys)
    PROVE  /\ uncredited' \in Lost /\ reserve' \in Holdings
           /\ Explains(txs', tx_count', balance', uncredited')
           /\ Backed(supply', reserve', txs')
<1> DEFINE coins == <<[amount |-> amount]>>
<1>1. /\ amount \in Nat /\ balance[account] >= amount /\ supply >= amount
      /\ balance' = SubtractBalance(balance, account, amount)
      /\ supply' = supply - amount /\ uncredited' = uncredited
      /\ StoreCoins("redeem", account, coins, decoys)
  BY Amounts DEF Redeem, CanPay
<1>2. PICK d \in Denom : /\ amount <= reserve[d]
                         /\ reserve' = [reserve EXCEPT ![d] = @ - amount]
  BY DEF Redeem
<1>3. Coins(coins, 1) /\ coins[1].amount = amount
  BY <1>1 DEF Coins
<1>4. txs \in Logs /\ tx_count \in Nat /\ IdsUpTo(txs, tx_count) /\ IsFiniteSet(Mints(txs))
  BY DEF Explains
<1> HIDE DEF coins
<1>5. Total(coins) = amount
  BY <1>1, <1>3, SumSteps
<1>6. /\ txs' \in Logs /\ tx_count' \in Nat /\ IdsUpTo(txs', tx_count')
      /\ \A a \in Address : Gains(a, txs'[a]) = Gains(a, txs[a])
                                + (IF a = account THEN Worth("redeem", amount) ELSE 0)
      /\ Mints(txs') = Mints(txs) /\ Minted(txs') = Minted(txs)
  <2>1. "redeem" \in {"deposit", "redeem"} /\ 1 \in Nat
    OBVIOUS
  <2>2. StoreCoins("redeem", account, coins, decoys)
    BY <1>1
  <2> QED BY <1>3, <1>4, <1>5, <2>1, <2>2, CoinsRecorded
<1>7. Worth("redeem", amount) = -amount
  BY DEF Worth
<1>8. ASSUME NEW a \in Address
      PROVE  Gains(a, txs'[a]) = balance'[a] + uncredited'[a]
  <2>1. Gains(a, txs[a]) = balance[a] + uncredited[a]
    BY DEF Explains
  <2>2. Gains(a, txs'[a]) = Gains(a, txs[a]) + (IF a = account THEN -amount ELSE 0)
    BY <1>6, <1>7
  <2>3. balance[a] \in Nat /\ uncredited[a] \in Nat
    BY Amounts DEF Balances, Lost
  <2>4. balance'[a] = balance[a] - (IF a = account THEN amount ELSE 0)
    BY <1>1, <2>3 DEF Balances, SubtractBalance
  <2> HIDE DEF Gains
  <2> QED BY <1>1, <2>1, <2>2, <2>3, <2>4
<1>9. Explains(txs', tx_count', balance', uncredited')
  BY <1>4, <1>6, <1>8 DEF Explains
<1>10. reserve' \in Holdings /\ SumFunction(reserve') = SumFunction(reserve) - amount
  <2>1. /\ DOMAIN reserve = Denom /\ DOMAIN reserve' = Denom /\ IsFiniteSet(Denom)
        /\ \A e \in Denom : reserve[e] \in Int
        /\ \A e \in Denom \ {d} : reserve'[e] = reserve[e]
        /\ reserve'[d] = reserve[d] - amount /\ reserve'[d] \in Int
    BY <1>1, <1>2, Snip20Assumption DEF Holdings
  <2>2. SumFunction(reserve') = SumFunction(reserve) - reserve[d] + reserve'[d]
    BY <2>1, TotalChanges
  <2>3. SumFunction(reserve) \in Nat
    BY TotalNat, Snip20Assumption DEF Holdings
  <2>4. reserve' \in Holdings
    BY <1>1, <1>2 DEF Holdings
  <2> QED BY <1>1, <2>1, <2>2, <2>3, <2>4
<1>11. Backed(supply', reserve', txs')
  <2>1. SumFunction(reserve) \in Nat /\ Minted(txs) \in Nat /\ supply \in Nat
    BY <1>4, TotalNat, MintedIsNat, Snip20Assumption DEF Holdings
  <2>2. supply <= SumFunction(reserve) + Minted(txs)
    BY DEF Backed
  <2>3. supply' <= SumFunction(reserve') + Minted(txs')
    BY <1>1, <1>6, <1>10, <2>1, <2>2
  <2> QED BY <2>3 DEF Backed
<1> QED BY <1>1, <1>9, <1>10, <1>11
-----------------------------------------------------------------------------
(* Every message, and every action of a batch.                             *)

\* What is known of the coins.
CoinsInv == uncredited \in Lost /\ reserve \in Holdings /\ denoms \subseteq Denom

\* The records and the total supply as they are now, and as they will be if
\* the batch fails.
NowInv   == /\ Explains(txs, tx_count, balance, uncredited)
            /\ Backed(Held, reserve, txs)
SavedInv == batch # NoBatch =>
               /\ Explains(batch.saved.txs, batch.saved.tx_count, batch.saved.balance, uncredited)
               /\ Backed(supply, reserve, batch.saved.txs)

HistoryInv == SupplyInv /\ CoinsInv /\ NowInv /\ SavedInv

\* What a message does to the parts of the invariant that the supply is no
\* part of.
Recorded == /\ uncredited' \in Lost /\ reserve' \in Holdings
            /\ Explains(txs', tx_count', balance', uncredited')
            /\ Backed(supply', reserve', txs')

(* Less supply, or as much more as is minted, stays covered.               *)
LEMMA StillBacked ==
    ASSUME reserve \in Holdings, Explains(txs, tx_count, balance, uncredited),
           NEW m \in Int, NEW n \in Int, NEW minted \in Nat, n <= m + minted,
           Backed(m, reserve, txs), reserve' = reserve, Minted(txs') = Minted(txs) + minted
    PROVE  Backed(n, reserve', txs')
<1>1. SumFunction(reserve) \in Nat /\ Minted(txs) \in Nat
  BY TotalNat, MintedIsNat, Snip20Assumption DEF Holdings, Explains
<1> QED BY <1>1 DEF Backed

LEMMA Difference == ASSUME NEW m \in Int, NEW n \in Int PROVE n = m + (n - m)
OBVIOUS

LEMMA LedgerExplained ==
    ASSUME HistoryInv, batch = NoBatch, NEW sender \in Address, Ledger(sender)
    PROVE  Recorded
<1> USE Amounts
<1>1. /\ balance \in Balances /\ supply \in 0..MaxUint /\ SumFunction(balance) = supply
      /\ SumFunction(balance) <= MaxUint
      /\ uncredited \in Lost /\ reserve \in Holdings /\ denoms \subseteq Denom
      /\ Explains(txs, tx_count, balance, uncredited)
      /\ Backed(supply, reserve, txs) /\ Minted(txs) \in Nat
  <2>1. Held = supply
    BY DEF Held, HoldsSupply
  <2>2. txs \in Logs /\ IsFiniteSet(Mints(txs))
    BY DEF HistoryInv, NowInv, Explains
  <2>3. Minted(txs) \in Nat
    BY <2>2, MintedIsNat
  <2> QED BY <2>1, <2>3, SupplyOfMessage DEF HistoryInv, CoinsInv, NowInv, Balances
<1>2. ASSUME NEW funds \in Funds, NEW decoys \in Disguises, Deposit(sender, funds, decoys)
      PROVE  Recorded
  BY <1>1, <1>2, DepositExplained DEF Recorded
<1>3. ASSUME NEW amount \in Amount, NEW denom, NEW decoys \in Disguises,
             Redeem(sender, amount, denom, decoys)
      PROVE  Recorded
  BY <1>1, <1>3, RedeemExplained DEF Recorded
<1>4. ASSUME UNCHANGED outerVars, Explains(txs', tx_count', balance', uncredited),
             NEW minted \in Nat, Minted(txs') = Minted(txs) + minted,
             supply' \in Nat, supply' <= supply + minted
      PROVE  Recorded
  <2>1. reserve' = reserve /\ uncredited' = uncredited
    BY <1>4 DEF outerVars
  <2>2. supply \in Int /\ supply' \in Int
    BY <1>1, <1>4
  <2>3. Backed(supply', reserve', txs')
    BY <1>1, <1>4, <2>1, <2>2, StillBacked
  <2> QED BY <1>1, <1>4, <2>1, <2>3 DEF Recorded
<1>5. ASSUME NEW amount \in Amount, NEW decoys \in Disguises, NEW owner \in Address,
             NEW recipient \in Address,
             \/ Transfer(sender, recipient, amount, decoys)
             \/ TransferFrom(sender, owner, recipient, amount, decoys)
      PROVE  Recorded
  <2>1. /\ UNCHANGED outerVars /\ supply' = supply
        /\ \E from \in Address : /\ PerformTransfer(from, recipient, amount)
                                 /\ StoreTransfer(from, sender, recipient, amount, decoys)
    BY <1>5 DEF Transfer, TransferImpl, TransferFrom, TransferFromImpl
  <2>2. Explains(txs', tx_count', balance', uncredited) /\ Minted(txs') = Minted(txs)
    BY <1>1, <2>1, TransferExplained
  <2>3. Minted(txs') = Minted(txs) + 0 /\ supply' \in Nat /\ supply' <= supply + 0
    BY <1>1, <2>1, <2>2
  <2> QED BY <1>4, <2>1, <2>2, <2>3
<1>6. ASSUME NEW amount \in Amount, NEW decoys \in Disguises, NEW owner \in Address,
             \/ Burn(sender, amount, decoys)
             \/ BurnFrom(sender, owner, amount, decoys)
      PROVE  Recorded
  <2>1. /\ UNCHANGED outerVars /\ supply' = supply - amount /\ supply >= amount
        /\ \E from \in Address : /\ balance[from] >= amount
                                 /\ balance' = SubtractBalance(balance, from, amount)
                                 /\ StoreAct("burn", sender, from, amount, decoys)
    BY <1>6 DEF Burn, BurnFrom, BurnFromImpl, CanPay
  <2>2. Explains(txs', tx_count', balance', uncredited) /\ Minted(txs') = Minted(txs)
    BY <1>1, <2>1, BurnExplained
  <2>3. Minted(txs') = Minted(txs) + 0 /\ supply' \in Nat /\ supply' <= supply + 0
    BY <1>1, <2>1, <2>2
  <2> QED BY <1>4, <2>1, <2>2, <2>3
<1>7. ASSUME NEW amount \in Amount, NEW decoys \in Disguises, NEW recipient \in Address,
             Mint(sender, recipient, amount, decoys)
      PROVE  Recorded
  <2> DEFINE added == supply' - supply
  <2>1. /\ UNCHANGED outerVars /\ supply' = SafeAdd(supply, amount)
        /\ MintImpl(sender, recipient, added, decoys)
    BY <1>7 DEF Mint
  <2>2. added \in Nat /\ supply' \in 0..MaxUint
    BY <1>1, <2>1, Saturates
  <2>3. supply' = supply + added
    <3>1. supply \in Int /\ supply' \in Int
      BY <1>1, <2>2
    <3> QED BY <3>1, Difference
  <2> HIDE DEF added
  <2>4. Explains(txs', tx_count', balance', uncredited) /\ Minted(txs') = Minted(txs) + added
    BY <1>1, <2>1, <2>2, <2>3, MintExplained
  <2> QED BY <1>4, <2>1, <2>2, <2>3, <2>4
<1> QED BY <1>2, <1>3, <1>5, <1>6, <1>7 DEF Ledger

LEMMA BatchExplained ==
    ASSUME HistoryInv, Batch
    PROVE  CoinsInv' /\ NowInv' /\ SavedInv'
<1> USE Amounts
<1>1. /\ balance \in Balances /\ supply \in 0..MaxUint /\ SumFunction(balance) = Held
      /\ uncredited \in Lost /\ reserve \in Holdings
      /\ Explains(txs, tx_count, balance, uncredited)
      /\ Backed(Held, reserve, txs)
  BY DEF HistoryInv, CoinsInv, NowInv, SupplyInv, SupplyIsExact, NumbersInv, NumbersFit, Balances
<1>2. Held \in 0..MaxUint /\ SumFunction(balance) <= MaxUint
  BY <1>1 DEF Held, HoldsSupply, HistoryInv, SupplyInv, NumbersInv, BatchNumbersFit
<1>3. Minted(txs) \in Nat
  BY <1>1, MintedIsNat DEF Explains
<1>4. UNCHANGED <<denoms, outerVars>>
  BY DEF Batch, BeginBatch, BatchTransfer, BatchMint, BatchBurnFrom, BatchTransferFrom,
         NextAction, EndBatch, FailBatch, configVars
<1>5. CoinsInv' /\ reserve' = reserve /\ uncredited' = uncredited
  BY <1>4 DEF CoinsInv, HistoryInv, outerVars
<1>6. ASSUME NEW msg \in Batches, NEW sender \in Address, BeginBatch(msg, sender)
      PROVE  NowInv' /\ SavedInv'
  <2>1. /\ batch = NoBatch /\ UNCHANGED <<balance, supply, txs, tx_count>>
        /\ batch'.supply = supply /\ batch'.saved.balance = balance
        /\ batch'.saved.txs = txs /\ batch'.saved.tx_count = tx_count
    BY <1>6 DEF BeginBatch, Handles, balanceVars, historyVars
  <2>2. Held = supply /\ Held' = supply
    BY <2>1 DEF Held, HoldsSupply
  <2> QED BY <1>1, <1>5, <2>1, <2>2 DEF NowInv, SavedInv
<1>7. ASSUME batch # NoBatch, NEW held \in Nat, NextAction(held),
             Explains(txs', tx_count', balance', uncredited),
             NEW minted \in Nat, Minted(txs') = Minted(txs) + minted,
             IF HoldsSupply THEN held <= batch.supply + minted ELSE held = batch.supply
      PROVE  NowInv' /\ SavedInv'
  <2>1. batch' = [msg |-> batch.msg, sender |-> batch.sender, supply |-> held,
                  saved |-> batch.saved]
    BY <1>7 DEF NextAction, HistoryInv, SupplyInv, NumbersInv, BatchNumbersFit
  <2>2. /\ batch'.msg = batch.msg /\ batch'.supply = held /\ batch'.saved = batch.saved
        /\ batch' # NoBatch /\ supply' = supply
    BY <1>7, <2>1 DEF NextAction, NoBatch
  <2>3. SavedInv'
    BY <1>5, <1>7, <2>2 DEF HistoryInv, SavedInv
  <2>4. Held' \in Int /\ Held \in Int /\ Held' <= Held + minted
    BY <1>1, <1>2, <1>7, <2>2 DEF Held, HoldsSupply
  <2>5. Backed(Held', reserve', txs')
    BY <1>1, <1>5, <1>7, <2>4, StillBacked
  <2> QED BY <1>5, <1>7, <2>3, <2>5 DEF NowInv
<1>8. ASSUME batch # NoBatch
      PROVE  batch.supply \in 0..MaxUint /\ batch.sender \in Address
  BY <1>8 DEF HistoryInv, SupplyInv, NumbersInv, BatchNumbersFit
<1>9. ASSUME NEW amount \in Amount, NEW decoys \in Disguises,
             NEW owner \in Address, NEW recipient \in Address,
             \/ BatchTransfer(recipient, amount, decoys)
             \/ BatchTransferFrom(owner, recipient, amount, decoys)
      PROVE  NowInv' /\ SavedInv'
  <2>1. batch # NoBatch /\ NextAction(batch.supply) /\ ~HoldsSupply
    BY <1>9 DEF BatchTransfer, BatchTransferFrom, InBatch, HoldsSupply
  <2>2. \E from \in Address, sender \in Address :
           /\ PerformTransfer(from, recipient, amount)
           /\ StoreTransfer(from, sender, recipient, amount, decoys)
    <3>1. CASE BatchTransferFrom(owner, recipient, amount, decoys)
      BY <1>8, <2>1, <3>1 DEF BatchTransferFrom, TransferFromImpl
    <3>2. CASE BatchTransfer(recipient, amount, decoys)
      BY <1>8, <2>1, <3>2 DEF BatchTransfer, TransferImpl
    <3> QED BY <1>9, <3>1, <3>2
  <2>3. Explains(txs', tx_count', balance', uncredited) /\ Minted(txs') = Minted(txs)
    BY <1>1, <1>2, <2>2, TransferExplained
  <2>4. Minted(txs') = Minted(txs) + 0 /\ batch.supply \in Nat
    BY <1>3, <1>8, <2>1, <2>3
  <2> QED BY <1>7, <2>1, <2>3, <2>4
<1>10. ASSUME NEW amount \in Amount, NEW decoys \in Disguises, NEW recipient \in Address,
              BatchMint(recipient, amount, decoys)
       PROVE  NowInv' /\ SavedInv'
  <2> DEFINE held == SafeAdd(batch.supply, amount)
             added == held - batch.supply
  <2>1. /\ batch # NoBatch /\ NextAction(held) /\ HoldsSupply
        /\ MintImpl(batch.sender, recipient, added, decoys)
    BY <1>10 DEF BatchMint, InBatch, HoldsSupply
  <2>2. held \in 0..MaxUint /\ added \in Nat
    BY <1>8, <2>1, Saturates
  <2>3. Held = batch.supply /\ held = Held + added
    BY <1>8, <2>1, <2>2 DEF Held
  <2> HIDE DEF added, held
  <2>4. Explains(txs', tx_count', balance', uncredited) /\ Minted(txs') = Minted(txs) + added
    BY <1>1, <1>8, <2>1, <2>2, <2>3, MintExplained
  <2>5. held \in Nat /\ held <= batch.supply + added
    BY <1>2, <2>2, <2>3
  <2> QED BY <1>7, <2>1, <2>2, <2>4, <2>5
<1>11. ASSUME NEW amount \in Amount, NEW decoys \in Disguises, NEW owner \in Address,
              BatchBurnFrom(owner, amount, decoys)
       PROVE  NowInv' /\ SavedInv'
  <2>1. /\ batch # NoBatch /\ NextAction(batch.supply - amount) /\ HoldsSupply
        /\ batch.supply >= amount /\ balance[owner] >= amount
        /\ balance' = SubtractBalance(balance, owner, amount)
        /\ StoreAct("burn", batch.sender, owner, amount, decoys)
    BY <1>11 DEF BatchBurnFrom, BurnFromImpl, InBatch, HoldsSupply, CanPay
  <2>2. Explains(txs', tx_count', balance', uncredited) /\ Minted(txs') = Minted(txs)
    BY <1>1, <1>8, <2>1, BurnExplained
  <2>3. /\ Minted(txs') = Minted(txs) + 0
        /\ batch.supply - amount \in Nat /\ batch.supply - amount <= batch.supply + 0
    <3>1. batch # NoBatch
      BY <2>1
    <3>2. batch.supply \in 0..MaxUint
      BY <1>8, <3>1
    <3>3. batch.supply \in Nat /\ amount \in Nat
      BY <3>2
    <3> QED BY <1>3, <2>1, <2>2, <3>3
  <2> QED BY <1>7, <2>1, <2>2, <2>3
<1>12. ASSUME EndBatch
       PROVE  NowInv' /\ SavedInv'
  <2>1. batch' = NoBatch /\ supply' = Held /\ UNCHANGED <<balance, txs, tx_count>>
    BY <1>12 DEF EndBatch, Held, historyVars
  <2> QED BY <1>1, <1>5, <2>1 DEF NowInv, SavedInv, Held, HoldsSupply
<1>13. ASSUME FailBatch
       PROVE  NowInv' /\ SavedInv'
  <2>1. /\ batch # NoBatch /\ batch' = NoBatch /\ supply' = supply
        /\ balance' = batch.saved.balance /\ txs' = batch.saved.txs
        /\ tx_count' = batch.saved.tx_count
    BY <1>13 DEF FailBatch
  <2> QED BY <1>5, <2>1 DEF HistoryInv, NowInv, SavedInv, Held, HoldsSupply
<1>14. NowInv' /\ SavedInv'
  BY <1>6, <1>9, <1>10, <1>11, <1>12, <1>13 DEF Batch
<1> QED BY <1>5, <1>14
(* Nothing else touches the records, the supply or the coins.              *)
LEMMA OthersKeepRecords ==
    ASSUME HistoryInv, [Next]_vars
    PROVE  \/ \E sender \in Address : Ledger(sender)
           \/ Batch
           \/ /\ UNCHANGED <<balanceVars, historyVars, reserve, uncredited, batch>>
              /\ denoms' \subseteq Denom
<1> DEFINE Kept == /\ UNCHANGED <<balanceVars, historyVars, reserve, uncredited, batch>>
                   /\ denoms' \subseteq Denom
<1>1. denoms \subseteq Denom
  BY DEF HistoryInv, CoinsInv
<1>2. ASSUME NEW sender \in Address, Allowance(sender)
      PROVE  Kept
  BY <1>1, <1>2 DEF Allowance, IncreaseAllowance, DecreaseAllowance, outerVars, configVars
<1>3. ASSUME NEW sender \in Address, Administration(sender)
      PROVE  Kept
  <2>1. ASSUME NEW msg, Administers(sender, msg), denoms' \subseteq Denom
        PROVE  Kept
    BY <2>1 DEF Administers, outerVars
  <2>2. ASSUME NEW new \in ContractStatus, TokenStatus(sender, new) \/ TokenAdmin(sender)
        PROVE  Kept
    BY <1>1, <2>2 DEF TokenStatus, TokenAdmin, outerVars
  <2>3. ASSUME NEW msg, NEW named, ChangeMinters(sender, msg, named)
        PROVE  Kept
    BY <1>1, <2>1, <2>3 DEF ChangeMinters
  <2>4. ASSUME NEW msg, NEW named \in SUBSET Denom, ChangeDenoms(sender, msg, named)
        PROVE  Kept
    BY <2>1, <2>4 DEF ChangeDenoms
  <2>5. ASSUME NEW named \in SUBSET Denom,
               \/ AddSupportedDenoms(sender, named)
               \/ RemoveSupportedDenoms(sender, named)
        PROVE  Kept
    <3>1. denoms \cup named \in SUBSET Denom /\ denoms \ named \in SUBSET Denom
      BY <1>1
    <3> QED BY <2>4, <2>5, <3>1 DEF AddSupportedDenoms, RemoveSupportedDenoms
  <2>6. ASSUME NEW named \in SUBSET Address,
               \/ AddMinters(sender, named)
               \/ RemoveMinters(sender, named)
               \/ SetMinters(sender, named)
        PROVE  Kept
    BY <2>3, <2>6 DEF AddMinters, RemoveMinters, SetMinters
  <2>7. ASSUME TokenAdmin(sender)
        PROVE  Kept
    BY <1>1, <2>7 DEF TokenAdmin, outerVars
  <2> QED BY <1>3, <2>2, <2>5, <2>6, <2>7 DEF Administration
<1>4. ASSUME Tick \/ Refused \/ UNCHANGED vars
      PROVE  Kept
  BY <1>1, <1>4 DEF Tick, Refused, vars, outerVars, configVars
<1> HIDE DEF Kept
<1>5. \/ \E sender \in Address : Ledger(sender)
      \/ Batch
      \/ Kept
  BY <1>2, <1>3, <1>4 DEF Next
<1> QED BY <1>5 DEF Kept

LEMMA HistoryNext == HistoryInv /\ [Next]_vars => HistoryInv'
<1> SUFFICES ASSUME HistoryInv, [Next]_vars PROVE HistoryInv'
  OBVIOUS
<1>1. SupplyInv'
  BY NextSupply DEF HistoryInv
<1>2. ASSUME NEW sender \in Address, Ledger(sender)
      PROVE  HistoryInv'
  <2>1. batch = NoBatch /\ batch' = NoBatch
    BY <1>2, LedgerFits DEF HistoryInv, SupplyInv
  <2>2. Recorded
    BY <1>2, <2>1, LedgerExplained
  <2>3. Held' = supply'
    BY <2>1 DEF Held, HoldsSupply
  <2>4. denoms' = denoms
    BY <1>2 DEF Ledger, Deposit, Redeem, Burn, Transfer, Mint, BurnFrom, TransferFrom, configVars
  <2> QED BY <1>1, <2>1, <2>2, <2>3, <2>4 DEF HistoryInv, CoinsInv, NowInv, SavedInv, Recorded
<1>3. CASE Batch
  BY <1>1, <1>3, BatchExplained DEF HistoryInv
<1>4. CASE /\ UNCHANGED <<balanceVars, historyVars, reserve, uncredited, batch>>
           /\ denoms' \subseteq Denom
  <2>1. Held' = Held
    BY <1>4 DEF Held, HoldsSupply, balanceVars
  <2> QED BY <1>1, <1>4, <2>1
          DEF HistoryInv, CoinsInv, NowInv, SavedInv, balanceVars, historyVars
<1> QED BY <1>2, <1>3, <1>4, OthersKeepRecords

LEMMA HistoryInit == Init => HistoryInv
<1> SUFFICES ASSUME Init PROVE HistoryInv
  OBVIOUS
<1>1. PICK a \in Address, n \in Amount \cup {0} :
        LET tx == [id |-> 1, amount |-> n,
                   action |-> [type |-> "mint", actor |-> admin, account |-> a]]
        IN  /\ balance = [b \in Address |-> IF b = a THEN n ELSE 0]
            /\ supply = n
            /\ tx_count = IF n = 0 THEN 0 ELSE 1
            /\ txs = [b \in Address |-> IF n # 0 /\ b \in {a, admin} THEN <<tx>> ELSE <<>>]
  BY DEF Init
<1> DEFINE tx == [id |-> 1, amount |-> n,
                  action |-> [type |-> "mint", actor |-> admin, account |-> a]]
           none == [b \in Address |-> <<>>]
           zero == [b \in Address |-> 0]
<1>2. admin \in Address /\ n \in Nat
  BY Amounts DEF Init, AdminInit
<1>3. /\ SupplyInv /\ batch = NoBatch /\ uncredited = zero
      /\ reserve = [d \in Denom |-> 0] /\ denoms \subseteq Denom
  BY SupplyInit DEF Init
<1>4. CoinsInv
  BY <1>3 DEF CoinsInv, Lost, Holdings
<1>5. none \in Logs /\ tx \in Tx /\ zero \in [Address -> Nat]
  BY <1>2 DEF Logs, Tx, Action
<1>6. Mints(none) = {}
  BY DEF Mints, ToSet
<1>7. ASSUME NEW b \in Address
      PROVE  Gains(b, none[b]) = 0
  <2>1. none[b] = <<>> /\ DOMAIN none[b] = {}
    OBVIOUS
  <2> HIDE DEF none
  <2>2. DOMAIN [i \in DOMAIN none[b] |-> Gain(b, none[b][i])] = {}
    BY <2>1
  <2> QED BY <2>2, SumEmpty DEF Gains, SumFunction
<1>8. IsFiniteSet({}) /\ Minted(none) = 0
  <2>1. DOMAIN [mint \in Mints(none) |-> mint[2]] = {}
    BY <1>6
  <2> QED BY <2>1, SumEmpty, FS_EmptySet DEF Minted, SumFunction
<1>9. Explains(none, 0, zero, uncredited)
  <2>1. ASSUME NEW b \in Address
        PROVE  Gains(b, none[b]) = zero[b] + uncredited[b]
    <3>1. zero[b] = 0 /\ uncredited[b] = 0
      BY <1>3
    <3>2. Gains(b, none[b]) = 0
      BY <1>7
    <3> HIDE DEF none, zero
    <3> QED BY <3>1, <3>2
  <2>2. IdsUpTo(none, 0)
    BY DEF IdsUpTo
  <2> HIDE DEF none, zero
  <2> QED BY <1>5, <1>6, <1>8, <2>1, <2>2 DEF Explains
<1>10. SumFunction(reserve) = 0
  BY <1>3, TotalZero, Snip20Assumption
<1>11. Explains(txs, tx_count, balance, uncredited) /\ Minted(txs) = n
  <2>1. CASE n = 0
    <3>1. txs = none /\ tx_count = 0 /\ balance = zero
      BY <1>1, <2>1
    <3> QED BY <1>8, <1>9, <2>1, <3>1
  <2>2. CASE n # 0
    <3> DEFINE accounts == {a, admin}
    <3>1. txs = WithEntry(none, accounts, tx)
      BY <1>1, <2>2 DEF WithEntry
    <3>2. tx_count = 1 /\ tx.id = 1 /\ accounts \in SUBSET Address /\ accounts # {}
      BY <1>1, <1>2, <2>2
    <3>3. ASSUME NEW b \in Address
          PROVE  balance[b] = zero[b] + (IF b \in accounts THEN Gain(b, tx) ELSE 0)
      BY <1>1, <1>2 DEF Gain
    <3>4. balance \in [Address -> Nat] /\ uncredited \in [Address -> Nat]
      BY <1>1, <1>2, <1>3
    <3>5. tx.action.type = "mint" /\ tx.amount = n
      OBVIOUS
    <3> DEFINE nil == 0
    <3>6. tx.id = nil + 1 /\ tx_count = nil + 1
      BY <3>2
    <3>7. Explains(none, nil, zero, uncredited)
      BY <1>9
    <3> HIDE DEF tx, none, zero, accounts, nil
    <3>8. Accounted(zero, balance, accounts, tx)
      BY <3>3, <3>4 DEF Accounted
    <3>9. Tells(none, txs, accounts, tx)
      BY <1>5, <3>1, <3>2, WithEntryTells
    <3>10. /\ Explains(txs, nil + 1, balance, uncredited)
           /\ Minted(txs) = Minted(none) + (IF tx.action.type = "mint" THEN tx.amount ELSE 0)
      BY <1>5, <3>2, <3>4, <3>6, <3>7, <3>8, <3>9, ExplainsMore
    <3> QED BY <1>2, <1>8, <3>5, <3>6, <3>10
  <2> QED BY <2>1, <2>2
<1>12. Held = n
  BY <1>1, <1>3 DEF Held, HoldsSupply
<1> QED BY <1>2, <1>3, <1>4, <1>10, <1>11, <1>12 DEF HistoryInv, NowInv, SavedInv, Backed

(* For any number of accounts and decoys, and whatever fails or saturates: *)
(* what the history of an account says adds up to its balance and to what  *)
(* its deposits lost, every transaction being there once.                  *)
THEOREM HistoryAlwaysExplains == Spec => []HistoryExplainsBalance
<1>1. HistoryInv => HistoryExplainsBalance
  BY DEF HistoryInv, NowInv, Explains, HistoryExplainsBalance
<1> QED BY <1>1, HistoryInit, HistoryNext, PTL DEF Spec

(* The coins that the contract holds cover, for any number of denominations*)
(* and whatever is burnt or saturates, the tokens that nobody minted.      *)
THEOREM ReserveAlwaysCovers == Spec => []ReserveCoversSupply
<1>1. HistoryInv => ReserveCoversSupply
  BY DEF HistoryInv, NowInv, Backed, ReserveCoversSupply
<1> QED BY <1>1, HistoryInit, HistoryNext, PTL DEF Spec
=============================================================================
