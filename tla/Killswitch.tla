------------------------------ MODULE Killswitch ------------------------------
(***************************************************************************)
(* The admin of a contract (crates/fadroma/admin/mod.rs) and the status    *)
(* that only the admin may set (crates/fadroma/killswitch/mod.rs).         *)
(* A message that the code refuses changes nothing and is no step.         *)
(***************************************************************************)
CONSTANTS Address, None,
          NewAddress    \* where a migration may say it goes

ASSUME KillswitchAssumption == None \notin Address

Operational == [kind |-> "Operational"]
Paused      == [kind |-> "Paused"]
Migrating   == [kind : {"Migrating"}, new_address : NewAddress \cup {None}]

ContractStatus == {Operational, Paused} \cup Migrating

VARIABLES admin,        \* admin::STORE
          pending,      \* PENDING_ADMIN
          status,       \* killswitch::STORE, Operational when nothing is stored
          chosen        \* history: whom some admin has ever named

adminVars == <<admin, pending, status, chosen>>

\* admin::init, in the contract's instantiate message.
AdminInit == \E a \in Address : /\ admin = a
                                /\ pending = None
                                /\ status = Operational
                                /\ chosen = {a}

Immediate(sender, new_admin) ==
    /\ sender = admin
    /\ admin' = new_admin
    /\ chosen' = chosen \cup {new_admin}
    /\ UNCHANGED <<pending, status>>

AnyoneNominates(sender, new_admin) ==
    /\ pending' = new_admin
    /\ UNCHANGED <<admin, status, chosen>>

TwoStep(sender, new_admin) ==
    /\ sender = admin
    /\ pending' = new_admin
    /\ chosen' = chosen \cup {new_admin}
    /\ UNCHANGED <<admin, status>>

\* change_admin without a mode.  The nomination is left in place, and outlives
\* the admin who made it.
Accept(sender) ==
    /\ pending # None
    /\ sender = pending
    /\ admin' = pending
    /\ UNCHANGED <<pending, status, chosen>>

AlwaysCanSetStatus(new) == TRUE

CanSetStatus(new) == status \in Migrating => new \in Migrating

SetStatus(sender, new) ==
    /\ sender = admin
    /\ CanSetStatus(new)
    /\ status' = new
    /\ UNCHANGED <<admin, pending, chosen>>

ChangeAdmin(sender) ==
    \/ \E a \in Address : Immediate(sender, a) \/ TwoStep(sender, a)
    \/ Accept(sender)

AdminNext == \E sender \in Address :
                 \/ ChangeAdmin(sender)
                 \/ \E new \in ContractStatus : SetStatus(sender, new)

AdminSpec == AdminInit /\ [][AdminNext]_adminVars
-----------------------------------------------------------------------------
(* The stores hold addresses and statuses.                                 *)
AdminTypeOK == /\ admin \in Address
          /\ pending \in Address \cup {None}
          /\ status \in ContractStatus
          /\ chosen \subseteq Address

(* Whoever is admin, or may become it by accepting, was named by somebody  *)
(* who was the admin at the time, all the way back to instantiation.       *)
AdminWasChosen == /\ admin \in chosen
                  /\ pending # None => pending \in chosen

(* "Permanently disabled": no sequence of status and admin changes brings  *)
(* a migrating contract back.                                              *)
MigratingIsPermanent ==
    [][(status \in Migrating) => (status' \in Migrating)]_adminVars
=============================================================================
