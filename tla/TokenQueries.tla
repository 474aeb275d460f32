---------------------------- MODULE TokenQueries ----------------------------
(***************************************************************************)
(* Who may ask a SNIP-20 token what: viewing keys (crates/fadroma/scrt/vk),*)
(* permits (scrt/permit, the implementation for wasm32) and the private    *)
(* queries of scrt/snip20/contract/snip20.rs.                              *)
(*                                                                         *)
(* A query is told by its kind and the accounts it is about; what it       *)
(* answers is a read of Snip20's state.  Queries are never guarded, while  *)
(* the messages that change a key or revoke a permit are refused unless    *)
(* the token is operational.  Hashes have no collisions and signatures     *)
(* cannot be forged; permits are signed outside of the chain.              *)
(***************************************************************************)
EXTENDS Naturals

CONSTANTS Account,
          Nobody,      \* nothing stored, nothing asked yet
          Key,         \* keys that accounts make up themselves
          Entropy,     \* what they pass to create_viewing_key
          Name,        \* names of permits
          Token,       \* the address of this contract
          Params,      \* the permits that may be signed
          LastBlock,   \* bound: the block where the clock stops
          MaxChanges   \* bound: messages and signatures

QueryPermission == {"Allowance", "Balance", "History", "Owner"}

QueryKind == {"Balance", "TransferHistory", "TransactionHistory",
              "Allowance", "AllowancesGiven", "AllowancesReceived"}

Generated == [sender : Account, block : 0..LastBlock, entropy : Entropy]

ViewingKey == Key \cup Generated

\* A question with whatever is presented as a permit.
Signature == [signer : Account, params : Params]
Question  == [permit : [params : Params, pub_key : Account, signature : Signature],
              kind : QueryKind, of : SUBSET Account, answered : BOOLEAN]

QueriesAssumption ==
    /\ LastBlock \in Nat
    /\ Nobody \notin ViewingKey
    /\ Nobody \notin [sha256 : ViewingKey]
    /\ Nobody \notin [signer : Account, name : Name, kinds : SUBSET QueryKind]
    /\ Nobody \notin Question
    /\ \A p \in Params : /\ p.permit_name \in Name
                         /\ p.permissions \subseteq QueryPermission

VARIABLES viewing_key,   \* Account::VIEWING_KEY, hashed
          revoked,       \* the entries under NS_PERMITS: account and name
          signed,        \* external: permits that accounts have signed
          operational,   \* the token's status lets messages through
          block,         \* the height of the chain
          opened,        \* the query just made, and whether it was answered
          changes        \* bound: counts messages and signatures

queryVars == <<viewing_key, revoked, signed, operational, block, opened, changes>>

QueryInit == /\ viewing_key = [a \in Account |-> Nobody]
             /\ revoked = {}
             /\ signed = {}
             /\ operational = TRUE
             /\ block = 0
             /\ opened = Nobody
             /\ changes = 0

CountChange == /\ changes < MaxChanges
               /\ changes' = changes + 1
-----------------------------------------------------------------------------
(* Viewing keys.                                                           *)

Hash(key) == [sha256 |-> key]

\* Account::set_viewing_key, and that of the default implementation that other
\* contracts may use, which differs in the seed of create_viewing_key only.
StoreKey(account, key) ==
    /\ operational
    /\ CountChange
    /\ viewing_key' = [viewing_key EXCEPT ![account] = Hash(key)]
    /\ opened' = Nobody
    /\ UNCHANGED <<revoked, signed, operational, block>>

SetViewingKey(account, key) == StoreKey(account, key)

\* ViewingKey::new hashes the sender, the block and the entropy together with
\* the seed of the token.
CreateViewingKey(account, entropy) ==
    StoreKey(account, [sender |-> account, block |-> block, entropy |-> entropy])

\* vk::auth::authenticate: without a key, nothing opens an account.
Authenticate(account, key) ==
    viewing_key[account] # Nobody /\ viewing_key[account] = Hash(key)

\* Contract::authenticate: the key of any of the accounts will do.
AuthenticateAny(accounts, key) == \E a \in accounts : Authenticate(a, key)

\* The queries that take a key.  An allowance is about two accounts, all
\* others are about one.
KeyQuery(key, kind, of) ==
    /\ opened = Nobody
    /\ opened' = [key |-> key, kind |-> kind, of |-> of,
                  answered |-> AuthenticateAny(of, key)]
    /\ UNCHANGED <<viewing_key, revoked, signed, operational, block, changes>>
-----------------------------------------------------------------------------
(* Permits.                                                                *)

\* Permit::revoke
RevokePermit(account, name) ==
    /\ operational
    /\ CountChange
    /\ revoked' = revoked \cup {<<account, name>>}
    /\ opened' = Nobody
    /\ UNCHANGED <<viewing_key, signed, operational, block>>

\* A wallet signs: no message, and no business of the token's status.
Sign(account, params) ==
    /\ CountChange
    /\ signed' = signed \cup {[signer |-> account, params |-> params]}
    /\ opened' = Nobody
    /\ UNCHANGED <<viewing_key, revoked, operational, block>>

IsForContract(permit) == Token \in permit.params.allowed_tokens

HasPermission(permit, permission) == permission \in permit.params.permissions

\* assert_not_revoked, on the account that the public key belongs to.
Revoked(permit) == <<permit.pub_key, permit.params.permit_name>> \in revoked

\* secp256k1_verify, over the parameters as they are presented.
Verifies(permit) ==
    permit.signature = [signer |-> permit.pub_key, params |-> permit.params]

ValidateUnrevoked(permit) == IsForContract(permit) /\ Verifies(permit)

Validate(permit) == /\ IsForContract(permit)
                    /\ ~Revoked(permit)
                    /\ Verifies(permit)

\* with_permit, once the permit is valid.
Permits(permit, kind, of) ==
    \/ kind = "Balance" /\ HasPermission(permit, "Balance")
    \/ /\ kind \in {"TransferHistory", "TransactionHistory"}
       /\ HasPermission(permit, "History")
    \/ /\ kind = "Allowance"
       /\ HasPermission(permit, "Allowance")
       /\ permit.pub_key \in of
    \/ /\ kind \in {"AllowancesGiven", "AllowancesReceived"}
       /\ permit.pub_key \in of
       /\ HasPermission(permit, "Allowance") \/ HasPermission(permit, "Owner")

\* Balances and histories are always those of the account that signed.
PermitQuery(permit, kind, of) ==
    /\ kind \in {"Balance", "TransferHistory", "TransactionHistory"} => of = {permit.pub_key}
    /\ opened = Nobody
    /\ opened' = [permit |-> permit, kind |-> kind, of |-> of,
                  answered |-> Validate(permit) /\ Permits(permit, kind, of)]
    /\ UNCHANGED <<viewing_key, revoked, signed, operational, block, changes>>
-----------------------------------------------------------------------------
\* Killswitch, which this module does not detail.
SwitchStatus == /\ CountChange
                /\ operational' = ~operational
                /\ opened' = Nobody
                /\ UNCHANGED <<viewing_key, revoked, signed, block>>

NextBlock == /\ block < LastBlock
             /\ block' = block + 1
             /\ opened' = Nobody
             /\ UNCHANGED <<viewing_key, revoked, signed, operational, changes>>

\* The answer has been given.
Answer == /\ opened' = Nobody
          /\ UNCHANGED <<viewing_key, revoked, signed, operational, block, changes>>

About(kind) == IF kind = "Allowance"
               THEN {{a, b} : a, b \in Account}
               ELSE {{a} : a \in Account}

\* Any parameters with any public key, under any signature ever made.
Presented == [params : Params, pub_key : Account, signature : signed]

QueryNext == \/ \E a \in Account : \/ \E key \in Key : SetViewingKey(a, key)
                                   \/ \E entropy \in Entropy : CreateViewingKey(a, entropy)
                                   \/ \E name \in Name : RevokePermit(a, name)
                                   \/ \E params \in Params : Sign(a, params)
             \/ \E kind \in QueryKind : \E of \in About(kind) :
                    \/ \E key \in ViewingKey : KeyQuery(key, kind, of)
                    \/ \E permit \in Presented : PermitQuery(permit, kind, of)
             \/ SwitchStatus
             \/ NextBlock
             \/ Answer

QuerySpec == QueryInit /\ [][QueryNext]_queryVars
-----------------------------------------------------------------------------
(* The stores hold hashes and revocations of known accounts.               *)
QueryTypeOK == /\ viewing_key \in [Account -> {Hash(key) : key \in ViewingKey} \cup {Nobody}]
               /\ revoked \subseteq Account \X Name
               /\ signed \subseteq Signature
               /\ block \in 0..LastBlock

\* The kinds of data that a set of permissions opens.
Opens(permissions) ==
    {kind \in QueryKind :
        \/ kind = "Balance" /\ "Balance" \in permissions
        \/ kind \in {"TransferHistory", "TransactionHistory"} /\ "History" \in permissions
        \/ kind = "Allowance" /\ "Allowance" \in permissions
        \/ /\ kind \in {"AllowancesGiven", "AllowancesReceived"}
           /\ permissions \cap {"Allowance", "Owner"} # {}}

Meaning(account, params) == [signer |-> account, name |-> params.permit_name,
                             kinds |-> Opens(params.permissions)]

Chosen == [a \in Account |-> IF viewing_key[a] = Nobody THEN Nobody ELSE viewing_key[a].sha256]

Good == {s \in signed : /\ Token \in s.params.allowed_tokens
                        /\ <<s.signer, s.params.permit_name>> \notin revoked}

Issued == {Meaning(s.signer, s.params) : s \in Good}

\* A permit that is not for this contract, or not what was signed, is nobody's.
Asked ==
    IF opened = Nobody \/ "key" \in DOMAIN opened
    THEN opened
    ELSE [opened EXCEPT !.permit =
             IF IsForContract(@) /\ Verifies(@) THEN Meaning(@.pub_key, @.params) ELSE Nobody]

Access == INSTANCE ReadAccess
             WITH Key <- ViewingKey, Kind <- QueryKind,
                  Kinds <- {Opens(p.permissions) : p \in Params},
                  key <- Chosen, permits <- Issued, withdrawn <- revoked, asked <- Asked

(* A query is answered exactly when one of the accounts it is about has    *)
(* allowed it: with the key it chose last, or with a permit it signed for  *)
(* this contract and this kind of data and has never revoked.              *)
ImplementsReadAccess == Access!Spec
=============================================================================
