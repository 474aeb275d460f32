-------------------------- MODULE TokenAnswersProofs --------------------------
(***************************************************************************)
(* Proofs about what a token tells: who may query it (TokenQueries), what  *)
(* it tells the contracts that registered (TokenSends), and its lists,     *)
(* page by page (Paging).                                                  *)
(***************************************************************************)
EXTENDS TokenQueries, TokenSends, Paging, Sums, SequenceTheorems, TLAPS

(***************************************************************************)
(* Viewing keys and permits implement ReadAccess, for any accounts, keys,  *)
(* permits and contracts.                                                  *)
(***************************************************************************)
LEMMA InitTypeOK == ASSUME QueriesAssumption PROVE QueryInit => QueryTypeOK
BY DEF QueriesAssumption, QueryInit, QueryTypeOK

LEMMA NextTypeOK == ASSUME QueriesAssumption PROVE QueryTypeOK /\ [QueryNext]_queryVars => QueryTypeOK'
<1> SUFFICES ASSUME QueryTypeOK, [QueryNext]_queryVars PROVE QueryTypeOK'
  OBVIOUS
<1>1. ASSUME NEW a \in Account, NEW key \in ViewingKey, StoreKey(a, key)
      PROVE  QueryTypeOK'
  BY <1>1 DEF QueryTypeOK, StoreKey
<1>2. ASSUME NEW a \in Account, NEW key \in Key, SetViewingKey(a, key)
      PROVE  QueryTypeOK'
  BY <1>1, <1>2 DEF SetViewingKey, ViewingKey
<1>3. ASSUME NEW a \in Account, NEW e \in Entropy, CreateViewingKey(a, e)
      PROVE  QueryTypeOK'
  <2>1. [sender |-> a, block |-> block, entropy |-> e] \in ViewingKey
    BY DEF QueryTypeOK, ViewingKey, Generated
  <2> QED BY <1>1, <1>3, <2>1 DEF CreateViewingKey
<1>4. ASSUME NEW a \in Account, NEW n \in Name, RevokePermit(a, n)
      PROVE  QueryTypeOK'
  BY <1>4 DEF QueryTypeOK, RevokePermit
<1>5. ASSUME NEW a \in Account, NEW params \in Params, Sign(a, params)
      PROVE  QueryTypeOK'
  BY <1>5 DEF QueryTypeOK, Sign, Signature
<1>6. ASSUME NEW kind \in QueryKind, NEW of,
             \/ \E key \in ViewingKey : KeyQuery(key, kind, of)
             \/ \E permit \in Presented : PermitQuery(permit, kind, of)
      PROVE  QueryTypeOK'
  BY <1>6 DEF QueryTypeOK, KeyQuery, PermitQuery
<1>7. CASE SwitchStatus \/ NextBlock \/ Answer \/ UNCHANGED queryVars
  BY <1>7 DEF QueriesAssumption, QueryTypeOK, SwitchStatus, NextBlock, Answer, queryVars
<1> QED BY <1>2, <1>3, <1>4, <1>5, <1>6, <1>7 DEF QueryNext
-----------------------------------------------------------------------------
(* Messages and signatures.                                                *)

LEMMA NothingAsked == opened' = Nobody => Asked' = Nobody
BY DEF Asked

LEMMA StoreChooses ==
    ASSUME QueriesAssumption, QueryTypeOK, NEW a \in Account, NEW k \in ViewingKey, StoreKey(a, k)
    PROVE  Access!Choose(a, k)
<1>1. Hash(k) # Nobody /\ Hash(k).sha256 = k
  BY DEF QueriesAssumption, Hash
<1>2. viewing_key' = [viewing_key EXCEPT ![a] = Hash(k)]
  BY DEF StoreKey
<1>3. DOMAIN viewing_key = Account
  BY DEF QueryTypeOK
<1>4. Chosen' = [Chosen EXCEPT ![a] = k]
  BY <1>1, <1>2, <1>3 DEF QueryTypeOK, Chosen
<1>5. Issued' = Issued /\ revoked' = revoked /\ Asked' = Nobody
  BY NothingAsked DEF StoreKey, Issued, Good
<1> QED BY <1>4, <1>5 DEF Access!Choose

LEMMA RevocationWithdraws ==
    ASSUME QueriesAssumption, QueryTypeOK, NEW a \in Account, NEW n \in Name, RevokePermit(a, n)
    PROVE  Access!Withdraw(a, n)
<1>1. revoked' = revoked \cup {<<a, n>>} /\ signed' = signed
  BY DEF RevokePermit
<1>2. Good' = {s \in Good : <<s.signer, s.params.permit_name>> # <<a, n>>}
  BY <1>1 DEF Good
<1>3. \A s : LET p == Meaning(s.signer, s.params)
             IN  p.signer = s.signer /\ p.name = s.params.permit_name
  BY DEF Meaning
<1>4. Issued' = {p \in Issued : <<p.signer, p.name>> # <<a, n>>}
  BY <1>2, <1>3 DEF Issued
<1>5. Chosen' = Chosen /\ Asked' = Nobody
  BY NothingAsked DEF RevokePermit, Chosen
<1> QED BY <1>1, <1>4, <1>5 DEF Access!Withdraw

LEMMA SignatureIssues ==
    ASSUME QueriesAssumption, QueryTypeOK, NEW a \in Account, NEW params \in Params, Sign(a, params)
    PROVE  Access!Next
<1> DEFINE s == [signer |-> a, params |-> params]
<1>1. signed' = signed \cup {s} /\ revoked' = revoked
  BY DEF Sign
<1>2. Chosen' = Chosen /\ Asked' = Nobody
  BY NothingAsked DEF Sign, Chosen
<1>3. CASE Token \in params.allowed_tokens /\ <<a, params.permit_name>> \notin revoked
  <2>1. Good' = Good \cup {s}
    BY <1>1, <1>3 DEF Good
  <2>2. Issued' = Issued \cup {Meaning(a, params)}
    <3>1. s.signer = a /\ s.params = params
      OBVIOUS
    <3> HIDE DEF s
    <3> QED BY <2>1, <3>1 DEF Issued
  <2>3. Access!Issue(a, params.permit_name, Opens(params.permissions))
    BY <1>1, <1>2, <1>3, <2>2 DEF Access!Issue, Meaning
  <2>4. /\ params.permit_name \in Name
        /\ Opens(params.permissions) \in {Opens(p.permissions) : p \in Params}
    BY DEF QueriesAssumption
  <2>5. \E n \in Name : \E kinds \in {Opens(p.permissions) : p \in Params} : Access!Issue(a, n, kinds)
    BY <2>3, <2>4
  <2> QED BY <2>5 DEF Access!Next
<1>4. CASE ~(Token \in params.allowed_tokens /\ <<a, params.permit_name>> \notin revoked)
  <2>1. Good' = Good
    BY <1>1, <1>4 DEF Good
  <2> QED BY <1>1, <1>2, <2>1 DEF Issued, Access!Next, Access!Done
<1> QED BY <1>3, <1>4
-----------------------------------------------------------------------------
(* Queries.                                                                *)

LEMMA KeyAsks ==
    ASSUME QueriesAssumption, QueryTypeOK, NEW kind \in QueryKind, NEW of \in SUBSET Account,
           NEW k \in ViewingKey, KeyQuery(k, kind, of)
    PROVE  Access!AskWithKey(k, kind, of)
<1>1. ASSUME NEW a \in Account
      PROVE  Authenticate(a, k) <=> Chosen[a] = k
  <2>1. CASE viewing_key[a] = Nobody
    BY <2>1 DEF Authenticate, Chosen, QueriesAssumption
  <2>2. CASE viewing_key[a] # Nobody
    <3>1. PICK k2 \in ViewingKey : viewing_key[a] = Hash(k2)
      BY <2>2 DEF QueryTypeOK
    <3>2. Hash(k2).sha256 = k2 /\ Hash(k).sha256 = k
      BY DEF Hash
    <3>3. Chosen[a] = k2
      BY <2>2, <3>1, <3>2 DEF Chosen
    <3> QED BY <2>2, <3>1, <3>2, <3>3 DEF Authenticate
  <2> QED BY <2>1, <2>2
<1>2. AuthenticateAny(of, k) <=> \E a \in of : Chosen[a] = k
  BY <1>1 DEF AuthenticateAny
<1>3. opened' = [key |-> k, kind |-> kind, of |-> of, answered |-> AuthenticateAny(of, k)]
  BY DEF KeyQuery
<1>4. Asked' = opened'
  <2>1. "key" \in DOMAIN opened'
    BY <1>3
  <2> QED BY <2>1 DEF Asked
<1>5. AuthenticateAny(of, k) = (\E a \in of : Chosen[a] = k)
  BY <1>2 DEF AuthenticateAny
<1>6. Asked' = [key |-> k, kind |-> kind, of |-> of, answered |-> \E a \in of : Chosen[a] = k]
  BY <1>3, <1>4, <1>5
<1>7. Chosen' = Chosen /\ Issued' = Issued /\ revoked' = revoked
  BY DEF KeyQuery, Chosen, Issued, Good
<1> QED BY <1>6, <1>7 DEF Access!AskWithKey

\* What a permit means, if it is one for this contract.
SeenAs(permit) == IF IsForContract(permit) /\ Verifies(permit)
                 THEN Meaning(permit.pub_key, permit.params) ELSE Nobody

LEMMA IssuedUnrevoked ==
    ASSUME QueriesAssumption, QueryTypeOK, NEW permit \in Presented
    PROVE  SeenAs(permit) \in Issued <=> Validate(permit)
<1>1. CASE IsForContract(permit) /\ Verifies(permit)
  <2> DEFINE s == permit.signature
  <2>1. s \in signed /\ s.signer = permit.pub_key /\ s.params = permit.params
    BY <1>1 DEF Presented, Verifies
  <2>2. SeenAs(permit) = Meaning(s.signer, s.params)
    BY <1>1, <2>1 DEF SeenAs
  <2> HIDE DEF s
  <2>3. Validate(permit) => SeenAs(permit) \in Issued
    BY <1>1, <2>1, <2>2 DEF Validate, IsForContract, Revoked, Issued, Good
  <2>4. ASSUME SeenAs(permit) \in Issued
        PROVE  Validate(permit)
    <3>1. PICK t \in Good : SeenAs(permit) = Meaning(t.signer, t.params)
      BY <2>4 DEF Issued
    <3>2. t.signer = s.signer /\ t.params.permit_name = s.params.permit_name
      BY <2>2, <3>1 DEF Meaning
    <3> QED BY <1>1, <2>1, <3>2 DEF Good, Validate, Revoked
  <2> QED BY <2>3, <2>4
<1>2. CASE ~(IsForContract(permit) /\ Verifies(permit))
  <2>1. ASSUME Nobody \in Issued PROVE FALSE
    <3>1. PICK s \in signed : Nobody = Meaning(s.signer, s.params)
      BY <2>1 DEF Issued, Good
    <3>2. /\ s.signer \in Account /\ s.params \in Params
      BY DEF QueryTypeOK, Signature
    <3>3. /\ s.params.permit_name \in Name /\ Opens(s.params.permissions) \in SUBSET QueryKind
      BY <3>2 DEF QueriesAssumption, Opens
    <3>4. Meaning(s.signer, s.params) \in [signer : Account, name : Name, kinds : SUBSET QueryKind]
      BY <3>2, <3>3 DEF Meaning
    <3> QED BY <3>1, <3>4 DEF QueriesAssumption
  <2> QED BY <1>2, <2>1 DEF SeenAs, Validate
<1> QED BY <1>1, <1>2

LEMMA PermitsOpens ==
    ASSUME NEW permit, NEW kind \in QueryKind, NEW of,
           kind \in {"Balance", "TransferHistory", "TransactionHistory"} => of = {permit.pub_key}
    PROVE  Permits(permit, kind, of)
             <=> permit.pub_key \in of /\ kind \in Opens(permit.params.permissions)
BY DEF Permits, HasPermission, Opens, QueryKind

LEMMA PermitAsks ==
    ASSUME QueriesAssumption, QueryTypeOK, NEW kind \in QueryKind, NEW of \in SUBSET Account,
           NEW permit \in Presented, PermitQuery(permit, kind, of)
    PROVE  Access!AskWithPermit(SeenAs(permit), kind, of)
<1> DEFINE answer == Validate(permit) /\ Permits(permit, kind, of)
           p == SeenAs(permit)
<1>1. opened' = [permit |-> permit, kind |-> kind, of |-> of, answered |-> answer]
  BY DEF PermitQuery
<1>2. opened' # Nobody
  <2>1. permit \in [params : Params, pub_key : Account, signature : Signature]
    BY DEF Presented, QueryTypeOK
  <2>2. answer \in BOOLEAN
    BY DEF Validate
  <2> HIDE DEF answer
  <2>3. opened' \in Question
    BY <1>1, <2>1, <2>2 DEF Question
  <2> QED BY <2>3 DEF QueriesAssumption
<1>3. answer <=> p \in Issued /\ p.signer \in of /\ kind \in p.kinds
  <2>1. ASSUME Validate(permit)
        PROVE  p.signer = permit.pub_key /\ p.kinds = Opens(permit.params.permissions)
    BY <2>1 DEF Validate, SeenAs, Meaning
  <2>2. Permits(permit, kind, of)
          <=> permit.pub_key \in of /\ kind \in Opens(permit.params.permissions)
    BY PermitsOpens DEF PermitQuery
  <2> QED BY <2>1, <2>2, IssuedUnrevoked
<1>4. answer = (p \in Issued /\ p.signer \in of /\ kind \in p.kinds)
  BY <1>3
<1> HIDE DEF answer
<1>5. Asked' = [permit |-> p, kind |-> kind, of |-> of, answered |-> answer]
  <2>1. "key" \notin DOMAIN opened'
    BY <1>1
  <2>2. Asked' = [opened' EXCEPT !.permit = SeenAs(permit)]
    BY <1>1, <1>2, <2>1 DEF Asked, SeenAs
  <2> QED BY <1>1, <2>2
<1>6. Chosen' = Chosen /\ Issued' = Issued /\ revoked' = revoked
  BY DEF PermitQuery, Chosen, Issued, Good
<1> QED BY <1>4, <1>5, <1>6 DEF Access!AskWithPermit

LEMMA TakenIsPermit ==
    ASSUME QueriesAssumption, NEW permit \in Presented
    PROVE  SeenAs(permit) \in Access!Permit \cup {Nobody}
<1>1. permit.pub_key \in Account /\ permit.params \in Params
  BY DEF Presented
<1> QED BY <1>1 DEF QueriesAssumption, SeenAs, Meaning, Access!Permit
-----------------------------------------------------------------------------
(* A private query is answered exactly when an account that it is about    *)
(* has allowed it, by its latest key or by a permit that it has signed for *)
(* this contract and this kind of data and has not revoked.                *)
THEOREM QueriesAreAllowed == ASSUME QueriesAssumption PROVE QuerySpec => ImplementsReadAccess
<1>1. QueryInit => Access!Init
  <2> SUFFICES ASSUME QueryInit PROVE Access!Init
    OBVIOUS
  <2>1. Chosen = [a \in Account |-> Nobody] /\ Issued = {} /\ revoked = {}
    BY DEF QueryInit, Chosen, Issued, Good
  <2>2. Asked = Nobody
    BY DEF QueryInit, Asked
  <2> QED BY <2>1, <2>2 DEF Access!Init
<1>2. QueryTypeOK /\ [QueryNext]_queryVars => [Access!Next]_<<Chosen, Issued, revoked, Asked>>
  <2> SUFFICES ASSUME QueryTypeOK, [QueryNext]_queryVars
               PROVE  Access!Next \/ UNCHANGED <<Chosen, Issued, revoked, Asked>>
    OBVIOUS
  <2>1. ASSUME NEW a \in Account, NEW k \in ViewingKey, StoreKey(a, k)
        PROVE  Access!Next
    BY <2>1, StoreChooses DEF Access!Next
  <2>2. ASSUME NEW a \in Account, NEW k \in Key, SetViewingKey(a, k)
        PROVE  Access!Next
    BY <2>1, <2>2 DEF SetViewingKey, ViewingKey
  <2>3. ASSUME NEW a \in Account, NEW e \in Entropy, CreateViewingKey(a, e)
        PROVE  Access!Next
    <3>1. [sender |-> a, block |-> block, entropy |-> e] \in ViewingKey
      BY DEF QueryTypeOK, ViewingKey, Generated
    <3> QED BY <2>1, <2>3, <3>1 DEF CreateViewingKey
  <2>4. ASSUME NEW a \in Account, NEW n \in Name, RevokePermit(a, n)
        PROVE  Access!Next
    BY <2>4, RevocationWithdraws DEF Access!Next
  <2>5. ASSUME NEW a \in Account, NEW params \in Params, Sign(a, params)
        PROVE  Access!Next
    BY <2>5, SignatureIssues
  <2>6. ASSUME NEW kind \in QueryKind, NEW of \in About(kind), NEW k \in ViewingKey,
               KeyQuery(k, kind, of)
        PROVE  Access!Next
    <3>1. of \in SUBSET Account
      BY DEF About
    <3> QED BY <2>6, <3>1, KeyAsks DEF Access!Next
  <2>7. ASSUME NEW kind \in QueryKind, NEW of \in About(kind), NEW permit \in Presented,
               PermitQuery(permit, kind, of)
        PROVE  Access!Next
    <3>1. of \in SUBSET Account
      BY DEF About
    <3> QED BY <2>7, <3>1, PermitAsks, TakenIsPermit DEF Access!Next
  <2>8. CASE SwitchStatus \/ NextBlock \/ Answer
    <3>1. Chosen' = Chosen /\ Issued' = Issued /\ revoked' = revoked /\ Asked' = Nobody
      BY <2>8, NothingAsked DEF SwitchStatus, NextBlock, Answer, Chosen, Issued, Good
    <3> QED BY <3>1 DEF Access!Next, Access!Done
  <2>9. CASE UNCHANGED queryVars
    BY <2>9 DEF queryVars, Chosen, Issued, Good, Asked
  <2> QED BY <2>2, <2>3, <2>4, <2>5, <2>6, <2>7, <2>8, <2>9 DEF QueryNext
<1> QED BY InitTypeOK, NextTypeOK, <1>1, <1>2, PTL
        DEF QuerySpec, ImplementsReadAccess, Access!Spec, Access!vars
-----------------------------------------------------------------------------
(***************************************************************************)
(* Receivers are told of what is sent to them, for any accounts, hashes    *)
(* and messages.  While callbacks wait, each has its place in what its     *)
(* receiver should be told of its message, behind what it has been told    *)
(* already.  Those of a batch under way count as the first that wait, and  *)
(* no other waits for the same message.                                    *)
(***************************************************************************)
Msgs == [sender : Party, from : Party]

Callbacks == [of : 1..MaxSends, to : Party, hash : CodeHash, msg : Msgs]

Inboxes == [Inbox -> Seq(Msgs)]

\* What box has been told is the beginning of what it should be told, and the
\* rest waits.
Begun(box, waiting, t, e, place) ==
    /\ Len(t[box]) <= Len(e[box])
    /\ \A i \in 1..Len(t[box]) : t[box][i] = e[box][i]
    /\ \A i \in 1..Len(e[box]) :
         i > Len(t[box]) => \E k \in 1..Len(waiting) : InboxOf(waiting[k]) = box /\ place[k] = i

\* The k-th callback has its place.
Placed(k, waiting, t, e, place) ==
    /\ place[k] \in Nat
    /\ place[k] > Len(t[InboxOf(waiting[k])])
    /\ place[k] <= Len(e[InboxOf(waiting[k])])
    /\ e[InboxOf(waiting[k])][place[k]] = waiting[k].msg

Places(waiting, t, e, place) ==
    /\ \A box \in Inbox : Begun(box, waiting, t, e, place)
    /\ \A k \in 1..Len(waiting) : Placed(k, waiting, t, e, place)
    /\ \A j, k \in 1..Len(waiting) :
         j < k /\ InboxOf(waiting[j]) = InboxOf(waiting[k]) => place[j] < place[k]

Owed(waiting, t, e) == \E place : Places(waiting, t, e, place)

\* The callbacks of the batch under way.
Batched == IF sent_batch = <<>> THEN <<>> ELSE sent_batch[1].messages

Batches == [msg : {"batch_send", "batch_send_from"}, of : Nat, sender : Party,
            messages : Seq(Callbacks)]

Batching == /\ sent_batch[1] \in Batches
            /\ sent_batch[1].of \in 1..(sends + 1)
            /\ \A k \in 1..Len(sent_batch[1].messages) :
                 sent_batch[1].messages[k].of <= sends
            /\ \A k \in 1..Len(callbacks) : callbacks[k].of < sent_batch[1].of

SendsInv == /\ receiver_hash \in [Party -> Given]
            /\ saved # <<>> => saved[1] \in [Party -> Given]
            /\ sends \in Nat
            /\ callbacks \in Seq(Callbacks)
            /\ \A k \in 1..Len(callbacks) : callbacks[k].of <= sends
            /\ sent_batch # <<>> => Batching
            /\ told \in Inboxes /\ expected \in Inboxes
            /\ Owed(Batched \o callbacks, told, expected)

LEMMA NothingOwed ==
    ASSUME NEW t \in Inboxes
    PROVE  Owed(<<>>, t, t)
<1>1. \A box \in Inbox : t[box] \in Seq(Msgs)
  BY DEF Inboxes
<1>2. PICK waiting : waiting = <<>>
  OBVIOUS
<1>3. \A k \in 1..Len(waiting) : FALSE
  BY <1>2
<1>4. ASSUME NEW box \in Inbox
      PROVE  Begun(box, waiting, t, t, waiting)
  BY <1>1 DEF Begun
<1> QED BY <1>2, <1>3, <1>4 DEF Owed, Places

LEMMA AllTold ==
    ASSUME NEW t \in Inboxes, NEW e \in Inboxes, Owed(<<>>, t, e)
    PROVE  t = e
<1>1. PICK place : Places(<<>>, t, e, place)
  BY DEF Owed
<1>2. PICK waiting : waiting = <<>>
  OBVIOUS
<1>3. \A k \in 1..Len(waiting) : FALSE
  BY <1>2
<1>4. ASSUME NEW box \in Inbox
      PROVE  t[box] = e[box]
  <2>1. t[box] \in Seq(Msgs) /\ e[box] \in Seq(Msgs)
    BY DEF Inboxes
  <2>2. Begun(box, waiting, t, e, place)
    BY <1>1, <1>2 DEF Places
  <2>3. Len(t[box]) = Len(e[box])
    BY <1>3, <2>1, <2>2 DEF Begun
  <2>4. \A i \in 1..Len(t[box]) : t[box][i] = e[box][i]
    BY <2>2 DEF Begun
  <2> QED BY <2>1, <2>3, <2>4
<1>5. t = [box \in Inbox |-> t[box]] /\ e = [box \in Inbox |-> e[box]]
  BY DEF Inboxes
<1> QED BY <1>4, <1>5

(* A send adds a callback behind those of its message and before the       *)
(* others, and to what its receiver should be told of that message.        *)
LEMMA SendOwes ==
    ASSUME NEW front \in Seq(Callbacks), NEW rest \in Seq(Callbacks),
           NEW t \in Inboxes, NEW e \in Inboxes, Owed(front \o rest, t, e),
           NEW c \in Callbacks, \A k \in 1..Len(rest) : rest[k].of < c.of,
           NEW f, f = [e EXCEPT ![InboxOf(c)] = Append(@, c.msg)]
    PROVE  f \in Inboxes /\ Owed(Append(front, c) \o rest, t, f)
<1>1. PICK n \in Nat, r \in Nat : n = Len(front) /\ r = Len(rest)
  OBVIOUS
<1>2. PICK waiting : waiting = front \o rest /\ waiting \in Seq(Callbacks)
  <2>1. front \o rest \in Seq(Callbacks)
    BY ConcatProperties
  <2> QED BY <2>1
<1>3. PICK place : Places(waiting, t, e, place)
  BY <1>2 DEF Owed
<1>4. PICK more : more = Append(front, c) \o rest
  OBVIOUS
<1>5. PICK into : into = InboxOf(c)
  OBVIOUS
<1>6. into \in Inbox /\ c.msg \in Msgs /\ c.of \in Nat
  BY <1>5 DEF Callbacks, InboxOf, Inbox
<1> DEFINE Old(k) == IF k <= n THEN k ELSE k - 1
<1>7. /\ Len(waiting) = n + r
      /\ \A k \in 1..n : waiting[k] = front[k]
      /\ \A k \in (n + 1)..(n + r) : waiting[k] = rest[k - n]
  BY <1>1, <1>2
<1>8. /\ Len(more) = n + r + 1 /\ more[n + 1] = c
      /\ \A k \in 1..n : more[k] = front[k]
      /\ \A k \in (n + 2)..(n + r + 1) : more[k] = rest[k - n - 1]
  <2>1. PICK longer : longer = Append(front, c) /\ longer \in Seq(Callbacks)
    <3>1. Append(front, c) \in Seq(Callbacks)
      BY AppendProperties
    <3> QED BY <3>1
  <2>2. Len(longer) = n + 1 /\ longer[n + 1] = c /\ \A k \in 1..n : longer[k] = front[k]
    BY <1>1, <2>1
  <2>3. more = longer \o rest
    BY <1>4, <2>1
  <2>4. /\ Len(more) = n + 1 + r
        /\ \A k \in 1..(n + 1) : more[k] = longer[k]
        /\ \A k \in (n + 2)..(n + 1 + r) : more[k] = rest[k - (n + 1)]
    <3>1. Len(longer \o rest) = Len(longer) + Len(rest)
      BY <2>1, ConcatProperties
    <3>2. \A k \in 1..(Len(longer) + Len(rest)) :
            (longer \o rest)[k] = IF k <= Len(longer) THEN longer[k] ELSE rest[k - Len(longer)]
      BY <2>1, ConcatProperties
    <3> QED BY <1>1, <2>2, <2>3, <3>1, <3>2
  <2> QED BY <2>2, <2>4
<1>9. \A k \in 1..(n + r + 1) : k # n + 1 =>
        Old(k) \in 1..(n + r) /\ more[k] = waiting[Old(k)]
  <2> SUFFICES ASSUME NEW k \in 1..(n + r + 1), k # n + 1
               PROVE  Old(k) \in 1..(n + r) /\ more[k] = waiting[Old(k)]
    OBVIOUS
  <2>1. CASE k <= n
    BY <1>7, <1>8, <2>1
  <2>2. CASE k > n
    <3>1. k \in (n + 2)..(n + r + 1) /\ k - 1 \in (n + 1)..(n + r) /\ (k - 1) - n = k - n - 1
      BY <2>2
    <3> QED BY <1>7, <1>8, <2>2, <3>1
  <2> QED BY <2>1, <2>2
<1>10. \A i \in 1..(n + r) : \E k \in 1..(n + r + 1) : k # n + 1 /\ Old(k) = i
  <2> SUFFICES ASSUME NEW i \in 1..(n + r)
               PROVE  \E k \in 1..(n + r + 1) : k # n + 1 /\ Old(k) = i
    OBVIOUS
  <2>1. CASE i <= n
    <3>1. i \in 1..(n + r + 1) /\ i # n + 1 /\ Old(i) = i
      BY <2>1
    <3> HIDE DEF Old
    <3> QED BY <3>1
  <2>2. CASE ~(i <= n)
    <3>1. PICK k : k = i + 1
      OBVIOUS
    <3>2. k \in 1..(n + r + 1) /\ k # n + 1 /\ Old(k) = i
      BY <2>2, <3>1
    <3> HIDE DEF Old
    <3> QED BY <3>2
  <2> QED BY <2>1, <2>2
<1>11. \A j, k \in 1..(n + r + 1) :
         j < k /\ j # n + 1 /\ k # n + 1 => Old(j) < Old(k)
  OBVIOUS
<1>12. \A k \in 1..(n + r + 1) : k > n + 1 => InboxOf(more[k]) # into
  <2> SUFFICES ASSUME NEW k \in 1..(n + r + 1), k > n + 1
               PROVE  InboxOf(more[k]) # into
    OBVIOUS
  <2>1. k - n - 1 \in 1..r /\ more[k] = rest[k - n - 1]
    BY <1>8
  <2>2. more[k].of < c.of /\ more[k] \in Callbacks
    BY <1>1, <2>1
  <2>3. more[k].of \in Nat /\ more[k].of # c.of
    BY <1>6, <2>2 DEF Callbacks
  <2> QED BY <1>5, <2>3 DEF InboxOf
<1> HIDE DEF Old
<1>13. \A box \in Inbox : t[box] \in Seq(Msgs) /\ e[box] \in Seq(Msgs)
  BY DEF Inboxes
<1>14. PICK last \in Nat : last = Len(e[into]) + 1
  BY <1>6, <1>13
<1>15. /\ f[into] = Append(e[into], c.msg)
       /\ \A box \in Inbox : box # into => f[box] = e[box]
  BY <1>5, <1>6 DEF Inboxes
<1>16. /\ f[into] \in Seq(Msgs) /\ Len(f[into]) = last /\ f[into][last] = c.msg
       /\ \A i \in 1..(last - 1) : f[into][i] = e[into][i]
  BY <1>6, <1>13, <1>14, <1>15
<1>17. f \in Inboxes
  <2>1. f = [box \in Inbox |-> f[box]]
    BY DEF Inboxes
  <2>2. \A box \in Inbox : f[box] \in Seq(Msgs)
    BY <1>13, <1>15, <1>16
  <2> QED BY <2>1, <2>2 DEF Inboxes
<1> DEFINE p == [k \in 1..(n + r + 1) |-> IF k = n + 1 THEN last ELSE place[Old(k)]]
<1>18. /\ p[n + 1] = last /\ n + 1 \in 1..(n + r + 1)
       /\ \A k \in 1..(n + r + 1) : k # n + 1 => p[k] = place[Old(k)]
  OBVIOUS
<1> HIDE DEF p
<1>19. /\ \A k \in 1..(n + r) : Placed(k, waiting, t, e, place)
       /\ \A box \in Inbox : Begun(box, waiting, t, e, place)
       /\ \A j, k \in 1..(n + r) :
            j < k /\ InboxOf(waiting[j]) = InboxOf(waiting[k]) => place[j] < place[k]
  BY <1>3, <1>7 DEF Places
<1>20. \A k \in 1..(n + r) : InboxOf(waiting[k]) \in Inbox
  <2>1. \A k \in 1..(n + r) : waiting[k] \in Callbacks
    BY <1>2, <1>7
  <2> QED BY <2>1 DEF Callbacks, InboxOf, Inbox
<1>21. ASSUME NEW box \in Inbox
       PROVE  Begun(box, more, t, f, p)
  <2>1. Begun(box, waiting, t, e, place)
    BY <1>19
  <2>2. \A i \in 1..Len(e[box]) : i > Len(t[box]) =>
          \E k \in 1..Len(more) : InboxOf(more[k]) = box /\ p[k] = i
    <3> SUFFICES ASSUME NEW i \in 1..Len(e[box]), i > Len(t[box])
                 PROVE  \E k \in 1..Len(more) : InboxOf(more[k]) = box /\ p[k] = i
      OBVIOUS
    <3>1. PICK o \in 1..(n + r) : InboxOf(waiting[o]) = box /\ place[o] = i
      BY <1>7, <2>1 DEF Begun
    <3>2. PICK k \in 1..(n + r + 1) : k # n + 1 /\ Old(k) = o
      BY <1>10
    <3> QED BY <1>8, <1>9, <1>18, <3>1, <3>2
  <2>3. CASE box # into
    BY <1>15, <2>1, <2>2, <2>3 DEF Begun
  <2>4. CASE box = into
    <3>1. Len(t[box]) \in Nat /\ Len(t[box]) <= last - 1
      BY <1>13, <1>14, <2>1, <2>4 DEF Begun
    <3>2. \A i \in 1..Len(t[box]) : t[box][i] = f[box][i]
      BY <1>13, <1>14, <1>16, <2>1, <2>4, <3>1 DEF Begun
    <3>3. n + 1 \in 1..Len(more) /\ InboxOf(more[n + 1]) = box /\ p[n + 1] = last
      BY <1>5, <1>8, <1>18, <2>4
    <3>4. ASSUME NEW i \in 1..Len(f[box]), i > Len(t[box])
          PROVE  \E k \in 1..Len(more) : InboxOf(more[k]) = box /\ p[k] = i
      <4>1. CASE i = last
        BY <3>3, <4>1
      <4>2. CASE i # last
        <5>1. i \in 1..Len(e[box])
          BY <1>13, <1>14, <1>16, <2>4, <4>2
        <5> QED BY <2>2, <3>4, <5>1
      <4> QED BY <4>1, <4>2
    <3>5. Len(t[box]) <= Len(f[box])
      BY <1>16, <2>4, <3>1
    <3> QED BY <3>2, <3>4, <3>5 DEF Begun
  <2> QED BY <2>3, <2>4
<1>22. ASSUME NEW k \in 1..(n + r + 1)
       PROVE  Placed(k, more, t, f, p)
  <2>1. CASE k = n + 1
    <3>1. Len(t[into]) \in Nat /\ Len(t[into]) <= last - 1
      BY <1>6, <1>13, <1>14, <1>19 DEF Begun
    <3> QED BY <1>5, <1>8, <1>14, <1>16, <1>18, <2>1, <3>1 DEF Placed
  <2>2. CASE k # n + 1
    <3>1. PICK o \in 1..(n + r) : o = Old(k) /\ more[k] = waiting[o] /\ p[k] = place[o]
      BY <1>9, <1>18, <2>2
    <3>2. Placed(o, waiting, t, e, place) /\ InboxOf(waiting[o]) \in Inbox
      BY <1>19, <1>20
    <3>3. CASE InboxOf(waiting[o]) # into
      BY <1>15, <3>1, <3>2, <3>3 DEF Placed
    <3>4. CASE InboxOf(waiting[o]) = into
      <4>1. place[o] \in Nat /\ place[o] <= last - 1 /\ place[o] > Len(t[into])
        BY <1>6, <1>13, <1>14, <3>2, <3>4 DEF Placed
      <4>2. place[o] \in 1..(last - 1)
        BY <1>6, <1>13, <4>1
      <4> QED BY <1>16, <3>1, <3>2, <3>4, <4>1, <4>2 DEF Placed
    <3> QED BY <3>3, <3>4
  <2> QED BY <2>1, <2>2
<1>23. ASSUME NEW j \in 1..(n + r + 1), NEW k \in 1..(n + r + 1), j < k,
              InboxOf(more[j]) = InboxOf(more[k])
       PROVE  p[j] < p[k]
  <2>1. CASE j = n + 1
    BY <1>5, <1>8, <1>12, <1>23, <2>1
  <2>2. CASE k = n + 1
    <3>1. PICK o : o = Old(j)
      OBVIOUS
    <3>2. j # n + 1
      BY <1>23, <2>2
    <3>3. o \in 1..(n + r) /\ more[j] = waiting[o] /\ p[j] = place[o]
      BY <1>9, <1>18, <3>1, <3>2
    <3>4. Placed(o, waiting, t, e, place) /\ InboxOf(waiting[o]) = into
      BY <1>5, <1>8, <1>19, <1>23, <2>2, <3>3
    <3> QED BY <1>6, <1>13, <1>14, <1>18, <2>2, <3>3, <3>4 DEF Placed
  <2>3. CASE j # n + 1 /\ k # n + 1
    <3>1. /\ Old(j) \in 1..(n + r) /\ more[j] = waiting[Old(j)] /\ p[j] = place[Old(j)]
          /\ Old(k) \in 1..(n + r) /\ more[k] = waiting[Old(k)] /\ p[k] = place[Old(k)]
      BY <1>9, <1>18, <2>3
    <3>2. Old(j) < Old(k)
      BY <1>11, <1>23, <2>3
    <3> QED BY <1>19, <1>23, <3>1, <3>2
  <2> QED BY <2>1, <2>2, <2>3
<1>24. Places(more, t, f, p)
  BY <1>8, <1>21, <1>22, <1>23 DEF Places
<1> QED BY <1>4, <1>17, <1>24 DEF Owed

(* The chain runs the first callback.                                      *)
LEMMA DeliveryPays ==
    ASSUME NEW waiting \in Seq(Callbacks), waiting # <<>>, NEW t \in Inboxes, NEW e \in Inboxes,
           Owed(waiting, t, e), NEW u,
           u = [t EXCEPT ![InboxOf(Head(waiting))] = Append(@, Head(waiting).msg)]
    PROVE  u \in Inboxes /\ Owed(Tail(waiting), u, e)
<1>1. PICK place : Places(waiting, t, e, place)
  BY DEF Owed
<1>2. PICK n \in Nat : Len(waiting) = n + 1
  <2>1. Len(waiting) \in Nat /\ Len(waiting) # 0
    OBVIOUS
  <2>2. Len(waiting) - 1 \in Nat /\ Len(waiting) = (Len(waiting) - 1) + 1
    BY <2>1
  <2> QED BY <2>2
<1>3. PICK c \in Callbacks : c = Head(waiting) /\ c = waiting[1]
  OBVIOUS
<1>4. PICK rest : rest = Tail(waiting)
  OBVIOUS
<1>5. Len(rest) = n /\ \A k \in 1..n : rest[k] = waiting[k + 1]
  BY <1>2, <1>4
<1>6. InboxOf(c) \in Inbox /\ c.msg \in Msgs
  BY DEF Callbacks, InboxOf, Inbox
<1>7. \A box \in Inbox : t[box] \in Seq(Msgs) /\ e[box] \in Seq(Msgs)
  BY DEF Inboxes
<1>8. PICK next \in Nat : next = Len(t[InboxOf(c)]) + 1
  BY <1>6, <1>7
<1>9. /\ u[InboxOf(c)] = Append(t[InboxOf(c)], c.msg)
      /\ \A box \in Inbox : box # InboxOf(c) => u[box] = t[box]
  BY <1>3, <1>6 DEF Inboxes
<1>10. /\ u[InboxOf(c)] \in Seq(Msgs) /\ Len(u[InboxOf(c)]) = next /\ u[InboxOf(c)][next] = c.msg
       /\ \A i \in 1..(next - 1) : u[InboxOf(c)][i] = t[InboxOf(c)][i]
  BY <1>6, <1>7, <1>8, <1>9
<1>11. u \in Inboxes
  <2>1. u = [box \in Inbox |-> u[box]]
    BY DEF Inboxes
  <2>2. \A box \in Inbox : u[box] \in Seq(Msgs)
    BY <1>7, <1>9, <1>10
  <2> QED BY <2>1, <2>2 DEF Inboxes
<1>12. /\ \A k \in 1..(n + 1) : Placed(k, waiting, t, e, place)
       /\ \A box \in Inbox : Begun(box, waiting, t, e, place)
       /\ \A j, k \in 1..(n + 1) :
            j < k /\ InboxOf(waiting[j]) = InboxOf(waiting[k]) => place[j] < place[k]
  BY <1>1, <1>2 DEF Places
<1>13. place[1] = next
  <2>1. 1 \in 1..(n + 1)
    OBVIOUS
  <2>2. place[1] \in Nat /\ place[1] >= next /\ place[1] <= Len(e[InboxOf(c)]) /\ next \in 1..Len(e[InboxOf(c)])
    <3>1. waiting[1] = c /\ Placed(1, waiting, t, e, place)
      BY <1>3, <1>12, <2>1
    <3>2. /\ place[1] \in Nat /\ place[1] > Len(t[InboxOf(c)])
          /\ place[1] <= Len(e[InboxOf(c)])
      BY <3>1 DEF Placed
    <3>3. Len(t[InboxOf(c)]) \in Nat /\ Len(e[InboxOf(c)]) \in Nat
      BY <1>6, <1>7
    <3> QED BY <1>8, <3>2, <3>3
  <2>3. PICK k \in 1..(n + 1) : InboxOf(waiting[k]) = InboxOf(c) /\ place[k] = next
    <3>1. Begun(InboxOf(c), waiting, t, e, place) /\ next > Len(t[InboxOf(c)])
      BY <1>6, <1>7, <1>8, <1>12
    <3> QED BY <1>2, <2>2, <3>1 DEF Begun
  <2>4. CASE k = 1
    BY <2>3, <2>4
  <2>5. CASE k # 1
    <3>1. 1 < k
      BY <2>5
    <3>2. place[1] < place[k]
      BY <1>3, <1>12, <2>1, <2>3, <3>1
    <3> QED BY <2>2, <2>3, <3>2
  <2> QED BY <2>4, <2>5
<1> DEFINE p == [k \in 1..n |-> place[k + 1]]
<1>14. \A k \in 1..n : p[k] = place[k + 1] /\ k + 1 \in 1..(n + 1)
  OBVIOUS
<1> HIDE DEF p
<1>15. e[InboxOf(c)][next] = c.msg /\ next <= Len(e[InboxOf(c)])
  BY <1>3, <1>12, <1>13 DEF Placed
<1>16. ASSUME NEW box \in Inbox, NEW i \in 1..Len(e[box]), i > Len(t[box]), box # InboxOf(c) \/ i # next
       PROVE  \E k \in 1..Len(rest) : InboxOf(rest[k]) = box /\ p[k] = i
  <2>1. PICK k \in 1..(n + 1) : InboxOf(waiting[k]) = box /\ place[k] = i
    BY <1>2, <1>12, <1>16 DEF Begun
  <2>2. k # 1
    BY <1>3, <1>13, <1>16, <2>1
  <2>3. k - 1 \in 1..n /\ (k - 1) + 1 = k
    BY <2>2
  <2> QED BY <1>5, <1>14, <2>1, <2>3
<1>17. ASSUME NEW box \in Inbox
       PROVE  Begun(box, rest, u, e, p)
  <2>1. Begun(box, waiting, t, e, place) /\ Len(t[box]) \in Nat
    BY <1>7, <1>12
  <2>2. CASE box # InboxOf(c)
    BY <1>9, <1>16, <2>1, <2>2 DEF Begun
  <2>3. CASE box = InboxOf(c)
    <3>1. \A i \in 1..next : u[box][i] = e[box][i]
      <4>1. \A i \in 1..(next - 1) : t[box][i] = e[box][i]
        BY <1>8, <2>1, <2>3 DEF Begun
      <4> QED BY <1>10, <1>15, <2>3, <4>1
    <3>2. \A i \in 1..Len(e[box]) : i > next => i > Len(t[box]) /\ i # next
      BY <1>8, <2>1, <2>3
    <3>3. \A i \in 1..Len(e[box]) : i > next => \E k \in 1..Len(rest) : InboxOf(rest[k]) = box /\ p[k] = i
      BY <1>16, <3>2
    <3> QED BY <1>10, <1>15, <2>3, <3>1, <3>3 DEF Begun
  <2> QED BY <2>2, <2>3
<1>18. ASSUME NEW k \in 1..n
       PROVE  Placed(k, rest, u, e, p)
  <2>1. /\ Placed(k + 1, waiting, t, e, place) /\ rest[k] = waiting[k + 1] /\ p[k] = place[k + 1]
    BY <1>5, <1>12, <1>14
  <2>2. CASE InboxOf(rest[k]) = InboxOf(c)
    <3>1. 1 < k + 1 /\ 1 \in 1..(n + 1) /\ k + 1 \in 1..(n + 1)
      OBVIOUS
    <3>2. place[1] < place[k + 1]
      BY <1>3, <1>12, <2>1, <2>2, <3>1
    <3> QED BY <1>10, <1>13, <2>1, <2>2, <3>2 DEF Placed
  <2>3. CASE InboxOf(rest[k]) # InboxOf(c)
    <3>1. InboxOf(rest[k]) \in Inbox
      <4>1. k + 1 \in 1..Len(waiting)
        BY <1>2
      <4>2. waiting[k + 1] \in Callbacks
        BY <4>1
      <4> QED BY <2>1, <4>2 DEF Callbacks, InboxOf, Inbox
    <3> QED BY <1>9, <2>1, <2>3, <3>1 DEF Placed
  <2> QED BY <2>2, <2>3
<1>19. ASSUME NEW j \in 1..n, NEW k \in 1..n, j < k, InboxOf(rest[j]) = InboxOf(rest[k])
       PROVE  p[j] < p[k]
  <2>1. j + 1 \in 1..(n + 1) /\ k + 1 \in 1..(n + 1) /\ j + 1 < k + 1
    BY <1>19
  <2> QED BY <1>5, <1>12, <1>14, <1>19, <2>1
<1>20. Places(rest, u, e, p)
  BY <1>5, <1>17, <1>18, <1>19 DEF Places
<1> QED BY <1>4, <1>11, <1>20 DEF Owed

(* A send is expected exactly when it has a callback.                      *)
LEMMA CallbackIsExpected ==
    ASSUME receiver_hash \in [Party -> Given], NEW given \in Given,
           NEW recipient \in Party, NEW sender \in Party, NEW from \in Party,
           Message \in 1..MaxSends,
           Expect(recipient, given, sender, from), NEW new,
           new = Callback(recipient, given, sender, from)
    PROVE  \/ new = <<>> /\ expected' = expected
           \/ \E c \in Callbacks :
                /\ new = <<c>> /\ c.of = Message
                /\ expected' = [expected EXCEPT ![InboxOf(c)] = Append(@, c.msg)]
<1> DEFINE hash == IF given # Absent THEN given ELSE receiver_hash[recipient]
           c == [of |-> Message, to |-> recipient, hash |-> hash,
                 msg |-> ReceiveMsg(sender, from)]
<1>1. CASE hash = Absent
  <2>1. given = Absent /\ receiver_hash[recipient] = Absent
    BY <1>1
  <2>2. expected' = expected
    BY <2>1 DEF Expect
  <2>3. new = <<>>
    BY <1>1 DEF Callback
  <2> QED BY <2>2, <2>3
<1>2. CASE hash # Absent
  <2>1. hash \in CodeHash
    BY <1>2 DEF Given
  <2>2. c \in Callbacks
    BY <2>1 DEF Callbacks, Msgs, ReceiveMsg
  <2>3. new = <<c>>
    BY <1>2 DEF Callback
  <2>4. ~(given = Absent /\ receiver_hash[recipient] = Absent)
    BY <1>2
  <2>5. expected' = [expected EXCEPT ![<<Message, recipient>>] =
                                         Append(@, ReceiveMsg(sender, from))]
    BY <2>4 DEF Expect
  <2> HIDE DEF hash
  <2>6. c.of = Message /\ c.to = recipient /\ c.msg = ReceiveMsg(sender, from)
    OBVIOUS
  <2>7. InboxOf(c) = <<Message, recipient>>
    BY <2>6 DEF InboxOf
  <2> HIDE DEF c
  <2> QED BY <2>2, <2>3, <2>5, <2>6, <2>7
<1> QED BY <1>1, <1>2

\* The callbacks are of messages up to the n-th.
NoLater(batch, n) == batch \in Seq(Callbacks) /\ \A k \in 1..Len(batch) : batch[k].of <= n

LEMMA NoLaterJoined ==
    ASSUME NEW x, NEW y, NEW n \in Nat, NoLater(x, n), NoLater(y, n)
    PROVE  NoLater(x \o y, n)
<1>1. x \in Seq(Callbacks) /\ y \in Seq(Callbacks)
  BY DEF NoLater
<1>2. PICK z : z = x \o y
  OBVIOUS
<1>3. /\ z \in Seq(Callbacks) /\ Len(z) = Len(x) + Len(y)
      /\ \A k \in 1..(Len(x) + Len(y)) :
           z[k] = IF k <= Len(x) THEN x[k] ELSE y[k - Len(x)]
  BY <1>1, <1>2, ConcatProperties
<1>4. ASSUME NEW k \in 1..Len(z)
      PROVE  z[k].of <= n
  <2>1. CASE k <= Len(x)
    BY <1>1, <1>3, <2>1 DEF NoLater
  <2>2. CASE ~(k <= Len(x))
    <3>1. k - Len(x) \in 1..Len(y) /\ z[k] = y[k - Len(x)]
      BY <1>1, <1>3, <2>2
    <3> QED BY <3>1 DEF NoLater
  <2> QED BY <2>1, <2>2
<1> QED BY <1>2, <1>3, <1>4 DEF NoLater

(* Any send, by itself or in a batch, is later than the callbacks that     *)
(* wait.                                                                   *)
LEMMA SendKeeps ==
    ASSUME SendsInv, CountedSend, NEW given \in Given,
           NEW recipient \in Party, NEW sender \in Party, NEW from \in Party,
           Expect(recipient, given, sender, from),
           NEW new, new = Callback(recipient, given, sender, from)
    PROVE  /\ NoLater(Batched \o new, sends')
           /\ expected' \in Inboxes
           /\ Owed((Batched \o new) \o callbacks, told, expected')
<1>1. PICK front, n : front = Batched /\ n = sends
  OBVIOUS
<1> front \in Seq(Callbacks)
  <2>1. CASE sent_batch = <<>>
    BY <1>1, <2>1 DEF Batched
  <2>2. CASE sent_batch # <<>>
    BY <1>1, <2>2 DEF Batched, Batching, Batches, SendsInv
  <2> QED BY <2>1, <2>2
<1> n \in Nat
  BY <1>1 DEF SendsInv
<1>2. /\ callbacks \in Seq(Callbacks) /\ told \in Inboxes /\ expected \in Inboxes
      /\ Owed(front \o callbacks, told, expected) /\ receiver_hash \in [Party -> Given]
  BY <1>1 DEF SendsInv
<1>3. sends' = n + 1 /\ n + 1 <= MaxSends
  BY <1>1, TokenSendsAssumption DEF CountedSend
<1>4. PICK m : m = Message
  OBVIOUS
<1>5. m \in 1..(n + 1) /\ \A k \in 1..Len(callbacks) : callbacks[k].of < m
  <2>1. CASE sent_batch = <<>>
    <3>1. m = n + 1
      BY <1>1, <1>4, <2>1 DEF Message
    <3>2. \A k \in 1..Len(callbacks) : callbacks[k].of \in Nat /\ callbacks[k].of <= n
      <4>1. \A k \in 1..Len(callbacks) : callbacks[k] \in Callbacks
        BY <1>2
      <4> QED BY <1>1, <4>1 DEF SendsInv, Callbacks
    <3> QED BY <3>1, <3>2
  <2>2. CASE sent_batch # <<>>
    <3>1. m = sent_batch[1].of /\ Batching
      BY <1>4, <2>2 DEF Message, SendsInv
    <3>2. sent_batch[1].of \in 1..(n + 1)
      BY <1>1, <3>1 DEF Batching
    <3> QED BY <3>1, <3>2 DEF Batching
  <2> QED BY <2>1, <2>2
<1>6. Message \in 1..MaxSends
  BY <1>3, <1>4, <1>5, TokenSendsAssumption
<1>7. \/ new = <<>> /\ expected' = expected
      \/ \E c \in Callbacks :
           /\ new = <<c>> /\ c.of = m
           /\ expected' = [expected EXCEPT ![InboxOf(c)] = Append(@, c.msg)]
  BY <1>2, <1>4, <1>6, CallbackIsExpected
<1>8. NoLater(front, n + 1)
  <2>1. \A k \in 1..Len(front) : front[k].of <= n
    BY <1>1 DEF SendsInv, Batching, Batched
  <2>2. \A k \in 1..Len(front) : front[k].of \in Nat
    <3>1. \A k \in 1..Len(front) : front[k] \in Callbacks
      OBVIOUS
    <3> QED BY <3>1 DEF Callbacks
  <2> QED BY <2>1, <2>2 DEF NoLater
<1>9. CASE new = <<>> /\ expected' = expected
  <2>1. front \o new = front
    BY <1>9
  <2> QED BY <1>1, <1>2, <1>3, <1>8, <1>9, <2>1
<1>10. ASSUME NEW c \in Callbacks, new = <<c>>, c.of = m,
              expected' = [expected EXCEPT ![InboxOf(c)] = Append(@, c.msg)]
       PROVE  /\ NoLater(front \o new, n + 1)
              /\ expected' \in Inboxes
              /\ Owed((front \o new) \o callbacks, told, expected')
  <2>1. front \o new = Append(front, c)
    BY <1>10
  <2>2. \A f : f = [expected EXCEPT ![InboxOf(c)] = Append(@, c.msg)]
                => f \in Inboxes /\ Owed(Append(front, c) \o callbacks, told, f)
    BY <1>2, <1>5, <1>10, SendOwes
  <2>3. expected' \in Inboxes /\ Owed(Append(front, c) \o callbacks, told, expected')
    BY <1>10, <2>2
  <2>4. NoLater(new, n + 1)
    <3>1. new \in Seq(Callbacks) /\ Len(new) = 1 /\ new[1] = c
      BY <1>10
    <3> QED BY <1>5, <1>10, <3>1 DEF NoLater
  <2>5. NoLater(front \o new, n + 1)
    BY <1>8, <2>4, NoLaterJoined
  <2> QED BY <2>1, <2>3, <2>5
<1> QED BY <1>1, <1>3, <1>7, <1>9, <1>10

LEMMA SendsBegin == SendsInit => SendsInv
<1> SUFFICES ASSUME SendsInit PROVE SendsInv
  OBVIOUS
<1>1. told \in Inboxes /\ expected = told /\ callbacks = <<>> /\ Batched = <<>>
  BY DEF SendsInit, Inboxes, NothingTold, Batched
<1>2. Batched \o callbacks = <<>>
  BY <1>1
<1> QED BY <1>1, <1>2, NothingOwed DEF SendsInit, SendsInv, Given

LEMMA SingleSend ==
    ASSUME SendsInv, NEW given \in Given, NEW recipient \in Party, NEW sender \in Party,
           NEW from \in Party, MayCome, CountedSend, InTransaction,
           Respond(Callback(recipient, given, sender, from)),
           Expect(recipient, given, sender, from), UNCHANGED <<receiver_hash, sent_batch, told>>
    PROVE  SendsInv'
<1>1. PICK new, n : new = Callback(recipient, given, sender, from) /\ n = sends /\ n \in Nat
  BY DEF SendsInv
<1>2. Batched = <<>> /\ Batched' = <<>> /\ sends' = n + 1
  BY <1>1 DEF MayCome, Batched, CountedSend
<1>3. /\ NoLater(Batched \o new, sends') /\ expected' \in Inboxes
      /\ Owed((Batched \o new) \o callbacks, told, expected')
  BY <1>1, SendKeeps
<1>4. new \in Seq(Callbacks) /\ Batched \o new = new
  <2>1. new = <<>> \/ \E c \in Callbacks : new = <<c>>
    <3>1. receiver_hash \in [Party -> Given]
      BY DEF SendsInv
    <3>2. Message \in 1..MaxSends
      BY <1>1, TokenSendsAssumption DEF CountedSend, MayCome, Message
    <3> QED BY <1>1, <3>1, <3>2, CallbackIsExpected
  <2>2. new \in Seq(Callbacks)
    <3>1. ASSUME NEW c \in Callbacks, new = <<c>>
          PROVE  new \in Seq(Callbacks)
      BY <3>1
    <3>2. CASE new = <<>>
      BY <3>2
    <3> QED BY <2>1, <3>1, <3>2
  <2>3. <<>> \o new = new
    BY <2>2, ConcatEmptySeq
  <2> QED BY <1>2, <2>2, <2>3
<1>5. NoLater(callbacks, n + 1)
  <2>1. \A k \in 1..Len(callbacks) : callbacks[k] \in Callbacks
    BY DEF SendsInv
  <2>2. \A k \in 1..Len(callbacks) : callbacks[k].of \in Nat /\ callbacks[k].of <= n
    BY <1>1, <2>1 DEF SendsInv, Callbacks
  <2> QED BY <1>1, <2>2 DEF NoLater, SendsInv
<1>6. callbacks' = new \o callbacks
  BY <1>1 DEF Respond
<1>7. NoLater(callbacks', n + 1)
  <2>1. NoLater(new, n + 1)
    BY <1>2, <1>3, <1>4
  <2> QED BY <1>1, <1>5, <1>6, <2>1, NoLaterJoined
<1>8. Owed(Batched' \o callbacks', told', expected')
  <2>1. callbacks' \in Seq(Callbacks)
    BY <1>7 DEF NoLater
  <2>2. Batched' \o callbacks' = (Batched \o new) \o callbacks
    BY <1>2, <1>4, <1>6, <2>1
  <2> QED BY <1>3, <2>2
<1>9. saved' # <<>> => saved'[1] \in [Party -> Given]
  BY DEF InTransaction, SendsInv
<1>10. \A k \in 1..Len(callbacks') : callbacks'[k].of <= sends'
  BY <1>2, <1>7 DEF NoLater
<1>11. callbacks' \in Seq(Callbacks) /\ sends' \in Nat /\ sent_batch' = <<>>
  BY <1>1, <1>2, <1>7 DEF NoLater, MayCome
<1> QED BY <1>3, <1>8, <1>9, <1>10, <1>11 DEF SendsInv

LEMMA BatchedSend ==
    ASSUME SendsInv, NEW recipient \in Party, NEW sender \in Party, NEW from \in Party,
           sent_batch # <<>>, CountedSend,
           Collect(Callback(recipient, Absent, sender, from)),
           Expect(recipient, Absent, sender, from),
           UNCHANGED <<receiver_hash, callbacks, told, saved>>
    PROVE  SendsInv'
<1>1. PICK new, n : new = Callback(recipient, Absent, sender, from) /\ n = sends /\ n \in Nat
  BY DEF SendsInv
<1>2. /\ NoLater(Batched \o new, n + 1) /\ expected' \in Inboxes /\ sends' = n + 1
      /\ Owed((Batched \o new) \o callbacks, told, expected')
  <2>1. sends' = n + 1 /\ Absent \in Given
    BY <1>1 DEF CountedSend, Given
  <2> QED BY <1>1, <2>1, SendKeeps
<1>3. PICK old \in Batches : old = sent_batch[1] /\ Batched = old.messages
  BY DEF SendsInv, Batching, Batched
<1>4. PICK batch : batch = [old EXCEPT !.messages = @ \o new] /\ sent_batch' = <<batch>>
  BY <1>1, <1>3 DEF Collect
<1>5. /\ sent_batch' # <<>> /\ sent_batch'[1] = batch /\ batch \in Batches
      /\ batch.messages = Batched \o new /\ batch.of = old.of
  <2>1. Batched \o new \in Seq(Callbacks)
    BY <1>2 DEF NoLater
  <2>2. batch = [old EXCEPT !.messages = Batched \o new]
    BY <1>3, <1>4
  <2> QED BY <1>4, <2>1, <2>2 DEF Batches
<1>6. Batched' = Batched \o new /\ Batching
  BY <1>5 DEF Batched, SendsInv
<1>7. Batching'
  <2>1. \A k \in 1..Len(batch.messages) : batch.messages[k].of <= sends'
    BY <1>2, <1>5 DEF NoLater
  <2>2. batch.of \in 1..(sends' + 1)
    BY <1>1, <1>2, <1>3, <1>5, <1>6 DEF Batching
  <2>3. \A k \in 1..Len(callbacks') : callbacks'[k].of < batch.of
    BY <1>3, <1>5, <1>6 DEF Batching
  <2> QED BY <1>5, <2>1, <2>2, <2>3 DEF Batching
<1>8. \A k \in 1..Len(callbacks) : callbacks[k].of <= n + 1
  <2>1. \A k \in 1..Len(callbacks) : callbacks[k] \in Callbacks
    BY DEF SendsInv
  <2> QED BY <1>1, <2>1 DEF SendsInv, Callbacks
<1> QED BY <1>1, <1>2, <1>6, <1>7, <1>8 DEF SendsInv

LEMMA SendsEnd == ASSUME SendsInv, EndSends PROVE SendsInv'
<1>1. PICK n, batch : n = sends /\ batch = sent_batch[1].messages /\ n \in Nat
  BY DEF SendsInv
<1>2. Batching /\ Batched = batch /\ Batched' = <<>> /\ callbacks' = batch \o callbacks
  BY <1>1 DEF SendsInv, EndSends, Batched, Respond
<1>3. NoLater(batch, n) /\ NoLater(callbacks, n)
  BY <1>1, <1>2 DEF SendsInv, Batching, Batches, NoLater
<1>4. NoLater(callbacks', n)
  BY <1>1, <1>2, <1>3, NoLaterJoined
<1>5. Batched' \o callbacks' = Batched \o callbacks
  BY <1>2, <1>4 DEF NoLater
<1>6. Owed(Batched' \o callbacks', told', expected')
  BY <1>5 DEF SendsInv, EndSends
<1> QED BY <1>1, <1>4, <1>6 DEF SendsInv, EndSends, NoLater

LEMMA SendsDeliver == ASSUME SendsInv, Deliver PROVE SendsInv'
<1>1. /\ callbacks \in Seq(Callbacks) /\ callbacks # <<>>
      /\ told \in Inboxes /\ expected \in Inboxes /\ Batched = <<>> /\ Batched' = <<>>
  BY DEF SendsInv, Deliver, Batched
<1>2. Batched \o callbacks = callbacks
  BY <1>1
<1>3. Owed(callbacks, told, expected)
  BY <1>2 DEF SendsInv
<1>4. told' = [told EXCEPT ![InboxOf(Head(callbacks))] = Append(@, Head(callbacks).msg)]
  BY DEF Deliver
<1>5. told' \in Inboxes /\ Owed(Tail(callbacks), told', expected)
  BY <1>1, <1>3, <1>4, DeliveryPays
<1>6. callbacks' = Tail(callbacks) /\ Tail(callbacks) \in Seq(Callbacks)
  BY <1>1 DEF Deliver
<1>7. Batched' \o callbacks' = Tail(callbacks)
  BY <1>1, <1>6
<1>8. Owed(Batched' \o callbacks', told', expected')
  BY <1>5, <1>7 DEF Deliver
<1>9. \A k \in 1..Len(callbacks') : callbacks'[k].of <= sends'
  <2>1. \A k \in 1..Len(callbacks') : k + 1 \in 1..Len(callbacks)
                                      /\ callbacks'[k] = callbacks[k + 1]
    BY <1>1, <1>6
  <2> QED BY <2>1 DEF SendsInv, Deliver
<1> QED BY <1>5, <1>6, <1>8, <1>9 DEF SendsInv, Deliver

(* A transaction that is over has told what it should: nothing is left.    *)
LEMMA SendsAnew ==
    ASSUME SendsInv, EndTransaction, sent_batch' = <<>>, callbacks' = <<>>,
           receiver_hash' \in [Party -> Given]
    PROVE  SendsInv'
<1>1. told' \in Inboxes /\ expected' = told' /\ Batched' = <<>>
  BY DEF EndTransaction, NothingTold, Inboxes, Batched
<1>2. Batched' \o callbacks' = <<>>
  BY <1>1
<1>3. Owed(Batched' \o callbacks', told', expected')
  BY <1>1, <1>2, NothingOwed
<1>4. sends' = 0 /\ saved' = <<>>
  BY DEF EndTransaction
<1>5. callbacks' \in Seq(Callbacks) /\ \A k \in 1..Len(callbacks') : callbacks'[k].of <= sends'
  OBVIOUS
<1> QED BY <1>1, <1>3, <1>4, <1>5 DEF SendsInv

LEMMA SendsStep ==
    ASSUME BatchHash = {}, SendsInv, [SendsNext]_sendVars
    PROVE  SendsInv'
<1>1. ASSUME NEW a \in Party, NEW hash \in CodeHash, RegisterReceive(a, hash)
      PROVE  SendsInv'
  <2>1. receiver_hash' \in [Party -> Given]
    BY <1>1 DEF SendsInv, RegisterReceive, Given
  <2>2. saved' # <<>> => saved'[1] \in [Party -> Given]
    BY <1>1 DEF SendsInv, RegisterReceive, InTransaction
  <2>3. Batched' = Batched
    BY <1>1 DEF RegisterReceive, Batched
  <2> QED BY <1>1, <2>1, <2>2, <2>3 DEF SendsInv, RegisterReceive, MayCome
<1>2. ASSUME NEW a \in Party, NEW b \in Party, NEW hash \in Given, Send(a, b, hash)
      PROVE  SendsInv'
  BY <1>2, SingleSend DEF Send
<1>3. ASSUME NEW a \in Party, NEW b \in Party, NEW c \in Party, NEW hash \in Given,
             SendFrom(a, b, c, hash)
      PROVE  SendsInv'
  BY <1>3, SingleSend DEF SendFrom
<1>4. ASSUME NEW msg \in {"batch_send", "batch_send_from"}, NEW a \in Party,
             BeginSends(msg, a)
      PROVE  SendsInv'
  <2>1. PICK n \in Nat : n = sends
    BY DEF SendsInv
  <2>2. PICK batch : batch = [msg |-> msg, of |-> n + 1, sender |-> a, messages |-> <<>>]
    OBVIOUS
  <2>3. sent_batch' = <<batch>>
    BY <1>4, <2>1, <2>2 DEF BeginSends, MayCome, Message
  <2>4. batch \in Batches /\ batch.of = n + 1 /\ batch.messages = <<>>
    BY <2>1, <2>2 DEF Batches
  <2>5. \A k \in 1..Len(callbacks) : callbacks[k].of < n + 1
    <3>1. \A k \in 1..Len(callbacks) : callbacks[k] \in Callbacks
      BY DEF SendsInv
    <3> QED BY <2>1, <3>1 DEF SendsInv, Callbacks
  <2>6. Batching'
    <3>1. sent_batch'[1] = batch /\ Len(batch.messages) = 0
      BY <2>3, <2>4
    <3>2. sends' = n /\ callbacks' = callbacks
      BY <1>4, <2>1 DEF BeginSends
    <3> QED BY <2>1, <2>4, <2>5, <3>1, <3>2 DEF Batching
  <2>7. Batched = <<>> /\ Batched' = <<>>
    BY <1>4, <2>3, <2>4 DEF Batched, BeginSends, MayCome
  <2>8. saved' # <<>> => saved'[1] \in [Party -> Given]
    BY <1>4 DEF SendsInv, BeginSends, InTransaction
  <2> QED BY <1>4, <2>6, <2>7, <2>8 DEF SendsInv, BeginSends
<1>5. ASSUME NEW a \in Party, BatchSend(a, Absent)
      PROVE  SendsInv'
  <2>1. sent_batch # <<>> /\ sent_batch[1].sender \in Party
    BY <1>5 DEF BatchSend, InSends, SendsInv, Batching, Batches
  <2> QED BY <1>5, <2>1, BatchedSend DEF BatchSend
<1>6. ASSUME NEW a \in Party, NEW b \in Party, BatchSendFrom(a, b, Absent)
      PROVE  SendsInv'
  <2>1. sent_batch # <<>> /\ sent_batch[1].sender \in Party
    BY <1>6 DEF BatchSendFrom, InSends, SendsInv, Batching, Batches
  <2> QED BY <1>6, <2>1, BatchedSend DEF BatchSendFrom
<1>7. CASE EndSends
  BY <1>7, SendsEnd
<1>8. CASE Deliver
  BY <1>8, SendsDeliver
<1>9. CASE SendsCommit
  <2>1. receiver_hash' \in [Party -> Given]
    BY <1>9 DEF SendsInv, SendsCommit
  <2> QED BY <1>9, <2>1, SendsAnew DEF SendsCommit, SendsIdle
<1>10. CASE SendFails
  <2>1. receiver_hash' \in [Party -> Given]
    BY <1>10 DEF SendsInv, SendFails, EndTransaction
  <2> QED BY <1>10, <2>1, SendsAnew DEF SendFails
<1>11. CASE UNCHANGED sendVars
  BY <1>11 DEF sendVars, SendsInv, Batching, Batched
<1> QED BY <1>1, <1>2, <1>3, <1>4, <1>5, <1>6, <1>7, <1>8, <1>9, <1>10, <1>11 DEF SendsNext

(* As long as no action of a batch gives a code hash, which the token      *)
(* drops, receivers are told of every send that went through, once, those  *)
(* of a message in the order of its actions, whatever they send and        *)
(* register before the rest is told.                                       *)
THEOREM SendsAlwaysTold ==
    ASSUME BatchHash = {}
    PROVE  SendsSpec => []SendsAreTold
<1>1. SendsInv /\ [SendsNext]_sendVars => SendsInv'
  BY SendsStep
<1>2. SendsInv => SendsAreTold
  <2> SUFFICES ASSUME SendsInv, SendsIdle PROVE told = expected
    BY DEF SendsAreTold
  <2>1. Batched \o callbacks = <<>>
    BY DEF SendsIdle, Batched
  <2>2. Owed(<<>>, told, expected) /\ told \in Inboxes /\ expected \in Inboxes
    BY <2>1 DEF SendsInv
  <2> QED BY <2>2, AllTold
<1> QED BY SendsBegin, <1>1, <1>2, PTL DEF SendsSpec
-----------------------------------------------------------------------------
(***************************************************************************)
(* A walk through a list, page by page, misses nothing and repeats only    *)
(* what newcomers have pushed on, for any sizes of list and page.          *)
(***************************************************************************)
Repeats(s) == Len(s) - Cardinality(Range(s))

LEMMA ToldIsFinite ==
    ASSUME NEW s \in Seq(Nat)
    PROVE  /\ IsFiniteSet(Range(s)) /\ Cardinality(Range(s)) \in Nat
           /\ Cardinality(Range(s)) <= Len(s)
           /\ IsInjective(s) => Cardinality(Range(s)) = Len(s)
<1>1. PICK n \in Nat : n = Len(s) /\ DOMAIN s = 1..n
  OBVIOUS
<1> DEFINE T == Range(s)
<1>2. s \in Surjection(1..n, T)
  <2>1. s \in [1..n -> T]
    BY <1>1 DEF Range
  <2>2. \A t \in T : \E k \in 1..n : s[k] = t
    BY <1>1 DEF Range
  <2> QED BY <2>1, <2>2 DEF Surjection
<1>3. IsFiniteSet(1..n) /\ Cardinality(1..n) = n
  BY FS_Interval
<1>4. IsInjective(s) => s \in Injection(1..n, T)
  <2>1. s \in [1..n -> T]
    BY <1>1 DEF Range
  <2> QED BY <2>1 DEF IsInjective, Injection
<1> HIDE DEF T
<1>5. /\ IsFiniteSet(T) /\ Cardinality(T) <= Cardinality(1..n)
      /\ Cardinality(T) = Cardinality(1..n) <=> s \in Injection(1..n, T)
  BY <1>2, <1>3, FS_Surjection
<1>6. Cardinality(T) \in Nat
  BY <1>5, FS_CardinalityType
<1> QED BY <1>1, <1>3, <1>4, <1>5, <1>6 DEF T

LEMMA ToldMore ==
    ASSUME NEW s \in Seq(Nat), NEW t \in Seq(Nat)
    PROVE  /\ s \o t \in Seq(Nat)
           /\ Len(s \o t) = Len(s) + Len(t)
           /\ Range(s \o t) = Range(s) \cup Range(t)
<1>1. PICK m \in Nat : m = Len(s) /\ DOMAIN s = 1..m
  OBVIOUS
<1>2. PICK n \in Nat : n = Len(t) /\ DOMAIN t = 1..n
  OBVIOUS
<1>3. PICK u : u = s \o t
  OBVIOUS
<1>4. /\ u \in Seq(Nat) /\ Len(u) = m + n /\ DOMAIN u = 1..(m + n)
      /\ \A k \in 1..m : u[k] = s[k]
      /\ \A k \in 1..n : u[m + k] = t[k]
  BY <1>1, <1>2, <1>3
<1>5. Range(u) \subseteq Range(s) \cup Range(t)
  <2> SUFFICES ASSUME NEW k \in 1..(m + n)
               PROVE  u[k] \in Range(s) \cup Range(t)
    BY <1>4 DEF Range
  <2>1. CASE k <= m
    <3>1. k \in 1..m
      BY <2>1
    <3> QED BY <1>1, <1>4, <3>1 DEF Range
  <2>2. CASE k > m
    <3>1. k - m \in 1..n /\ m + (k - m) = k
      BY <2>2
    <3>2. u[k] = t[k - m]
      BY <1>4, <3>1
    <3> QED BY <1>2, <3>1, <3>2 DEF Range
  <2> QED BY <2>1, <2>2
<1>6. Range(s) \subseteq Range(u)
  <2>1. \A k \in 1..m : k \in 1..(m + n)
    OBVIOUS
  <2> QED BY <1>1, <1>4, <2>1 DEF Range
<1>7. Range(t) \subseteq Range(u)
  <2>1. \A k \in 1..n : m + k \in 1..(m + n)
    OBVIOUS
  <2> QED BY <1>2, <1>4, <2>1 DEF Range
<1> QED BY <1>1, <1>2, <1>3, <1>4, <1>5, <1>6, <1>7

(* What a page adds to the repetitions is what it has in common with the   *)
(* pages before it.                                                        *)
LEMMA RepeatsMore ==
    ASSUME NEW s \in Seq(Nat), NEW t \in Seq(Nat), IsInjective(t),
           NEW old, IsFiniteSet(old), Range(t) \cap Range(s) \subseteq old
    PROVE  Repeats(s \o t) <= Repeats(s) + Cardinality(old)
<1>1. /\ Len(s) \in Nat /\ Len(t) \in Nat /\ Len(s \o t) = Len(s) + Len(t)
      /\ Range(s \o t) = Range(s) \cup Range(t)
  BY ToldMore
<1>2. /\ IsFiniteSet(Range(s)) /\ Cardinality(Range(s)) \in Nat
      /\ IsFiniteSet(Range(t)) /\ Cardinality(Range(t)) = Len(t)
  BY ToldIsFinite
<1>3. Cardinality(Range(s) \cup Range(t)) =
        Cardinality(Range(s)) + Cardinality(Range(t)) - Cardinality(Range(s) \cap Range(t))
  BY <1>2, FS_Union
<1>4. Range(s) \cap Range(t) \in SUBSET old
  OBVIOUS
<1>5. IsFiniteSet(Range(s) \cap Range(t)) /\ Cardinality(Range(s) \cap Range(t)) <= Cardinality(old)
  BY <1>4, FS_Subset
<1>6. Cardinality(Range(s) \cap Range(t)) \in Nat /\ Cardinality(old) \in Nat
  BY <1>5, FS_CardinalityType
<1> QED BY <1>1, <1>2, <1>3, <1>5, <1>6 DEF Repeats
-----------------------------------------------------------------------------
(* Leaving out decoys.                                                     *)

IsFilterFold(taken, g) ==
    g = [s \in SUBSET (DOMAIN taken) |->
           IF s = {} THEN <<>> ELSE KeepReal(g[s \ {Max(s)}], taken[Max(s)])]

LEMMA FilterIsChosen ==
    ASSUME NEW taken
    PROVE  WithoutDecoys(taken) = (CHOOSE f : IsFilterFold(taken, f))[DOMAIN taken]
BY DEF WithoutDecoys, FoldLeft, MapThenFoldSet, IsFilterFold

LEMMA KeepRealIs ==
    ASSUME NEW s \in Seq(Nat), NEW i \in Nat
    PROVE  KeepReal(s, i) \in Seq(Nat)
BY DEF KeepReal

LEMMA FilterSteps ==
    ASSUME NEW n \in Nat, NEW taken, DOMAIN taken = 1..n, \A i \in 1..n : taken[i] \in Nat
    PROVE  \E u : /\ u[0] = <<>>
                  /\ u[n] = WithoutDecoys(taken)
                  /\ \A i \in 1..n : u[i] = KeepReal(u[i - 1], taken[i])
<1> DEFINE Acc == Seq(Nat)
           F == [i \in 1..n |-> [r \in Acc |-> KeepReal(r, taken[i])]]
           IsFold(g) == IsFilterFold(taken, g)
<1>1. \A i \in 1..n : F[i] \in [Acc -> Acc]
  BY KeepRealIs
<1>2. \A i \in 1..n : \A r \in Acc : F[i][r] = KeepReal(r, taken[i])
  OBVIOUS
<1>3. <<>> \in Acc
  OBVIOUS
<1> HIDE DEF F, Acc
<1>4. PICK g \in [SUBSET (1..n) -> Acc] : Steps(n, F, <<>>, g)
  BY <1>1, <1>3, StepsExist
<1>5. IsFold(g)
  <2>1. ASSUME NEW s \in SUBSET (1..n), s # {}
        PROVE  g[s] = KeepReal(g[s \ {Max(s)}], taken[Max(s)])
    <3>1. Max(s) \in 1..n /\ g[s \ {Max(s)}] \in Acc
      BY <1>4, <2>1, MaxIn
    <3>2. g[s] = F[Max(s)][g[s \ {Max(s)}]]
      BY <1>4, <2>1 DEF Steps
    <3> QED BY <1>2, <3>1, <3>2
  <2>2. g = [s \in SUBSET (1..n) |->
               IF s = {} THEN <<>> ELSE KeepReal(g[s \ {Max(s)}], taken[Max(s)])]
    BY <1>4, <2>1 DEF Steps
  <2> QED BY <2>2 DEF IsFilterFold
<1> DEFINE h == CHOOSE f : IsFold(f)
           u == [k \in 0..n |-> h[1..k]]
<1>6. IsFold(h)
  BY <1>5
<1>7. WithoutDecoys(taken) = h[1..n]
  <2>1. WithoutDecoys(taken) = (CHOOSE f : IsFilterFold(taken, f))[DOMAIN taken]
    BY FilterIsChosen
  <2> QED BY <2>1
<1> HIDE DEF h
<1>8. h[{}] = <<>>
  BY <1>6 DEF IsFilterFold
<1>9. ASSUME NEW k \in 1..n
      PROVE  h[1..k] = KeepReal(h[1..(k - 1)], taken[k])
  <2>1. /\ 1..k \in SUBSET (1..n) /\ 1..k # {}
        /\ Max(1..k) = k /\ (1..k) \ {Max(1..k)} = 1..(k - 1)
    BY NumbersUpTo
  <2> HIDE DEF Max
  <2>2. h[1..k] = KeepReal(h[(1..k) \ {Max(1..k)}], taken[Max(1..k)])
    BY <1>6, <2>1 DEF IsFilterFold
  <2> QED BY <2>1, <2>2
<1>10. u[0] = h[{}] /\ u[n] = h[1..n]
       /\ \A i \in 1..n : u[i] = h[1..i] /\ u[i - 1] = h[1..(i - 1)]
  <2>1. 1..0 = {}
    OBVIOUS
  <2> QED BY <2>1
<1> HIDE DEF u
<1> QED BY <1>7, <1>8, <1>9, <1>10

(* One entry is left out or told, and nothing else changes.                *)
LEMMA KeepRealTells ==
    ASSUME NEW s \in Seq(Nat), IsInjective(s), NEW x \in Nat, x \notin Range(s)
    PROVE  /\ KeepReal(s, x) \in Seq(Nat)
           /\ IsInjective(KeepReal(s, x))
           /\ Range(KeepReal(s, x)) = Range(s) \cup (IF list[x] THEN {} ELSE {x})
<1>1. CASE list[x]
  BY <1>1 DEF KeepReal
<1>2. CASE ~list[x]
  <2>1. PICK n \in Nat : n = Len(s) /\ DOMAIN s = 1..n
    OBVIOUS
  <2>2. PICK t : t = Append(s, x)
    OBVIOUS
  <2>3. /\ t \in Seq(Nat) /\ DOMAIN t = 1..(n + 1) /\ t[n + 1] = x
        /\ \A k \in 1..n : t[k] = s[k]
    BY <2>1, <2>2
  <2>4. KeepReal(s, x) = t
    BY <1>2, <2>2 DEF KeepReal
  <2>5. \A k \in 1..(n + 1) : k = n + 1 \/ k \in 1..n
    OBVIOUS
  <2>6. n + 1 \in 1..(n + 1) /\ \A k \in 1..n : k \in 1..(n + 1)
    OBVIOUS
  <2>7. Range(t) = Range(s) \cup {x}
    BY <2>1, <2>3, <2>5, <2>6 DEF Range
  <2>8. IsInjective(t)
    <3>1. \A k \in 1..n : s[k] # x
      BY <2>1 DEF Range
    <3> QED BY <2>1, <2>3, <2>5, <3>1 DEF IsInjective
  <2> QED BY <1>2, <2>3, <2>4, <2>7, <2>8
<1> QED BY <1>1, <1>2

LEMMA FilterTells ==
    ASSUME NEW taken \in Seq(Nat), IsInjective(taken)
    PROVE  /\ WithoutDecoys(taken) \in Seq(Nat)
           /\ IsInjective(WithoutDecoys(taken))
           /\ Range(WithoutDecoys(taken)) = {x \in Range(taken) : ~list[x]}
<1>1. PICK n \in Nat : n = Len(taken) /\ DOMAIN taken = 1..n
  OBVIOUS
<1>2. \A i \in 1..n : taken[i] \in Nat
  BY <1>1
<1>3. PICK u : /\ u[0] = <<>>
               /\ u[n] = WithoutDecoys(taken)
               /\ \A i \in 1..n : u[i] = KeepReal(u[i - 1], taken[i])
  BY <1>1, <1>2, FilterSteps
<1> DEFINE Kept(i) == {x \in {taken[j] : j \in 1..i} : ~list[x]}
           Holds(i) == /\ u[i] \in Seq(Nat) /\ IsInjective(u[i])
                       /\ Range(u[i]) = Kept(i)
           G == {i \in 0..n : Holds(i)}
<1>4. 0 \in G
  <2>1. PICK none : none = <<>>
    OBVIOUS
  <2>2. none \in Seq(Nat) /\ IsInjective(none) /\ Range(none) = {}
    BY <2>1 DEF IsInjective, Range
  <2>3. Kept(0) = {}
    OBVIOUS
  <2> HIDE DEF Kept
  <2>4. Holds(0)
    BY <1>3, <2>1, <2>2, <2>3
  <2> HIDE DEF Holds
  <2> QED BY <2>4
<1>5. ASSUME NEW i \in 1..n, i - 1 \in G
      PROVE  i \in G
  <2>1. PICK s : s = u[i - 1]
    OBVIOUS
  <2>2. s \in Seq(Nat) /\ IsInjective(s) /\ Range(s) = Kept(i - 1)
    BY <1>5, <2>1
  <2>3. taken[i] \in Nat /\ taken[i] \notin Kept(i - 1)
    <3>1. \A j \in 1..(i - 1) : j \in 1..n /\ j # i
      OBVIOUS
    <3>2. \A j \in 1..(i - 1) : taken[j] # taken[i]
      BY <1>1, <3>1 DEF IsInjective
    <3> QED BY <1>2, <3>2
  <2>4. Kept(i) = Kept(i - 1) \cup (IF list[taken[i]] THEN {} ELSE {taken[i]})
    <3>1. 1..i = (1..(i - 1)) \cup {i}
      OBVIOUS
    <3> QED BY <3>1
  <2> HIDE DEF Kept
  <2>5. u[i] = KeepReal(s, taken[i])
    BY <1>3, <2>1
  <2>6. Holds(i)
    BY <2>2, <2>3, <2>4, <2>5, KeepRealTells
  <2> QED BY <2>6
<1> HIDE DEF G
<1>6. n \in G
  BY <1>4, <1>5, StepByStep
<1>7. Holds(n)
  BY <1>6 DEF G
<1>8. Kept(n) = {x \in Range(taken) : ~list[x]}
  BY <1>1 DEF Range
<1> QED BY <1>3, <1>7, <1>8
-----------------------------------------------------------------------------
(* Pages.                                                                  *)

\* The positions that a page covers, before decoys are left out.
Window(newest, past, size) ==
    IF newest THEN {i \in 1..Len(list) : i <= Len(list) - past /\ i > Len(list) - (past + size)}
    ELSE {i \in 1..Len(list) : i > past /\ i <= past + size}

\* What an order has behind those that were skipped.
Behind(order, past, size) ==
    {order[k] : k \in {i \in 1..Len(order) : i > past /\ i <= past + size}}

LEMMA TakenIs ==
    ASSUME NEW order \in Seq(Nat), IsInjective(order), NEW size \in Nat, NEW page,
           Skipped(page, size) \in Nat
    PROVE  /\ Taken(order, page, size) \in Seq(Nat)
           /\ IsInjective(Taken(order, page, size))
           /\ Range(Taken(order, page, size)) = Behind(order, Skipped(page, size), size)
<1>0. PICK L \in Nat, past \in Nat : L = Len(order) /\ past = Skipped(page, size)
  OBVIOUS
<1> DEFINE end == IF past + size > L THEN L ELSE past + size
<1>1. PICK e \in Nat : e = end /\ e <= L /\ e <= past + size /\ (e = L \/ e = past + size)
  BY Z3
<1>2. PICK t : t = SubSeq(order, past + 1, e)
  OBVIOUS
<1>3. Taken(order, page, size) = t
  BY <1>0, <1>1, <1>2 DEF Taken
<1>4. DOMAIN order = 1..L
  BY <1>0
<1>5. CASE e < past + 1
  <2>1. t = <<>>
    BY <1>1, <1>2, <1>5
  <2>2. {i \in 1..L : i > past /\ i <= past + size} = {}
    BY <1>1, <1>5
  <2>3. Behind(order, past, size) = {}
    BY <1>0, <2>2 DEF Behind
  <2> QED BY <1>0, <1>3, <2>1, <2>3 DEF Range, IsInjective
<1>6. CASE e >= past + 1
  <2>1. PICK n \in Nat : n = e - past
    BY <1>1, <1>6
  <2>2. /\ t \in Seq(Nat) /\ DOMAIN t = 1..n
        /\ \A k \in 1..n : t[k] = order[past + k]
    <3>1. PICK first \in Nat : first = past + 1 /\ 1 <= first /\ e <= Len(order)
      BY <1>0, <1>1
    <3>2. t = SubSeq(order, first, e)
      BY <1>2, <3>1
    <3>3. t \in Seq(Nat) /\ Len(t) = e - first + 1
      BY <1>6, <3>1, <3>2
    <3>4. \A k \in 1..(e - first + 1) : t[k] = order[first + k - 1]
      BY <3>1, <3>2
    <3>5. e - first + 1 = n /\ \A k \in 1..n : first + k - 1 = past + k
      BY <2>1, <3>1
    <3> QED BY <3>3, <3>4, <3>5
  <2>3. \A k \in 1..n : past + k \in 1..L /\ past + k > past /\ past + k <= past + size
    BY <1>1, <2>1
  <2>4. \A i \in 1..L : i > past /\ i <= past + size => i - past \in 1..n /\ past + (i - past) = i
    BY <1>1, <2>1
  <2>5. IsInjective(t)
    <3> SUFFICES ASSUME NEW j \in 1..n, NEW k \in 1..n, t[j] = t[k]
                 PROVE  j = k
      BY <2>2 DEF IsInjective
    <3>1. order[past + j] = order[past + k] /\ past + j \in 1..L /\ past + k \in 1..L
      BY <2>2, <2>3
    <3>2. past + j = past + k
      BY <1>4, <3>1 DEF IsInjective
    <3> QED BY <3>2
  <2> DEFINE I == {i \in 1..L : i > past /\ i <= past + size}
  <2>6. ASSUME NEW x
        PROVE  x \in Range(t) <=> x \in {order[k] : k \in I}
    <3>1. ASSUME NEW k \in 1..n
          PROVE  t[k] \in {order[i] : i \in I}
      <4>1. past + k \in I
        BY <2>3
      <4> QED BY <2>2, <4>1
    <3>2. ASSUME NEW i \in I
          PROVE  order[i] \in Range(t)
      <4>1. i - past \in 1..n /\ t[i - past] = order[past + (i - past)] /\ past + (i - past) = i
        BY <2>2, <2>4
      <4> QED BY <2>2, <4>1 DEF Range
    <3> HIDE DEF I
    <3> QED BY <2>2, <3>1, <3>2 DEF Range
  <2>7. Range(t) = {order[k] : k \in I}
    BY <2>6
  <2>8. Range(t) = Behind(order, past, size)
    BY <1>0, <2>7 DEF Behind
  <2> QED BY <1>0, <1>3, <2>2, <2>5, <2>8
<1> QED BY <1>1, <1>5, <1>6

LEMMA NewestIs ==
    ASSUME NEW L \in Nat, list \in Seq(BOOLEAN), Len(list) = L
    PROVE  /\ Newest \in Seq(Nat) /\ Len(Newest) = L /\ IsInjective(Newest)
           /\ \A i \in 1..L : Newest[i] = L + 1 - i
<1>1. Newest = [i \in 1..L |-> L + 1 - i]
  BY DEF Newest
<1>2. \A i \in 1..L : L + 1 - i \in Nat
  OBVIOUS
<1>3. Newest \in [1..L -> Nat]
  BY <1>1, <1>2
<1>4. Newest \in Seq(Nat) /\ Len(Newest) = L
  BY <1>3
<1>5. IsInjective(Newest)
  BY <1>1 DEF IsInjective
<1> QED BY <1>1, <1>4, <1>5

LEMMA OldestIs ==
    ASSUME NEW L \in Nat, list \in Seq(BOOLEAN), Len(list) = L
    PROVE  /\ Oldest \in Seq(Nat) /\ Len(Oldest) = L /\ IsInjective(Oldest)
           /\ \A i \in 1..L : Oldest[i] = i
<1>1. Oldest = [i \in 1..L |-> i]
  BY DEF Oldest
<1>2. Oldest \in [1..L -> Nat]
  BY <1>1
<1>3. Oldest \in Seq(Nat) /\ Len(Oldest) = L
  BY <1>2
<1>4. IsInjective(Oldest)
  BY <1>1 DEF IsInjective
<1> QED BY <1>1, <1>3, <1>4

(* What the token answers: the window, less the decoys if they are not     *)
(* wanted, each entry once.                                                *)
PageTold == IF reader.newest
          THEN HistoryPage(reader.page, reader.size, reader.filter)
          ELSE AllowancesPage(reader.page, reader.size)

Readers == [size : PageSize, newest : BOOLEAN, filter : BOOLEAN, page : Nat,
            due : Nat, seen : Seq(Nat), done : BOOLEAN]

LEMMA AnswerIs ==
    ASSUME NEW L \in Nat, list \in Seq(BOOLEAN), Len(list) = L,
           reader \in Readers, NEW past \in Nat, past = reader.page * reader.size,
           past <= MaxLength
    PROVE  /\ PageTold \in Seq(Nat) /\ IsInjective(PageTold)
           /\ Range(PageTold) = {i \in Window(reader.newest, past, reader.size) : Wanted(i)}
<1>1. PICK size \in Nat : size = reader.size
  BY PagingAssumption DEF Readers
<1>2. PICK page : page = reader.page
  OBVIOUS
<1>3. Skipped(page, size) = past
  <2>1. WordSize \in Nat /\ MaxLength \in Nat /\ past < WordSize
    BY PagingAssumption
  <2>2. past % WordSize = past
    BY <2>1
  <2> QED BY <1>1, <1>2, <2>2 DEF Skipped
<1> DEFINE I == {i \in 1..L : i > past /\ i <= past + size}
<1>4. CASE reader.newest
  <2> DEFINE W == {i \in 1..L : i <= L - past /\ i > L - (past + size)}
  <2>1. PICK taken : taken = Taken(Newest, page, size)
    OBVIOUS
  <2>2. /\ Newest \in Seq(Nat) /\ Len(Newest) = L /\ IsInjective(Newest)
        /\ \A i \in 1..L : Newest[i] = L + 1 - i
    BY NewestIs
  <2>3. /\ taken \in Seq(Nat) /\ IsInjective(taken)
        /\ Range(taken) = {Newest[k] : k \in I}
    <3>1. PICK order : order = Newest
      OBVIOUS
    <3>2. order \in Seq(Nat) /\ Len(order) = L /\ IsInjective(order)
      BY <2>2, <3>1
    <3>3. /\ taken \in Seq(Nat) /\ IsInjective(taken)
          /\ Range(taken) = Behind(order, past, size)
      BY <1>3, <2>1, <3>1, <3>2, TakenIs
    <3>4. Behind(order, past, size) = {order[k] : k \in I}
      BY <3>2 DEF Behind
    <3> QED BY <3>1, <3>3, <3>4
  <2>4. Range(taken) = W
    <3>1. \A k \in I : Newest[k] = L + 1 - k /\ L + 1 - k \in W
      BY <2>2
    <3>2. \A i \in W : L + 1 - i \in I /\ Newest[L + 1 - i] = i
      BY <2>2, SMTT(20)
    <3> HIDE DEF I, W
    <3> QED BY <2>3, <3>1, <3>2
  <2>5. Window(reader.newest, past, reader.size) = W
    BY <1>1, <1>4 DEF Window
  <2> HIDE DEF W, I
  <2>6. CASE reader.filter
    <3>1. PageTold = WithoutDecoys(taken)
      BY <1>1, <1>2, <1>4, <2>1, <2>6 DEF PageTold, HistoryPage
    <3>2. \A i : Wanted(i) <=> ~list[i]
      BY <1>4, <2>6 DEF Wanted
    <3>3. /\ WithoutDecoys(taken) \in Seq(Nat) /\ IsInjective(WithoutDecoys(taken))
          /\ Range(WithoutDecoys(taken)) = {x \in Range(taken) : ~list[x]}
      BY <2>3, FilterTells
    <3> QED BY <2>4, <2>5, <3>1, <3>2, <3>3
  <2>7. CASE ~reader.filter
    <3>1. PageTold = taken
      BY <1>1, <1>2, <1>4, <2>1, <2>7 DEF PageTold, HistoryPage
    <3>2. \A i : Wanted(i)
      BY <2>7 DEF Wanted
    <3> QED BY <2>3, <2>4, <2>5, <3>1, <3>2
  <2> QED BY <2>6, <2>7
<1>5. CASE ~reader.newest
  <2>1. PICK taken : taken = Taken(Oldest, page, size)
    OBVIOUS
  <2>2. /\ Oldest \in Seq(Nat) /\ Len(Oldest) = L /\ IsInjective(Oldest)
        /\ \A i \in 1..L : Oldest[i] = i
    BY OldestIs
  <2>3. /\ taken \in Seq(Nat) /\ IsInjective(taken)
        /\ Range(taken) = {Oldest[k] : k \in I}
    <3>1. PICK order : order = Oldest
      OBVIOUS
    <3>2. order \in Seq(Nat) /\ Len(order) = L /\ IsInjective(order)
      BY <2>2, <3>1
    <3>3. /\ taken \in Seq(Nat) /\ IsInjective(taken)
          /\ Range(taken) = Behind(order, past, size)
      BY <1>3, <2>1, <3>1, <3>2, TakenIs
    <3>4. Behind(order, past, size) = {order[k] : k \in I}
      BY <3>2 DEF Behind
    <3> QED BY <3>1, <3>3, <3>4
  <2>4. Range(taken) = I
    BY <2>2, <2>3
  <2>5. Window(reader.newest, past, reader.size) = I
    BY <1>1, <1>5 DEF Window
  <2>6. PageTold = taken /\ \A i : Wanted(i)
    BY <1>1, <1>2, <1>5, <2>1 DEF PageTold, AllowancesPage, Wanted
  <2> QED BY <2>3, <2>4, <2>5, <2>6
<1> QED BY <1>4, <1>5
-----------------------------------------------------------------------------
(* The invariant of a walk.                                                *)

Past == reader.page * reader.size

\* From the newest on: what is wanted above b has been seen, and nothing else.
\* What was seen twice was pushed on.
Down(b) == /\ b + Past <= Len(list)
           /\ Repeats(reader.seen) + reader.due <= b + Past
           /\ \A i \in Range(reader.seen) : i > b
           /\ \A i \in 1..reader.due : Wanted(i) /\ i > b => i \in Range(reader.seen)
           /\ IF reader.done THEN b <= 0 ELSE b >= 0

\* From the oldest on: what the pages covered has been seen, once.
Up == /\ Repeats(reader.seen) <= 0
      /\ \A i \in Range(reader.seen) : i <= Past
      /\ \A i \in 1..reader.due : i <= Past => i \in Range(reader.seen)
      /\ reader.done => reader.due <= Past

Walk == /\ reader \in Readers
        /\ reader.due <= Len(list)
        /\ ~reader.done => Past <= MaxLength
        /\ \A i \in Range(reader.seen) : i \in 1..Len(list) /\ Wanted(i)
        /\ IF reader.newest THEN \E b \in Int : Down(b) ELSE Up

ListInv == /\ list \in Seq(BOOLEAN)
           /\ Len(list) <= MaxLength
           /\ reader # NoReader => Walk

LEMMA ReaderIs ==
    ASSUME reader \in Readers
    PROVE  /\ reader.size \in Nat /\ reader.size > 0 /\ reader.page \in Nat
           /\ reader.due \in Nat /\ reader.seen \in Seq(Nat)
           /\ reader.newest \in BOOLEAN /\ reader.filter \in BOOLEAN /\ reader.done \in BOOLEAN
           /\ Past \in Nat
           /\ Repeats(reader.seen) \in Nat
<1>1. reader.size \in Nat /\ reader.size > 0 /\ reader.page \in Nat
  <2>1. reader.size \in PageSize /\ reader.page \in Nat
    BY DEF Readers
  <2>2. \A size \in PageSize : size \in Nat /\ size > 0
    BY PagingAssumption
  <2> QED BY <2>1, <2>2
<1>2. reader.seen \in Seq(Nat)
  BY DEF Readers
<1>3. Repeats(reader.seen) \in Nat
  <2>1. /\ Cardinality(Range(reader.seen)) \in Nat
        /\ Cardinality(Range(reader.seen)) <= Len(reader.seen)
    BY <1>2, ToldIsFinite
  <2>2. Len(reader.seen) \in Nat
    BY <1>2
  <2> QED BY <2>1, <2>2 DEF Repeats
<1>4. Past \in Nat
  BY <1>1 DEF Past
<1> QED BY <1>1, <1>2, <1>3, <1>4 DEF Readers

LEMMA ListBegins == ListInit => ListInv
<1> SUFFICES ASSUME ListInit PROVE ListInv
  OBVIOUS
<1>1. list \in Seq(BOOLEAN) /\ Len(list) = 0 /\ reader = NoReader
  BY DEF ListInit
<1> QED BY <1>1, PagingAssumption DEF ListInv

(* An entry more disturbs no walk.                                         *)
LEMMA PushKeeps ==
    ASSUME ListInv, NEW decoy \in BOOLEAN, Push(decoy)
    PROVE  ListInv'
<1>1. PICK L \in Nat : L = Len(list)
  BY DEF ListInv
<1>2. /\ list' \in Seq(BOOLEAN) /\ Len(list') = L + 1 /\ L + 1 <= MaxLength
      /\ \A i \in 1..L : list'[i] = list[i]
  BY <1>1, PagingAssumption DEF ListInv, Push
<1>3. reader' = reader
  BY DEF Push
<1>4. ASSUME reader # NoReader
      PROVE  Walk'
  <2>1. Walk /\ reader \in Readers
    BY <1>4 DEF ListInv, Walk
  <2>2. /\ reader.due \in Nat /\ Past \in Nat /\ Past' = Past
        /\ Repeats(reader.seen) \in Nat
    BY <1>3, <2>1, ReaderIs DEF Past
  <2>3. \A i \in 1..L : Wanted(i)' <=> Wanted(i)
    BY <1>2, <1>3 DEF Wanted
  <2>4. /\ reader' \in Readers /\ reader'.due <= Len(list')
        /\ ~reader'.done => Past' <= MaxLength
    BY <1>1, <1>2, <1>3, <2>1, <2>2 DEF Walk
  <2>5. \A i \in Range(reader'.seen) : i \in 1..Len(list') /\ Wanted(i)'
    <3>1. \A i \in Range(reader.seen) : i \in 1..L /\ Wanted(i)
      BY <1>1, <2>1 DEF Walk
    <3>2. \A i \in 1..L : i \in 1..Len(list')
      BY <1>2
    <3> QED BY <1>3, <2>3, <3>1, <3>2
  <2>6. ASSUME NEW b \in Int, Down(b)
        PROVE  Down(b)'
    <3>1. b + Past' <= Len(list')
      BY <1>1, <1>2, <2>2, <2>6 DEF Down
    <3>2. \A i \in 1..reader.due : i \in 1..L
      BY <1>1, <2>1, <2>2 DEF Walk
    <3>3. \A i \in 1..reader'.due : Wanted(i)' /\ i > b => i \in Range(reader'.seen)
      BY <1>3, <2>3, <2>6, <3>2 DEF Down
    <3> QED BY <1>3, <2>2, <2>6, <3>1, <3>3 DEF Down, Repeats, Range
  <2>7. ASSUME Up
        PROVE  Up'
    BY <1>3, <2>2, <2>7 DEF Up, Repeats, Range
  <2> QED BY <1>3, <2>1, <2>4, <2>5, <2>6, <2>7 DEF Walk
<1> QED BY <1>2, <1>3, <1>4 DEF ListInv

LEMMA StartKeeps ==
    ASSUME ListInv, NEW size \in PageSize, NEW newest \in BOOLEAN, NEW filter \in BOOLEAN,
           Start(size, newest, filter)
    PROVE  ListInv'
<1>1. PICK L \in Nat : L = Len(list) /\ L <= MaxLength
  BY DEF ListInv
<1>2. /\ list' = list
      /\ reader' = [size |-> size, newest |-> newest, filter |-> filter,
                    page |-> 0, due |-> Len(list), seen |-> <<>>, done |-> FALSE]
  BY DEF Start
<1>3. PICK none : none = <<>>
  OBVIOUS
<1>4. /\ reader'.seen = none /\ reader'.due = L /\ reader'.done = FALSE
      /\ reader'.page = 0 /\ reader'.size = size
  BY <1>1, <1>2, <1>3
<1>5. none \in Seq(Nat) /\ Range(none) = {} /\ Repeats(none) = 0
  <2>1. none \in Seq(Nat) /\ Range(none) = {} /\ Len(none) = 0
    BY <1>3 DEF Range
  <2> QED BY <2>1, FS_EmptySet DEF Repeats
<1>6. reader' \in Readers
  BY <1>1, <1>2 DEF Readers
<1>7. Past' = 0
  <2>1. size \in Nat
    BY PagingAssumption
  <2>2. 0 * size = 0
    BY <2>1
  <2> QED BY <1>4, <2>2 DEF Past
<1>8. Down(L)'
  <2>1. Repeats(reader'.seen) = 0 /\ Range(reader'.seen) = {}
    BY <1>4, <1>5
  <2> QED BY <1>1, <1>2, <1>4, <1>7, <2>1 DEF Down, Repeats
<1>9. Up'
  <2>1. Repeats(reader'.seen) = 0 /\ Range(reader'.seen) = {}
    BY <1>4, <1>5
  <2> QED BY <1>1, <1>2, <1>4, <1>7, <2>1 DEF Up, Repeats
<1>10. Walk'
  <2>1. Range(reader'.seen) = {}
    BY <1>4, <1>5
  <2> QED BY <1>1, <1>2, <1>4, <1>6, <1>7, <1>8, <1>9, <2>1, PagingAssumption DEF Walk
<1> QED BY <1>2, <1>10 DEF ListInv
(* A window is as wide as the page at most.                                *)
LEMMA Between ==
    ASSUME NEW low \in Int, NEW high \in Int, low <= high
    PROVE  /\ IsFiniteSet((low + 1)..high)
           /\ Cardinality((low + 1)..high) = high - low
<1>1. PICK from \in Int : from = low + 1
  OBVIOUS
<1>2. /\ IsFiniteSet(from..high)
      /\ Cardinality(from..high) = IF from > high THEN 0 ELSE high - from + 1
  BY <1>1, FS_Interval
<1>3. (IF from > high THEN 0 ELSE high - from + 1) = high - low
  BY <1>1
<1> QED BY <1>1, <1>2, <1>3

LEMMA ReadIs ==
    ASSUME ListInv, Read
    PROVE  /\ reader \in Readers /\ Walk /\ ~reader.done
           /\ reader' \in Readers
           /\ list' = list
           /\ reader'.newest = reader.newest /\ reader'.filter = reader.filter
           /\ reader'.due = reader.due /\ reader'.size = reader.size
           /\ reader'.seen = reader.seen \o PageTold
           /\ Past' = Past + reader.size
           /\ reader'.done <=> Past + reader.size >= Len(list)
           /\ PageTold \in Seq(Nat) /\ IsInjective(PageTold)
           /\ Range(PageTold) = {i \in Window(reader.newest, Past, reader.size) : Wanted(i)}
<1>1. /\ reader \in Readers /\ Walk /\ ~reader.done /\ reader # NoReader
  BY DEF Read, ListInv, Walk
<1>2. PICK L \in Nat : L = Len(list) /\ list \in Seq(BOOLEAN)
  BY DEF ListInv
<1>3. PICK past \in Nat : past = Past /\ past = reader.page * reader.size /\ past <= MaxLength
  BY <1>1, ReaderIs DEF Past, Walk
<1>4. /\ PageTold \in Seq(Nat) /\ IsInjective(PageTold)
      /\ Range(PageTold) = {i \in Window(reader.newest, past, reader.size) : Wanted(i)}
  BY <1>1, <1>2, <1>3, AnswerIs
<1>5. reader' = [reader EXCEPT !.seen = @ \o PageTold,
                               !.page = @ + 1,
                               !.done = (reader.page + 1) * reader.size >= Len(list)]
  BY DEF Read, PageTold
<1>6. reader.seen \o PageTold \in Seq(Nat)
  BY <1>1, <1>4, ReaderIs, ToldMore
<1>7. PICK seen, done : /\ seen = reader.seen \o PageTold
                        /\ done = ((reader.page + 1) * reader.size >= Len(list))
  OBVIOUS
<1>8. /\ reader'.newest = reader.newest /\ reader'.filter = reader.filter
      /\ reader'.due = reader.due /\ reader'.size = reader.size
      /\ reader'.seen = seen /\ reader'.page = reader.page + 1
      /\ reader'.done = done
      /\ reader' \in Readers
  <2>1. reader' = [reader EXCEPT !.seen = seen, !.page = @ + 1, !.done = done]
    BY <1>5, <1>7
  <2>2. seen \in Seq(Nat) /\ done \in BOOLEAN
    BY <1>6, <1>7
  <2>3. /\ reader.size \in PageSize /\ reader.newest \in BOOLEAN
        /\ reader.filter \in BOOLEAN /\ reader.page + 1 \in Nat /\ reader.due \in Nat
    BY <1>1 DEF Readers
  <2>4. reader' = [size |-> reader.size, newest |-> reader.newest,
                   filter |-> reader.filter, page |-> reader.page + 1,
                   due |-> reader.due, seen |-> seen, done |-> done]
    BY <1>1, <2>1 DEF Readers
  <2>5. reader' \in Readers
    BY <2>2, <2>3, <2>4 DEF Readers
  <2> QED BY <2>4, <2>5
<1>9. (reader.page + 1) * reader.size = past + reader.size
  <2>1. reader.page \in Nat /\ reader.size \in Nat
    BY <1>1, ReaderIs
  <2>2. \A p, n \in Nat : (p + 1) * n = p * n + n
    OBVIOUS
  <2> QED BY <1>3, <2>1, <2>2
<1>10. Past' = past + reader.size
  BY <1>8, <1>9 DEF Past
<1>11. reader'.done <=> past + reader.size >= Len(list)
  BY <1>7, <1>8, <1>9
<1>12. list' = list
  BY DEF Read
<1> QED BY <1>1, <1>3, <1>4, <1>7, <1>8, <1>10, <1>11, <1>12

(* A page of the newest: the entries that were seen before are those above *)
(* b, and every one of them was pushed there by a newcomer.                *)
LEMMA DownOne ==
    ASSUME ListInv, Read, reader.newest, NEW b \in Int, Down(b)
    PROVE  \E c \in Int : Down(c)'
<1>1. PICK L \in Nat : L = Len(list) /\ list \in Seq(BOOLEAN) /\ L <= MaxLength
  BY DEF ListInv
<1>2. PICK past \in Nat, size \in Nat : past = Past /\ size = reader.size
  BY ReadIs, ReaderIs
<1>3. PICK s \in Seq(Nat), t \in Seq(Nat) : s = reader.seen /\ t = PageTold
  BY ReadIs, ReaderIs
<1> DEFINE low == L - (past + size)
           W == {i \in 1..L : i <= L - past /\ i > low}
           c == IF b < low THEN b ELSE low
           Above == (c + 1)..(L - past)
<1>4. /\ IsInjective(t) /\ Range(t) = {i \in W : Wanted(i)}
      /\ reader'.seen = s \o t /\ Past' = past + size /\ list' = list
      /\ reader'.due = reader.due /\ reader'.newest = reader.newest
      /\ reader'.filter = reader.filter
      /\ reader'.done <=> past + size >= L
  BY <1>1, <1>2, <1>3, ReadIs DEF Window
<1>5. /\ b + past <= L /\ b >= 0 /\ Repeats(s) + reader.due <= b + past
      /\ \A i \in Range(s) : i > b
      /\ \A i \in 1..reader.due : Wanted(i) /\ i > b => i \in Range(s)
  BY <1>1, <1>2, <1>3, ReadIs DEF Down
<1>6. reader.due \in Nat /\ reader.due <= L /\ Repeats(s) \in Nat
  BY <1>1, <1>3, ReadIs, ReaderIs DEF Walk
<1>7. c \in Int /\ c <= b /\ c <= low /\ (c = b \/ c = low)
  BY <1>1, <1>2
<1>8. Range(s \o t) = Range(s) \cup Range(t) /\ s \o t \in Seq(Nat)
  BY ToldMore
<1> HIDE DEF c
<1> DEFINE Seen == {i \in W : i > b}
<1>9. IsFiniteSet(Seen) /\ Cardinality(Seen) \in Nat /\ Cardinality(Seen) + b + past <= c + past + size
  <2>1. PICK from \in Int : IF b < low THEN from = low /\ c = b ELSE from = b /\ c = low
    <3>1. low \in Int
      OBVIOUS
    <3>2. CASE b < low
      BY <3>1, <3>2 DEF c
    <3>3. CASE ~(b < low)
      BY <3>3 DEF c
    <3> QED BY <3>2, <3>3
  <2>2. from <= L - past /\ Seen \in SUBSET ((from + 1)..(L - past))
    BY <1>5, <2>1
  <2>3. L - past - from + b = c + size
    BY <1>7, <2>1
  <2>4. PICK high \in Int : high = L - past
    OBVIOUS
  <2>5. /\ IsFiniteSet((from + 1)..high)
        /\ Cardinality((from + 1)..high) = high - from
    BY <2>1, <2>2, <2>4, Between
  <2> HIDE DEF Seen
  <2>6. IsFiniteSet(Seen) /\ Cardinality(Seen) <= high - from
    <3>1. PICK all : all = (from + 1)..high
      OBVIOUS
    <3>2. IsFiniteSet(all) /\ Cardinality(all) = high - from /\ Seen \in SUBSET all
      BY <2>2, <2>4, <2>5, <3>1
    <3> QED BY <3>2, FS_Subset
  <2>7. Cardinality(Seen) \in Nat
    BY <2>6, FS_CardinalityType
  <2> QED BY <2>1, <2>3, <2>4, <2>6, <2>7, <1>7
<1>10. Repeats(s \o t) <= Repeats(s) + Cardinality(Seen)
  <2>1. Range(t) \cap Range(s) \subseteq Seen
    BY <1>4, <1>5
  <2> HIDE DEF Seen
  <2> QED BY <1>4, <1>9, <2>1, RepeatsMore
<1>11. Repeats(s \o t) \in Int
  <2>1. PICK all \in Seq(Nat) : all = s \o t
    BY <1>8
  <2>2. Cardinality(Range(all)) \in Nat /\ Len(all) \in Nat
    BY ToldIsFinite
  <2> QED BY <2>1, <2>2 DEF Repeats
<1>12. Repeats(s \o t) + reader.due <= c + (past + size)
  <2> HIDE DEF Seen
  <2> QED BY <1>5, <1>6, <1>7, <1>9, <1>10, <1>11
<1>13. \A i \in Range(s \o t) : i > c
  <2>1. \A i \in Range(s) : i \in Nat
    BY DEF Range
  <2>2. \A i \in Range(s) : i > c
    <3> SUFFICES ASSUME NEW i \in Range(s) PROVE i > c
      OBVIOUS
    <3> QED BY <1>5, <1>7, <2>1
  <2>3. \A i \in W : i > c
    BY <1>7
  <2> QED BY <1>4, <1>8, <2>2, <2>3
<1>14. \A i \in 1..reader.due : Wanted(i)' /\ i > c => i \in Range(s \o t)
  <2> SUFFICES ASSUME NEW i \in 1..reader.due, Wanted(i)', i > c
               PROVE  i \in Range(s) \cup Range(t)
    BY <1>8
  <2>1. Wanted(i)
    BY <1>4 DEF Wanted
  <2>2. CASE i > b
    BY <1>5, <2>1, <2>2
  <2>3. CASE ~(i > b)
    <3>1. c = low /\ i <= L - past /\ i \in 1..L
      BY <1>5, <1>6, <1>7, <2>3
    <3> QED BY <1>4, <2>1, <3>1
  <2> QED BY <2>2, <2>3
<1>15. IF reader'.done THEN c <= 0 ELSE c >= 0
  BY <1>4, <1>5, <1>7
<1>16. c + (past + size) <= L
  BY <1>7
<1>17. Down(c)'
  <2>1. PICK all : all = s \o t
    OBVIOUS
  <2>2. reader'.seen = all /\ Past' = past + size /\ Len(list') = L
    BY <1>1, <1>4, <2>1
  <2>3. /\ Repeats(all) + reader'.due <= c + Past'
        /\ \A i \in Range(all) : i > c
        /\ \A i \in 1..reader'.due : Wanted(i)' /\ i > c => i \in Range(all)
        /\ c + Past' <= Len(list')
    BY <1>4, <1>12, <1>13, <1>14, <1>16, <2>1, <2>2
  <2> QED BY <1>15, <2>2, <2>3 DEF Down, Repeats, Range
<1> QED BY <1>7, <1>17

(* A page of the oldest shares no entry with those before it.              *)
LEMMA UpOne ==
    ASSUME ListInv, Read, ~reader.newest, Up
    PROVE  Up'
<1>1. PICK L \in Nat : L = Len(list) /\ list \in Seq(BOOLEAN) /\ L <= MaxLength
  BY DEF ListInv
<1>2. PICK past \in Nat, size \in Nat : past = Past /\ size = reader.size
  BY ReadIs, ReaderIs
<1>3. PICK s \in Seq(Nat), t \in Seq(Nat) : s = reader.seen /\ t = PageTold
  BY ReadIs, ReaderIs
<1> DEFINE W == {i \in 1..L : i > past /\ i <= past + size}
<1>4. /\ IsInjective(t) /\ Range(t) = {i \in W : Wanted(i)}
      /\ reader'.seen = s \o t /\ Past' = past + size
      /\ reader'.due = reader.due
      /\ reader'.done <=> past + size >= L
  BY <1>1, <1>2, <1>3, ReadIs DEF Window
<1>5. \A i : Wanted(i)
  BY DEF Wanted
<1>6. /\ Repeats(s) <= 0 /\ Repeats(s) \in Nat
      /\ \A i \in Range(s) : i <= past
      /\ \A i \in 1..reader.due : i <= past => i \in Range(s)
      /\ reader.due \in Nat /\ reader.due <= L
  BY <1>1, <1>2, <1>3, ReadIs, ReaderIs DEF Up, Walk
<1>7. Range(s \o t) = Range(s) \cup Range(t) /\ s \o t \in Seq(Nat)
  BY ToldMore
<1>8. Repeats(s \o t) <= Repeats(s) + Cardinality({})
  <2>1. Range(t) \cap Range(s) \subseteq {}
    BY <1>4, <1>6
  <2>2. IsFiniteSet({})
    BY FS_EmptySet
  <2> QED BY <1>4, <2>1, <2>2, RepeatsMore
<1>9. Repeats(s \o t) <= 0
  <2>1. Cardinality({}) = 0
    BY FS_EmptySet
  <2>2. Repeats(s \o t) \in Int
    <3>1. PICK all \in Seq(Nat) : all = s \o t
      BY <1>7
    <3>2. Cardinality(Range(all)) \in Nat /\ Len(all) \in Nat
      BY ToldIsFinite
    <3> QED BY <3>1, <3>2 DEF Repeats
  <2> QED BY <1>6, <1>8, <2>1, <2>2
<1>10. \A i \in Range(s \o t) : i <= past + size
  <2>1. \A i \in Range(s) : i \in Nat /\ i <= past
    BY <1>6 DEF Range
  <2>2. \A i \in Range(s) : i <= past + size
    BY <2>1
  <2> QED BY <1>4, <1>7, <2>2
<1>11. \A i \in 1..reader.due : i <= past + size => i \in Range(s \o t)
  BY <1>4, <1>5, <1>6, <1>7
<1>12. reader'.done => reader.due <= past + size
  BY <1>4, <1>6
<1> QED BY <1>4, <1>9, <1>10, <1>11, <1>12 DEF Up, Repeats, Range

LEMMA ReadKeeps ==
    ASSUME ListInv, Read
    PROVE  ListInv'
<1>1. PICK L \in Nat : L = Len(list) /\ list \in Seq(BOOLEAN) /\ L <= MaxLength
  BY DEF ListInv
<1>2. /\ reader \in Readers /\ Walk /\ reader' \in Readers /\ list' = list
      /\ reader'.newest = reader.newest /\ reader'.filter = reader.filter
      /\ reader'.due = reader.due /\ reader'.seen = reader.seen \o PageTold
      /\ Past' = Past + reader.size
      /\ reader'.done <=> Past + reader.size >= Len(list)
      /\ PageTold \in Seq(Nat)
      /\ Range(PageTold) = {i \in Window(reader.newest, Past, reader.size) : Wanted(i)}
  BY ReadIs
<1>3. reader.due <= Len(list) /\ reader.size \in Nat /\ Past \in Nat
  BY <1>2, ReaderIs DEF Walk
<1>4. ~reader'.done => Past' <= MaxLength
  BY <1>1, <1>2, <1>3, PagingAssumption
<1>5. ASSUME NEW i \in Range(reader'.seen)
      PROVE  i \in 1..Len(list') /\ Wanted(i)'
  <2>1. i \in Range(reader.seen) \cup Range(PageTold)
    BY <1>2, ReaderIs, ToldMore
  <2>2. i \in 1..L /\ Wanted(i)
    BY <1>1, <1>2, <2>1 DEF Walk, Window
  <2> QED BY <1>1, <1>2, <2>2 DEF Wanted
<1>6. CASE reader.newest
  BY <1>1, <1>2, <1>3, <1>4, <1>5, <1>6, DownOne DEF Walk, ListInv
<1>7. CASE ~reader.newest
  BY <1>1, <1>2, <1>3, <1>4, <1>5, <1>7, UpOne DEF Walk, ListInv
<1> QED BY <1>6, <1>7

LEMMA ListStep == ListInv /\ [ListNext]_listVars => ListInv'
<1> SUFFICES ASSUME ListInv, [ListNext]_listVars PROVE ListInv'
  OBVIOUS
<1>1. ASSUME NEW decoy \in BOOLEAN, Push(decoy)
      PROVE  ListInv'
  BY <1>1, PushKeeps
<1>2. ASSUME NEW size \in PageSize, NEW newest \in BOOLEAN, NEW filter \in BOOLEAN,
             Start(size, newest, filter)
      PROVE  ListInv'
  BY <1>2, StartKeeps
<1>3. CASE Read
  BY <1>3, ReadKeeps
<1>4. CASE Leave
  BY <1>4 DEF Leave, ListInv
<1>5. CASE UNCHANGED listVars
  <2>1. list' = list /\ reader' = reader
    BY <1>5 DEF listVars
  <2> QED BY <2>1 DEF ListInv, Walk, Down, Up, Past, Repeats, Range, Wanted
<1> QED BY <1>1, <1>2, <1>3, <1>4, <1>5 DEF ListNext

LEMMA ListAlways == ListSpec => []ListInv
BY ListBegins, ListStep, PTL DEF ListSpec

(* A walk that has come to the end has told every entry that was in the    *)
(* list when it began, whatever was pushed meanwhile (pages in             *)
(* transaction_history.rs, Account::allowances in state.rs).               *)
THEOREM WalkNeverMisses == ListSpec => []WalkMissesNothing
<1>1. ListInv => WalkMissesNothing
  <2> SUFFICES ASSUME ListInv, reader # NoReader, reader.done,
                      NEW i \in 1..reader.due, Wanted(i)
               PROVE  Times(i) > 0
    BY DEF WalkMissesNothing
  <2>1. Walk /\ reader \in Readers
    BY DEF ListInv, Walk
  <2>2. reader.seen \in Seq(Nat) /\ reader.due \in Nat /\ Past \in Nat
    BY <2>1, ReaderIs
  <2>3. i \in Range(reader.seen)
    <3>1. CASE reader.newest
      <4>1. PICK b \in Int : Down(b)
        BY <2>1, <3>1 DEF Walk
      <4> QED BY <2>2, <4>1 DEF Down
    <3>2. CASE ~reader.newest
      BY <2>1, <2>2, <3>2 DEF Walk, Up
    <3> QED BY <3>1, <3>2
  <2>4. PICK s \in Seq(Nat), n \in Nat : s = reader.seen /\ n = Len(s) /\ DOMAIN s = 1..n
    BY <2>2
  <2> DEFINE K == {k \in 1..n : s[k] = i}
  <2>5. K # {} /\ K \in SUBSET (1..n)
    BY <2>3, <2>4 DEF Range
  <2>6. Times(i) = Cardinality(K)
    BY <2>4 DEF Times
  <2> HIDE DEF K
  <2>7. IsFiniteSet(K)
    <3>1. IsFiniteSet(1..n)
      BY FS_Interval
    <3> QED BY <2>5, <3>1, FS_Subset
  <2>8. Cardinality(K) \in Nat /\ Cardinality(K) # 0
    BY <2>5, <2>7, FS_CardinalityType, FS_EmptySet
  <2> QED BY <2>6, <2>8
<1> QED BY <1>1, ListAlways, PTL

(* Only what newcomers pushed to a later page is told twice, and nothing   *)
(* that was not wanted is told.                                            *)
THEOREM WalkNeverRepeatsMore == ListSpec => []WalkRepeatsOnlyWhatMoved
<1>1. ListInv => WalkRepeatsOnlyWhatMoved
  <2> SUFFICES ASSUME ListInv, reader # NoReader
               PROVE  /\ \A k \in DOMAIN reader.seen : Wanted(reader.seen[k])
                      /\ Len(reader.seen) - Cardinality({reader.seen[k] : k \in DOMAIN reader.seen})
                         <= IF reader.newest THEN Len(list) - reader.due ELSE 0
    BY DEF WalkRepeatsOnlyWhatMoved
  <2>1. Walk /\ reader \in Readers
    BY DEF ListInv, Walk
  <2>2. /\ reader.due \in Nat /\ Past \in Nat /\ Repeats(reader.seen) \in Nat
        /\ Len(list) \in Nat
    BY <2>1, ReaderIs DEF ListInv
  <2>3. \A k \in DOMAIN reader.seen : Wanted(reader.seen[k])
    BY <2>1 DEF Walk, Range
  <2>4. Len(reader.seen) - Cardinality({reader.seen[k] : k \in DOMAIN reader.seen})
          = Repeats(reader.seen)
    BY DEF Repeats, Range
  <2>5. Repeats(reader.seen) <= IF reader.newest THEN Len(list) - reader.due ELSE 0
    <3>1. CASE reader.newest
      <4>1. PICK b \in Int : Down(b)
        BY <2>1, <3>1 DEF Walk
      <4>2. b + Past <= Len(list) /\ Repeats(reader.seen) + reader.due <= b + Past
        BY <4>1 DEF Down
      <4> QED BY <2>2, <3>1, <4>1, <4>2
    <3>2. CASE ~reader.newest
      BY <2>1, <3>2 DEF Walk, Up
    <3> QED BY <3>1, <3>2
  <2> QED BY <2>3, <2>4, <2>5
<1> QED BY <1>1, ListAlways, PTL
=============================================================================
