----------------------------- MODULE ReadAccess -----------------------------
(***************************************************************************)
(* What the private queries of a token promise.  An account decides who    *)
(* sees its data: by one viewing key, which replaces the one before, and   *)
(* by permits for some kinds of data, which it withdraws by name and for   *)
(* good, those included that it has yet to sign.  A question is answered   *)
(* if and only if some account that it is about has allowed it.            *)
(***************************************************************************)
CONSTANTS Account, Key, Name,
          Kind,      \* kinds of data
          Kinds,     \* what a permit may be good for: sets of kinds
          Nobody     \* no key, no permit, nothing asked yet

VARIABLES key,       \* the viewing key of every account, or Nobody
          permits,   \* permits that are good: [signer, name, kinds]
          withdrawn, \* pairs of an account and a name of permits
          asked      \* a question, and whether it is answered

vars == <<key, permits, withdrawn, asked>>

Init == /\ key = [a \in Account |-> Nobody]
        /\ permits = {}
        /\ withdrawn = {}
        /\ asked = Nobody

Choose(a, k) == /\ key' = [key EXCEPT ![a] = k]
                /\ asked' = Nobody
                /\ UNCHANGED <<permits, withdrawn>>

Issue(a, n, kinds) ==
    /\ <<a, n>> \notin withdrawn
    /\ permits' = permits \cup {[signer |-> a, name |-> n, kinds |-> kinds]}
    /\ asked' = Nobody
    /\ UNCHANGED <<key, withdrawn>>

Withdraw(a, n) ==
    /\ withdrawn' = withdrawn \cup {<<a, n>>}
    /\ permits' = {p \in permits : <<p.signer, p.name>> # <<a, n>>}
    /\ asked' = Nobody
    /\ UNCHANGED key

AskWithKey(k, kind, of) ==
    /\ asked' = [key |-> k, kind |-> kind, of |-> of,
                 answered |-> \E a \in of : key[a] = k]
    /\ UNCHANGED <<key, permits, withdrawn>>

\* Whatever is presented instead of a permit counts as Nobody's.
AskWithPermit(p, kind, of) ==
    /\ asked' = [permit |-> p, kind |-> kind, of |-> of,
                 answered |-> p \in permits /\ p.signer \in of /\ kind \in p.kinds]
    /\ UNCHANGED <<key, permits, withdrawn>>

\* The question has been dealt with; or something happens that is nobody's
\* business here.
Done == /\ asked' = Nobody
        /\ UNCHANGED <<key, permits, withdrawn>>

Permit == [signer : Account, name : Name, kinds : Kinds]

Next == \/ Done
        \/ \E a \in Account, k \in Key : Choose(a, k)
        \/ \E a \in Account, n \in Name :
               \/ Withdraw(a, n)
               \/ \E kinds \in Kinds : Issue(a, n, kinds)
        \/ \E kind \in Kind, of \in SUBSET Account :
               \/ \E k \in Key : AskWithKey(k, kind, of)
               \/ \E p \in Permit \cup {Nobody} : AskWithPermit(p, kind, of)

Spec == Init /\ [][Next]_vars
=============================================================================
