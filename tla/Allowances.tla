------------------------------ MODULE Allowances ------------------------------
(***************************************************************************)
(* What the allowances of a SNIP-20 token promise: an allowance is gone    *)
(* the moment it expires, and nothing that happens later brings it back;   *)
(* what is spent was there to be spent.  Snip20 implements this with       *)
(* allowances that stay in the storage after they have expired.            *)
(***************************************************************************)
EXTENDS Naturals

CONSTANTS Address, None,
          MaxUint,     \* Uint128::MAX
          Amount,      \* amounts of a message
          Expiration   \* seconds at which an allowance may expire

VARIABLES live,   \* live[owner][spender] : what the spender may still spend
          time    \* of the block

vars == <<live, time>>

Nothing == [amount |-> 0, expiration |-> None]

Unexpired(allowance, now) ==
    IF allowance.expiration # None /\ now >= allowance.expiration
    THEN Nothing
    ELSE allowance

SaturatingAdd(n, m) == IF n + m > MaxUint THEN MaxUint ELSE n + m

SaturatingSub(n, m) == IF m > n THEN 0 ELSE n - m

Init == /\ live = [owner \in Address |-> [spender \in Address |-> Nothing]]
        /\ time \in Nat

\* The owner gives the spender a new allowance; no expiration keeps the old.
Give(owner, spender, amount, expiration) ==
    LET new == [amount     |-> amount,
                expiration |-> IF expiration = None
                               THEN live[owner][spender].expiration
                               ELSE expiration]
    IN  /\ live' = [live EXCEPT ![owner][spender] = Unexpired(new, time)]
        /\ UNCHANGED time

Increase(owner, spender, amount, expiration) ==
    Give(owner, spender, SaturatingAdd(live[owner][spender].amount, amount), expiration)

Decrease(owner, spender, amount, expiration) ==
    Give(owner, spender, SaturatingSub(live[owner][spender].amount, amount), expiration)

\* One message of the spender, which may spend from several owners at once.
Spend(spender) ==
    /\ \A owner, other \in Address :
           IF other = spender
           THEN /\ live'[owner][other].amount <= live[owner][other].amount
                /\ live'[owner][other].expiration = live[owner][other].expiration
           ELSE live'[owner][other] = live[owner][other]
    /\ UNCHANGED time

Tick == /\ time' > time
        /\ live' = [owner \in Address |->
                       [spender \in Address |-> Unexpired(live[owner][spender], time')]]

Next == \/ \E spender \in Address : Spend(spender)
        \/ Tick
        \/ \E owner, spender \in Address, amount \in Amount,
           expiration \in Expiration \cup {None} :
              \/ Increase(owner, spender, amount, expiration)
              \/ Decrease(owner, spender, amount, expiration)

Spec == Init /\ [][Next]_vars
=============================================================================
