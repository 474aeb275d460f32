----------------------------- MODULE TokenSends -----------------------------
(***************************************************************************)
(* What a SNIP-20 token tells the contracts it is sent to: receivers that  *)
(* register a code hash, the messages Send, SendFrom and their batches     *)
(* (scrt/snip20/contract/snip20.rs) and the callbacks they answer with.    *)
(* The chain runs those after the message, in order and depth first: a     *)
(* receiver that is called may send and register before the next callback  *)
(* of the response is run, and what it sends is told before that.          *)
(*                                                                         *)
(* The transfers themselves are those of Snip20: here a send goes through, *)
(* or is refused for a reason that is not told.  Messages are numbered, so *)
(* that what is told of one is not taken for another's.  `expected' is a   *)
(* history variable: what every contract should have been told of every    *)
(* message of the transaction, by the words of the messages.               *)
(***************************************************************************)
EXTENDS Naturals, Sequences

CONSTANTS Party,
          CodeHash,
          CodeOf,      \* external: the code of every address, Absent if it has none
          Absent,      \* no code hash
          BatchHash,   \* what an action of a batch may give as a code hash
          MaxSends     \* bound: sends of a transaction, those of batches included

ASSUME TokenSendsAssumption == Absent \notin CodeHash /\ MaxSends \in Nat

VARIABLES receiver_hash,   \* Account::receiver_hash
          sent_batch,      \* the batch being handled, if there is one
          callbacks,       \* external: the messages that the chain has still to run
          due,             \* external: whether the next of them must be run now
          told,            \* external: the callbacks run in this transaction
          expected,
          saved,           \* external: what a failure restores, in a transaction
          sends            \* bound: counts the sends of this transaction

sendVars == <<receiver_hash, sent_batch, callbacks, due, told, expected, saved, sends>>

CountedSend == /\ sends < MaxSends
               /\ sends' = sends + 1

\* What each contract is told of each message of a transaction.
Inbox == (1..MaxSends) \X Party
NothingTold == [box \in Inbox |-> <<>>]

InboxOf(callback) == <<callback.of, callback.to>>

SendsIdle == sent_batch = <<>> /\ callbacks = <<>>

SendsInit == /\ receiver_hash = [a \in Party |-> Absent]
             /\ sent_batch = <<>>
             /\ callbacks = <<>> /\ due = FALSE
             /\ told = NothingTold /\ expected = NothingTold
             /\ saved = <<>>
             /\ sends = 0

\* The number of the message that is being handled.
Message == IF sent_batch = <<>> THEN sends + 1 ELSE sent_batch[1].of

\* Snip20ReceiveMsg, whose sender is the spender if there is one.
ReceiveMsg(sender, from) == [sender |-> sender, from |-> from]

\* Fault: only the hash that was registered counts.
CallbackRegistered(recipient, given, sender, from) ==
    IF receiver_hash[recipient] = Absent
    THEN <<>>
    ELSE <<[of |-> Message, to |-> recipient, hash |-> receiver_hash[recipient],
            msg |-> ReceiveMsg(sender, from)]>>

\* add_receiver_api_callback: the hash that is given comes before the one that
\* was registered.
Callback(recipient, given, sender, from) ==
    LET hash == IF given # Absent THEN given ELSE receiver_hash[recipient]
    IN  IF hash = Absent
        THEN <<>>
        ELSE <<[of |-> Message, to |-> recipient, hash |-> hash,
                msg |-> ReceiveMsg(sender, from)]>>

Expect(recipient, given, sender, from) ==
    expected' = IF given = Absent /\ receiver_hash[recipient] = Absent
                THEN expected
                ELSE [expected EXCEPT ![<<Message, recipient>>] =
                                          Append(@, ReceiveMsg(sender, from))]
-----------------------------------------------------------------------------
(* external: how the chain runs a transaction.                             *)

\* A message comes from outside, or from a contract that a callback has called:
\* once a response has callbacks, the first of them is next.
MayCome == sent_batch = <<>> /\ ~due

InTransaction == saved' = IF saved = <<>> THEN <<receiver_hash>> ELSE saved

EndTransaction == /\ saved # <<>>
                  /\ saved' = <<>>
                  /\ told' = NothingTold /\ expected' = NothingTold
                  /\ sends' = 0

\* The messages of a response are run before those that wait already.
Respond(messages) == /\ callbacks' = messages \o callbacks
                     /\ due' = (messages # <<>>)

\* The next callback is run, if the contract has the code that it is for.
Deliver ==
    /\ sent_batch = <<>>
    /\ callbacks # <<>>
    /\ LET next == Head(callbacks)
       IN  /\ CodeOf[next.to] = next.hash
           /\ told' = [told EXCEPT ![InboxOf(next)] = Append(@, next.msg)]
    /\ callbacks' = Tail(callbacks)
    /\ due' = FALSE
    /\ UNCHANGED <<receiver_hash, sent_batch, expected, saved, sends>>

SendsCommit == /\ SendsIdle
               /\ EndTransaction
               /\ UNCHANGED <<receiver_hash, sent_batch, callbacks, due>>

\* An action of a batch is refused, a contract refuses its message or has other
\* code, or a later message fails: everything is reverted.  A failure that a
\* contract in between catches leaves no trace of what it reverts, as if that
\* had not been sent.
SendFails == /\ EndTransaction
             /\ receiver_hash' = saved[1]
             /\ sent_batch' = <<>>
             /\ callbacks' = <<>> /\ due' = FALSE
-----------------------------------------------------------------------------
RegisterReceive(account, hash) ==
    /\ MayCome
    /\ InTransaction
    /\ receiver_hash' = [receiver_hash EXCEPT ![account] = hash]
    /\ UNCHANGED <<sent_batch, callbacks, due, told, expected, sends>>

\* send_impl, where the sender is also the one whose tokens they are.
Send(sender, recipient, given) ==
    /\ MayCome
    /\ CountedSend
    /\ InTransaction
    /\ Respond(Callback(recipient, given, sender, sender))
    /\ Expect(recipient, given, sender, sender)
    /\ UNCHANGED <<receiver_hash, sent_batch, told>>

\* send_from_impl
SendFrom(spender, owner, recipient, given) ==
    /\ MayCome
    /\ CountedSend
    /\ InTransaction
    /\ Respond(Callback(recipient, given, spender, owner))
    /\ Expect(recipient, given, spender, owner)
    /\ UNCHANGED <<receiver_hash, sent_batch, told>>

BeginSends(msg, sender) ==
    /\ MayCome
    /\ InTransaction
    /\ sent_batch' = <<[msg |-> msg, of |-> Message, sender |-> sender,
                        messages |-> <<>>]>>
    /\ UNCHANGED <<receiver_hash, callbacks, due, told, expected, sends>>

InSends(msg) == sent_batch # <<>> /\ sent_batch[1].msg = msg

Collect(messages) ==
    sent_batch' = <<[sent_batch[1] EXCEPT !.messages = @ \o messages]>>

\* Both batches pass None on, whatever the action gives.
BatchSend(recipient, given) ==
    /\ InSends("batch_send")
    /\ CountedSend
    /\ Collect(Callback(recipient, Absent, sent_batch[1].sender, sent_batch[1].sender))
    /\ Expect(recipient, given, sent_batch[1].sender, sent_batch[1].sender)
    /\ UNCHANGED <<receiver_hash, callbacks, due, told, saved>>

BatchSendFrom(owner, recipient, given) ==
    /\ InSends("batch_send_from")
    /\ CountedSend
    /\ Collect(Callback(recipient, Absent, sent_batch[1].sender, owner))
    /\ Expect(recipient, given, sent_batch[1].sender, owner)
    /\ UNCHANGED <<receiver_hash, callbacks, due, told, saved>>

EndSends == /\ sent_batch # <<>>
            /\ sent_batch' = <<>>
            /\ Respond(sent_batch[1].messages)
            /\ UNCHANGED <<receiver_hash, told, expected, saved, sends>>

Given == CodeHash \cup {Absent}

SendsNext ==
    \/ \E a \in Party, hash \in CodeHash : RegisterReceive(a, hash)
    \/ \E a, b \in Party, hash \in Given : \/ Send(a, b, hash)
                                           \/ \E c \in Party : SendFrom(a, b, c, hash)
    \/ \E msg \in {"batch_send", "batch_send_from"}, a \in Party : BeginSends(msg, a)
    \/ \E a \in Party, hash \in BatchHash \cup {Absent} :
           \/ BatchSend(a, hash)
           \/ \E b \in Party : BatchSendFrom(a, b, hash)
    \/ EndSends
    \/ Deliver
    \/ SendsCommit
    \/ SendFails

SendsSpec == SendsInit /\ [][SendsNext]_sendVars
-----------------------------------------------------------------------------
(* When no callback waits any more, every send to a contract that has      *)
(* registered, or whose code hash was given, has been told to it, once,    *)
(* with the one who sent and the one whose tokens they were, the sends of  *)
(* one message in the order of its actions.  It is so whatever receivers   *)
(* send and register in between.  The order is that of each message and no *)
(* more: what a receiver sends is told before the callbacks that wait      *)
(* meanwhile, though it was sent after them.                               *)
SendsAreTold == SendsIdle => told = expected
=============================================================================
