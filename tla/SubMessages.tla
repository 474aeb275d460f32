----------------------------- MODULE SubMessages -----------------------------
(***************************************************************************)
(* How the simulation engine runs one transaction: the root message, the   *)
(* sub-messages every response asks for, depth first, and the replies      *)
(* (crates/fadroma-ensemble/src/execution_state.rs and execute_messages in *)
(* ensemble.rs).  What a contract does is not known: each run answers with *)
(* any messages and data, or fails.                                        *)
(*                                                                         *)
(* A scope of the journal is opened for every message and reply that runs, *)
(* so a scope is the number of its run here; that reverting a scope undoes *)
(* that one run is the business of EnsembleState.  The events of a run are *)
(* one event, its number, and a response is the run that it is of and the  *)
(* responses below it.                                                     *)
(*                                                                         *)
(* `level_began' is a history variable: for each level, the scopes that    *)
(* were open when the current message of that level started, and the data  *)
(* that its reply is due: what the level carried by then, until the        *)
(* message returns data of its own.  No action reads it.                   *)
(***************************************************************************)
EXTENDS Naturals, Sequences, SequencesExt, FiniteSetsExt

CONSTANTS Contract,    \* addresses of the contracts
          BankModule,  \* stands for a message to the bank or staking module
          User,        \* who signs the transaction
          ReplyOns,    \* the reply_on of the messages that contracts send
          Data,        \* what a response may carry
          NoData,
          MaxMsgs,     \* bound: messages in one response
          MaxLevels,   \* bound: nesting of sub-messages, the root included
          MaxRuns      \* bound: a response asks for no more after so many runs

ASSUME SubMessagesAssumption ==
    /\ BankModule \notin Contract /\ User \notin Contract
    /\ ReplyOns \subseteq {"never", "always", "success", "error"}
    /\ NoData \notin Data /\ MaxMsgs \in Nat

VARIABLES states,   \* the stack of levels: ExecutionState.states
          next,     \* the message or reply to run: ExecutionState.next
          open_scopes,  \* the scopes State holds open, each named by its run
          runs,     \* how many messages and replies have run
          outcome,  \* "running", "committed", "failed" or "panicked"
          level_began

messageVars == <<states, next, open_scopes, runs, outcome, level_began>>

Nothing == [type |-> "none"]

Node(msg) == [to |-> msg.to, reply_on |-> msg.reply_on, state |-> "NotExecuted",
              events |-> <<>>]

\* `emitter' is the contract whose response asked for the messages.
Level(emitter, msgs) ==
    [emitter |-> emitter, data |-> NoData, responses |-> <<>>,
     msgs |-> [i \in DOMAIN msgs |-> Node(msgs[i])], index |-> 1]

Response(run, address) == [run |-> run, address |-> address, sent |-> <<>>]

AddResponses(response, responses) == [response EXCEPT !.sent = @ \o responses]

Current(level) == level.msgs[level.index]
Pop(levels) == Front(levels)

SetState(levels, s) ==
    LET n == Len(levels)
    IN  [levels EXCEPT ![n].msgs[levels[n].index].state = s]

CallerFirst(levels) == levels[Len(levels) - 1].responses[1].address

\* The contract that the messages of the last level come from.
Caller(levels) == Last(levels[Len(levels) - 1].responses).address
-----------------------------------------------------------------------------
(* find_next: where to go after a run.                                     *)

Catches(msg, error) ==
    msg.reply_on \in {"always", IF error THEN "error" ELSE "success"}

FindReply(levels, error) ==
    IF Len(levels) >= 2 /\ Catches(Current(Last(levels)), error)
    THEN [type |-> "reply", error |-> error, target |-> Caller(levels)]
    ELSE Nothing

\* The events of a level, in the order of its messages.
EventsOf(level) == FlattenSeq([i \in DOMAIN level.msgs |-> level.msgs[i].events])

Squashed(levels, events) ==
    LET below == Pop(levels)
        n == Len(below)
        last == Len(below[n].responses)
    IN  [below EXCEPT ![n].responses[last] = AddResponses(@, Last(levels).responses),
                      ![n].msgs[below[n].index].events = @ \o events]

SquashForgets(levels) == Squashed(levels, <<>>)

SquashAdvances(levels) ==
    LET below == Squashed(levels, EventsOf(Last(levels)))
        n == Len(below)
    IN  [below EXCEPT ![n].index = Min({@ + 1, Len(below[n].msgs)})]

\* The responses of a finished level go below the one that asked for them, and
\* its events to the message that did.
SquashLatest(levels) == Squashed(levels, EventsOf(Last(levels)))

\* The loop: what it works on, and what it has come to.
Search(levels, error) ==
    [levels |-> levels, error |-> error, start |-> Len(levels),
     next |-> Nothing, thrown |-> 0, over |-> FALSE]

Resume(search, levels) == [search EXCEPT !.levels = levels]

Stop(search, levels, found) ==
    [search EXCEPT !.levels = levels, !.next = found, !.over = TRUE]

\* An error gives up the levels that do not catch it, counting responses.
Unwind(search) ==
    [search EXCEPT !.levels = Pop(@),
                   !.thrown = @ + Len(Last(search.levels).responses)]

AtNotExecuted(search) ==
    LET msg == Current(Last(search.levels))
    IN  Stop(search,
             SetState(search.levels, IF msg.reply_on = "never" THEN "Done"
                                                               ELSE "ShouldReply"),
             [type |-> "msg", to |-> msg.to, sender |-> Caller(search.levels)])

AtDone(search) ==
    LET n == Len(search.levels)
        advanced == [search.levels EXCEPT ![n].index = @ + 1]
    IN  IF advanced[n].index <= Len(advanced[n].msgs)
        THEN Resume(search, advanced)
        ELSE IF n = 1 THEN Stop(search, advanced, Nothing)
                      ELSE Resume(search, SquashLatest(advanced))

\* The response of a message that ran and whose sub-messages failed goes too.
AtShouldReply(search) ==
    LET levels == search.levels
        n == Len(levels)
        reply == FindReply(levels, search.error)
        drop == search.error /\ n # search.start
        kept == IF drop THEN [levels EXCEPT ![n].responses = Front(@)] ELSE levels
    IN  IF search.error /\ reply = Nothing
        THEN Unwind(search)
        ELSE [Stop(search, SetState(kept, "Replying"), reply)
                EXCEPT !.thrown = @ + (IF drop THEN 1 ELSE 0)]

Turn(search) ==
    LET levels == search.levels
        at == Current(Last(levels)).state
    IN  IF search.over \/ levels = <<>> THEN search
        ELSE CASE at = "NotExecuted" -> AtNotExecuted(search)
               [] at = "ShouldReply" -> AtShouldReply(search)
               [] at \in {"Done", "Replying"} /\ search.error -> Unwind(search)
               [] at = "Done" /\ ~search.error -> AtDone(search)
               [] at = "Replying" /\ ~search.error ->
                    Resume(search, SetState(levels, "Done"))

\* At a level the loop turns three times at most: Replying, Done, and the next
\* message.
Turns(levels) == 3 * Len(levels)

FindNext(levels, error) ==
    LET turn[k \in 0..Turns(levels)] ==
            IF k = 0 THEN Search(levels, error) ELSE Turn(turn[k - 1])
    IN  turn[Turns(levels)]
-----------------------------------------------------------------------------
(* One transaction after the other.                                        *)

MessagesInit == /\ states = <<>> /\ next = Nothing
                /\ open_scopes = <<>> /\ runs = 0
                /\ outcome = "committed"
                /\ level_began = <<>>

\* ExecutionState::new, for the message an API call of the ensemble builds.
NewExecution(c) ==
    /\ outcome \in {"committed", "failed"}
    /\ states' = SetState(<<Level(User, <<[to |-> c, reply_on |-> "never"]>>)>>,
                          "Done")
    /\ next' = [type |-> "msg", to |-> c, sender |-> User]
    /\ open_scopes' = <<>> /\ runs' = 0
    /\ outcome' = "running"
    /\ level_began' = <<>>

IsReply == next.type = "reply"
Running == outcome = "running" /\ next # Nothing
Runner == IF IsReply THEN next.target ELSE next.to

\* What has begun, when the run that starts now is a message.
Began == IF IsReply THEN level_began
         ELSE Append(SubSeq(level_began, 1, Len(states) - 1),
                     [scopes |-> Len(open_scopes), data |-> Last(states).data])

\* A contract's response to a message is its data, be it none; a reply may have
\* some; the modules have none to return.
Returns(data) == Runner # BankModule /\ (IsReply => data # NoData)

\* Whose data it is: a message's own, or the one whose response is replied to.
Carrier == IF IsReply THEN Len(states) - 1 ELSE Len(states)

Clip(b, levels) == SubSeq(b, 1, Min({Len(b), Len(levels)}))

\* Where the data of a response is kept: a reply's overwrites the caller's.
DataLevel(data) == IF IsReply /\ data # NoData THEN Len(states) - 1
                                               ELSE Len(states)

KeepData(data) == IF Runner = BankModule THEN states
                  ELSE [states EXCEPT ![DataLevel(data)].data = data]

\* The response of this run is one more of the level, its events of the message.
Answer(levels) ==
    LET n == Len(levels)
    IN  [levels EXCEPT ![n].msgs[levels[n].index].events = Append(@, runs + 1),
                       ![n].responses = Append(@, Response(runs + 1, Runner))]

\* The messages that it asks for are a level of their own.
Ask(levels, msgs) ==
    IF msgs = <<>> THEN levels ELSE Append(levels, Level(Runner, msgs))

RespondKeepsData(data, msgs) ==
    Ask(Answer(IF data = NoData THEN states ELSE KeepData(data)), msgs)

Respond(data, msgs) == Ask(Answer(KeepData(data)), msgs)

ScopePushed == Append(open_scopes, runs + 1)
ScopesLeft(count) == SubSeq(ScopePushed, 1, Len(ScopePushed) - count)

Keep(found) ==
    /\ states' = found.levels
    /\ next' = found.next
    /\ runs' = runs + 1

\* No message is left: the block advances, the scopes are committed, and
\* finalize asserts that the root level alone remains.
Finish(found) ==
    outcome' = IF found.next # Nothing THEN "running"
               ELSE IF Len(found.levels) = 1 THEN "committed" ELSE "panicked"

RunSucceeds(data, msgs) ==
    LET found == FindNext(Respond(data, msgs), FALSE)
    IN  /\ Running
        /\ msgs # <<>> => /\ Runner # BankModule
                          /\ runs < MaxRuns
                          /\ Len(states) < MaxLevels
        /\ Runner = BankModule => data = NoData
        /\ Keep(found)
        /\ open_scopes' = ScopePushed
        /\ Finish(found)
        /\ level_began' = LET mine == IF Returns(data)
                                      THEN [Began EXCEPT ![Carrier].data = data]
                                      ELSE Began
                    IN  Clip(mine, found.levels)

RevertsOneLess ==
    LET found == FindNext(states, TRUE)
    IN  /\ Running
        /\ Runner # BankModule
        /\ Keep(found)
        /\ IF found.next = Nothing
           THEN open_scopes' = <<>> /\ outcome' = "failed"
           ELSE open_scopes' = ScopesLeft(found.thrown) /\ outcome' = "running"
        /\ level_began' = Clip(Began, found.levels)

\* The error of a contract is handed to the nearest message that catches it.
RunFails ==
    LET found == FindNext(states, TRUE)
    IN  /\ Running
        /\ Runner # BankModule
        /\ Keep(found)
        /\ IF found.next = Nothing
           THEN open_scopes' = <<>> /\ outcome' = "failed"
           ELSE open_scopes' = ScopesLeft(found.thrown + 1) /\ outcome' = "running"
        /\ level_began' = Clip(Began, found.levels)

\* Any other error (no funds, no such contract, a bad event) ends it all.
RunAborts == /\ Running
             /\ states' = <<>> /\ next' = Nothing /\ level_began' = <<>>
             /\ open_scopes' = <<>> /\ runs' = runs + 1
             /\ outcome' = "failed"

Messages == [to : Contract \cup {BankModule}, reply_on : ReplyOns]

MessagesNext ==
    \/ \E c \in Contract : NewExecution(c)
    \/ \E data \in Data \cup {NoData}, msgs \in BoundedSeq(Messages, MaxMsgs) :
         RunSucceeds(data, msgs)
    \/ RunFails
    \/ RunAborts

MessagesSpec == MessagesInit /\ [][MessagesNext]_messageVars
-----------------------------------------------------------------------------
(* A contract that is told of the failure of its sub-message finds the     *)
(* state as it was before that sub-message began: process_result reverts   *)
(* the sub-message, everything it caused, and nothing else.                *)
CaughtErrorIsUndone ==
    Running /\ IsReply /\ next.error => Len(open_scopes) = Last(level_began).scopes

(* A message is sent, and its reply received, by the very contract whose   *)
(* response asked for it: current_sender and find_reply take the last      *)
(* response of the level below, whatever was squashed or dropped since.    *)
CallerIsEmitter ==
    Running => (IF IsReply THEN next.target ELSE next.sender)
                   = Last(states).emitter

(* The messages of a level run one at a time and in the order given: those *)
(* before the current one are over, those after it have not started.       *)
MessagesInOrder ==
    \A n \in DOMAIN states : \A i \in DOMAIN states[n].msgs :
        /\ i < states[n].index => states[n].msgs[i].state = "Done"
        /\ i > states[n].index => states[n].msgs[i].state = "NotExecuted"

(* The reply to a message carries what came of it.  The events are those   *)
(* of every run it caused, in order; events of runs that failed or were    *)
(* undone may be among them, but none that counts is missing, and none     *)
(* that counts was there before.  The data is what the message returned,   *)
(* or what the replies it received set in its place.  A message to the     *)
(* bank or staking module returns none, and process_result then leaves the *)
(* data of the level alone: its reply is handed what the level carried     *)
(* when the message began, which may be the data of an earlier message of  *)
(* the same response, and never the data of anything else.                 *)
ReplyCarriesItsResult ==
    Running /\ IsReply /\ ~next.error =>
        LET msg == Current(Last(states))
            began == Last(level_began)
        IN  /\ \A i, j \in DOMAIN msg.events : i < j => msg.events[i] < msg.events[j]
            /\ \A i \in DOMAIN open_scopes :
                 open_scopes[i] \in Range(msg.events) <=> i > began.scopes
            /\ Last(states).data = began.data

(* The assertion of finalize: a transaction that did not fail ends with    *)
(* the root level alone.                                                   *)
FinalizeHolds == outcome # "panicked"
=============================================================================
