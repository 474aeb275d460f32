-------------------------- MODULE SubMessagesProofs --------------------------
(***************************************************************************)
(* Dispatch, for any contracts, messages, nesting and results: the search  *)
(* for what runs next ends, the messages of a response are run in order,   *)
(* they and their replies are between the sub-message's contract and the   *)
(* very one whose response asked for it, a reply carries what the message  *)
(* came to, an error that is caught is undone to where its message began,  *)
(* and iterating over the responses follows the order of execution.        *)
(*                                                                         *)
(* The first argument is about the stack of levels: below a level is       *)
(* always the message, under way, whose last response asked for it         *)
(* (Stack).  A run keeps the stack, or adds a level to it, and every turn  *)
(* of the search keeps it or takes the last level from it (Progress).      *)
(*                                                                         *)
(* The second is about what the levels have come to (Books).  Of a message *)
(* that waits for its reply, the events and those of the levels above hold *)
(* the scopes opened since it began and no others (Counts), the data is    *)
(* what it returned, or what the level carried when it began if it returns *)
(* none (HasData), and those scopes are as many as it and the responses    *)
(* of the levels above (Scoped).  The last is what process_result relies   *)
(* on when it counts responses to revert as many scopes; it is so only     *)
(* while no response above has taken others into it (Flat), and that is    *)
(* the condition of the last theorems.                                     *)
(*                                                                         *)
(* The third is about the trees of responses: those of the levels, one     *)
(* level after the other and each response before those below it, are the  *)
(* runs of the open scopes, in order (Spanned), and an iterator visits     *)
(* them in just that way (Walks).                                          *)
(***************************************************************************)
EXTENDS Responses, Sums, SequenceTheorems, TLAPS

MsgStates == {"NotExecuted", "ShouldReply", "Replying", "Done"}

\* A sequence of whatever: the responses are trees.
IsSeq(s) == \E S : s \in Seq(S)

LEMMA SeqIs ==
    ASSUME NEW s, IsSeq(s)
    PROVE  Len(s) \in Nat /\ DOMAIN s = 1..Len(s)
BY DEF IsSeq

Appended(t, s, x) == /\ IsSeq(t)
                     /\ Len(t) = Len(s) + 1
                     /\ t[Len(s) + 1] = x
                     /\ \A k \in 1..Len(s) : t[k] = s[k]

LEMMA AppendIs ==
    ASSUME NEW s, IsSeq(s), NEW x
    PROVE  Appended(Append(s, x), s, x)
<1>1. PICK S : s \in Seq(S)
  BY DEF IsSeq
<1>2. PICK T : T = S \cup {x}
  OBVIOUS
<1>3. s \in Seq(T) /\ x \in T
  <2>1. s \in [1..Len(s) -> S] /\ Len(s) \in Nat
    BY <1>1
  <2>2. s \in [1..Len(s) -> T]
    BY <1>2, <2>1
  <2> QED BY <1>2, <2>1, <2>2
<1> QED BY <1>3 DEF IsSeq, Appended

LEMMA FrontIs ==
    ASSUME NEW s, IsSeq(s), Len(s) > 0
    PROVE  /\ IsSeq(Front(s))
           /\ Len(Front(s)) = Len(s) - 1
           /\ \A k \in 1..(Len(s) - 1) : Front(s)[k] = s[k]
<1>1. PICK S : s \in Seq(S)
  BY DEF IsSeq
<1>2. PICK n \in Nat : n = Len(s) /\ n > 0
  BY <1>1
<1>3. Front(s) = SubSeq(s, 1, n - 1)
  BY <1>2 DEF Front
<1>4. SubSeq(s, 1, n - 1) \in Seq(S) /\ Len(SubSeq(s, 1, n - 1)) = n - 1
      /\ \A k \in 1..(n - 1) : SubSeq(s, 1, n - 1)[k] = s[k]
  BY <1>1, <1>2
<1> QED BY <1>2, <1>3, <1>4 DEF IsSeq

Replaced(t, s, n, x) == /\ IsSeq(t)
                        /\ Len(t) = Len(s)
                        /\ t[n] = x
                        /\ \A k \in 1..Len(s) : k # n => t[k] = s[k]

LEMMA ExceptIs ==
    ASSUME NEW s, IsSeq(s), NEW n \in 1..Len(s), NEW x
    PROVE  Replaced([s EXCEPT ![n] = x], s, n, x)
<1>1. PICK S : s \in Seq(S)
  BY DEF IsSeq
<1>2. PICK T : T = S \cup {x}
  OBVIOUS
<1>3. s \in Seq(T) /\ x \in T
  <2>1. s \in [1..Len(s) -> S] /\ Len(s) \in Nat
    BY <1>1
  <2>2. s \in [1..Len(s) -> T]
    BY <1>2, <2>1
  <2> QED BY <1>2, <2>1, <2>2
<1> QED BY <1>3 DEF IsSeq, Replaced

LEMMA JoinIs ==
    ASSUME NEW s, IsSeq(s), NEW t, IsSeq(t)
    PROVE  IsSeq(s \o t) /\ Len(s \o t) = Len(s) + Len(t)
<1>1. PICK S, T : s \in Seq(S) /\ t \in Seq(T)
  BY DEF IsSeq
<1>2. PICK U : U = S \cup T
  OBVIOUS
<1>3. s \in [1..Len(s) -> U] /\ t \in [1..Len(t) -> U] /\ Len(s) \in Nat /\ Len(t) \in Nat
  <2>1. s \in [1..Len(s) -> S] /\ t \in [1..Len(t) -> T] /\ Len(s) \in Nat /\ Len(t) \in Nat
    BY <1>1
  <2> QED BY <1>2, <2>1
<1>4. s \in Seq(U) /\ t \in Seq(U)
  BY <1>3
<1> QED BY <1>4 DEF IsSeq

LEMMA EmptyIs == IsSeq(<<>>) /\ Len(<<>>) = 0
<1>1. <<>> \in Seq({})
  OBVIOUS
<1> QED BY <1>1 DEF IsSeq
-----------------------------------------------------------------------------
(* A level.                                                                *)

IsResponse(r) == DOMAIN r = {"run", "address", "sent"} /\ IsSeq(r.sent)

IsLevel(v) ==
    /\ DOMAIN v = {"emitter", "data", "responses", "msgs", "index"}
    /\ v.index \in Nat
    /\ IsSeq(v.msgs) /\ IsSeq(v.responses)
    /\ \A k \in 1..Len(v.responses) : IsResponse(v.responses[k])
    /\ \A i \in 1..Len(v.msgs) : /\ {"to", "state", "events"} \subseteq DOMAIN v.msgs[i]
                                 /\ v.msgs[i].state \in MsgStates

StateAt(v, i) == v.msgs[i].state

\* The messages are run in order.
InOrder(v) == \A i \in 1..Len(v.msgs) :
                  /\ i < v.index => StateAt(v, i) = "Done"
                  /\ i > v.index => StateAt(v, i) = "NotExecuted"

Underway(v) == IsLevel(v) /\ InOrder(v) /\ v.index \in 1..Len(v.msgs)

Started(v) == StateAt(v, v.index) # "NotExecuted"

\* The level above was asked for by the last response.
Linked(v, above) ==
    Len(v.responses) > 0 /\ Last(v.responses).address = above.emitter

\* The same messages in the same states, with other events or data.
Alike(v, w) == /\ IsLevel(w)
               /\ w.emitter = v.emitter /\ w.index = v.index
               /\ Len(w.msgs) = Len(v.msgs)
               /\ \A i \in 1..Len(v.msgs) : StateAt(w, i) = StateAt(v, i)

LEMMA AlikeIs ==
    ASSUME NEW v, NEW w, Underway(v), Alike(v, w)
    PROVE  /\ Underway(w) /\ w.emitter = v.emitter
           /\ Started(v) => Started(w)
           /\ StateAt(w, w.index) = StateAt(v, v.index)
BY DEF Underway, Alike, InOrder, Started

WithState(v, s) ==
    [v EXCEPT !.msgs = [v.msgs EXCEPT ![v.index] = [v.msgs[v.index] EXCEPT !.state = s]]]

LEMMA WithStateIs ==
    ASSUME NEW v, Underway(v), NEW s \in MsgStates
    PROVE  /\ Underway(WithState(v, s))
           /\ WithState(v, s).emitter = v.emitter
           /\ WithState(v, s).index = v.index
           /\ StateAt(WithState(v, s), v.index) = s
           /\ WithState(v, s).responses = v.responses
           /\ Len(WithState(v, s).msgs) = Len(v.msgs)
<1>1. PICK msgs : msgs = v.msgs
  OBVIOUS
<1>2. PICK x : x = [v.msgs[v.index] EXCEPT !.state = s]
  OBVIOUS
<1>3. PICK w : w = [v EXCEPT !.msgs = [msgs EXCEPT ![v.index] = x]]
  OBVIOUS
<1>4. w = WithState(v, s)
  BY <1>1, <1>2, <1>3 DEF WithState
<1>5. /\ DOMAIN v = {"emitter", "data", "responses", "msgs", "index"}
      /\ IsSeq(msgs) /\ v.index \in 1..Len(msgs) /\ v.index \in Nat
      /\ {"to", "state", "events"} \subseteq DOMAIN msgs[v.index]
  BY <1>1 DEF Underway, IsLevel
<1>6. /\ DOMAIN w = DOMAIN v /\ w.emitter = v.emitter /\ w.index = v.index
      /\ w.responses = v.responses /\ w.msgs = [msgs EXCEPT ![v.index] = x]
  BY <1>3, <1>5
<1>7. x.state = s /\ {"to", "state", "events"} \subseteq DOMAIN x
  BY <1>1, <1>2, <1>5
<1>8. /\ IsSeq(w.msgs) /\ Len(w.msgs) = Len(msgs)
      /\ w.msgs[v.index] = x
      /\ \A i \in 1..Len(msgs) : i # v.index => w.msgs[i] = msgs[i]
  <2>1. Replaced([msgs EXCEPT ![v.index] = x], msgs, v.index, x)
    BY <1>5, ExceptIs, Zenon
  <2> QED BY <1>6, <2>1 DEF Replaced
<1>9. \A i \in 1..Len(w.msgs) : /\ {"to", "state", "events"} \subseteq DOMAIN w.msgs[i]
                                /\ w.msgs[i].state \in MsgStates
  BY <1>1, <1>7, <1>8 DEF Underway, IsLevel
<1>10. IsLevel(w)
  BY <1>5, <1>6, <1>8, <1>9 DEF Underway, IsLevel
<1>11. InOrder(w)
  <2> SUFFICES ASSUME NEW i \in 1..Len(msgs)
               PROVE  /\ i < w.index => StateAt(w, i) = "Done"
                      /\ i > w.index => StateAt(w, i) = "NotExecuted"
    BY <1>8 DEF InOrder
  <2>1. CASE i = v.index
    BY <1>5, <1>6, <2>1
  <2>2. CASE i # v.index
    BY <1>1, <1>6, <1>8, <2>2 DEF Underway, InOrder, StateAt
  <2> QED BY <2>1, <2>2
<1>12. Underway(w)
  BY <1>5, <1>6, <1>8, <1>10, <1>11 DEF Underway
<1> QED BY <1>1, <1>4, <1>6, <1>7, <1>8, <1>12 DEF StateAt

Advanced(v) == [v EXCEPT !.index = v.index + 1]

LEMMA AdvancedIs ==
    ASSUME NEW v, Underway(v), StateAt(v, v.index) = "Done"
    PROVE  /\ IsLevel(Advanced(v)) /\ InOrder(Advanced(v))
           /\ Advanced(v).emitter = v.emitter
           /\ Advanced(v).index = v.index + 1
           /\ Advanced(v).msgs = v.msgs
           /\ Advanced(v).responses = v.responses
           /\ v.index + 1 <= Len(v.msgs) =>
                /\ Underway(Advanced(v))
                /\ StateAt(Advanced(v), v.index + 1) = "NotExecuted"
<1>1. PICK w : w = Advanced(v)
  OBVIOUS
<1>2. /\ DOMAIN v = {"emitter", "data", "responses", "msgs", "index"}
      /\ IsSeq(v.msgs) /\ v.index \in 1..Len(v.msgs) /\ v.index \in Nat
  BY DEF Underway, IsLevel
<1>3. /\ DOMAIN w = DOMAIN v /\ w.emitter = v.emitter /\ w.index = v.index + 1
      /\ w.responses = v.responses /\ w.msgs = v.msgs
  BY <1>1, <1>2 DEF Advanced
<1>4. IsLevel(w)
  BY <1>2, <1>3 DEF Underway, IsLevel
<1>5. Len(v.msgs) \in Nat
  BY <1>2, SeqIs
<1>6. InOrder(w)
  <2> SUFFICES ASSUME NEW i \in 1..Len(v.msgs)
               PROVE  /\ i < v.index + 1 => StateAt(v, i) = "Done"
                      /\ i > v.index + 1 => StateAt(v, i) = "NotExecuted"
    BY <1>3 DEF InOrder, StateAt
  <2>1. i < v.index + 1 => i < v.index \/ i = v.index
    BY <1>2
  <2>2. i > v.index + 1 => i > v.index
    BY <1>2
  <2> QED BY <2>1, <2>2 DEF Underway, InOrder
<1>7. ASSUME v.index + 1 <= Len(v.msgs)
      PROVE  /\ v.index + 1 \in 1..Len(v.msgs)
             /\ StateAt(v, v.index + 1) = "NotExecuted"
  <2>1. v.index + 1 \in 1..Len(v.msgs) /\ v.index + 1 > v.index
    BY <1>2, <1>5, <1>7
  <2> QED BY <2>1 DEF Underway, InOrder
<1> QED BY <1>1, <1>3, <1>4, <1>6, <1>7 DEF Underway, StateAt

\* What squashing does to the level below.
WithSquashed(v, responses, events) ==
    [v EXCEPT !.responses = [v.responses EXCEPT ![Len(v.responses)] =
                               AddResponses(v.responses[Len(v.responses)], responses)],
              !.msgs = [v.msgs EXCEPT ![v.index] =
                          [v.msgs[v.index] EXCEPT !.events = v.msgs[v.index].events \o events]]]

\* What the response of a run does to its level.
WithResponse(v, run, address) ==
    [v EXCEPT !.msgs = [v.msgs EXCEPT ![v.index] =
                          [v.msgs[v.index] EXCEPT !.events = Append(v.msgs[v.index].events, run)]],
              !.responses = Append(v.responses, Response(run, address))]

WithoutLast(v) == [v EXCEPT !.responses = Front(v.responses)]

WithData(v, data) == [v EXCEPT !.data = data]

\* The messages of v, with other events.
SameStates(msgs, v) ==
    /\ IsSeq(msgs) /\ Len(msgs) = Len(v.msgs)
    /\ \A i \in 1..Len(msgs) : /\ {"to", "state", "events"} \subseteq DOMAIN msgs[i]
                               /\ msgs[i].state = v.msgs[i].state
                               /\ msgs[i].state \in MsgStates

LEMMA WithEvents ==
    ASSUME NEW v, Underway(v), NEW events, NEW msgs,
           msgs = [v.msgs EXCEPT ![v.index] = [v.msgs[v.index] EXCEPT !.events = events]]
    PROVE  SameStates(msgs, v)
<1>1. /\ IsSeq(v.msgs) /\ v.index \in 1..Len(v.msgs)
      /\ \A i \in 1..Len(v.msgs) : /\ {"to", "state", "events"} \subseteq DOMAIN v.msgs[i]
                                   /\ v.msgs[i].state \in MsgStates
  BY DEF Underway, IsLevel
<1>2. PICK x : x = [v.msgs[v.index] EXCEPT !.events = events]
  OBVIOUS
<1>3. x.state = v.msgs[v.index].state /\ {"to", "state", "events"} \subseteq DOMAIN x
  BY <1>1, <1>2
<1>4. msgs = [v.msgs EXCEPT ![v.index] = x]
  BY <1>2
<1>5. Replaced(msgs, v.msgs, v.index, x)
  <2>1. IsSeq(v.msgs) /\ v.index \in 1..Len(v.msgs)
    BY <1>1
  <2>2. Replaced([v.msgs EXCEPT ![v.index] = x], v.msgs, v.index, x)
    BY <2>1, ExceptIs, Zenon
  <2> QED BY <1>4, <2>2
<1> QED BY <1>1, <1>2, <1>3, <1>5 DEF Replaced, SameStates

LEMMA WithSquashedIs ==
    ASSUME NEW v, Underway(v), Len(v.responses) > 0, NEW responses, IsSeq(responses),
           NEW events
    PROVE  Alike(v, WithSquashed(v, responses, events))
<1>1. /\ DOMAIN v = {"emitter", "data", "responses", "msgs", "index"}
      /\ v.index \in Nat /\ IsSeq(v.responses)
      /\ \A k \in 1..Len(v.responses) : IsResponse(v.responses[k])
  BY DEF Underway, IsLevel
<1>2. PICK n \in Nat : n = Len(v.responses) /\ n > 0
  BY <1>1, SeqIs
<1>3. PICK r : r = AddResponses(v.responses[n], responses)
  OBVIOUS
<1>4. IsResponse(r)
  <2>1. PICK told : told = v.responses[n]
    OBVIOUS
  <2>2. DOMAIN told = {"run", "address", "sent"} /\ IsSeq(told.sent)
    BY <1>1, <1>2, <2>1 DEF IsResponse
  <2>3. PICK all : all = told.sent \o responses
    OBVIOUS
  <2>4. IsSeq(all)
    BY <2>2, <2>3, JoinIs
  <2>5. r = [told EXCEPT !.sent = all]
    BY <1>3, <2>1, <2>3 DEF AddResponses
  <2>6. DOMAIN r = DOMAIN told /\ r.sent = all
    BY <2>2, <2>5
  <2> QED BY <2>2, <2>4, <2>6 DEF IsResponse
<1>5. PICK told : told = [v.responses EXCEPT ![n] = r]
  OBVIOUS
<1>6. /\ IsSeq(told) /\ Len(told) = n /\ told[n] = r
      /\ \A k \in 1..n : k # n => told[k] = v.responses[k]
  <2>1. n \in 1..Len(v.responses)
    BY <1>2
  <2>2. Replaced(told, v.responses, n, r)
    BY <1>1, <1>5, <2>1, ExceptIs, Zenon
  <2> QED BY <1>2, <2>2 DEF Replaced
<1>7. \A k \in 1..Len(told) : IsResponse(told[k])
  BY <1>1, <1>2, <1>4, <1>6
<1>7a. PICK all : all = v.msgs[v.index].events \o events
  OBVIOUS
<1>8. PICK msgs : msgs = [v.msgs EXCEPT ![v.index] =
                            [v.msgs[v.index] EXCEPT !.events = all]]
  OBVIOUS
<1>9. PICK w : w = [v EXCEPT !.responses = told, !.msgs = msgs]
  OBVIOUS
<1>10. w = WithSquashed(v, responses, events)
  BY <1>2, <1>3, <1>5, <1>7a, <1>8, <1>9 DEF WithSquashed
<1>11. /\ DOMAIN w = DOMAIN v /\ w.emitter = v.emitter /\ w.index = v.index
       /\ w.responses = told /\ w.msgs = msgs
  BY <1>1, <1>9
<1>12. SameStates(msgs, v)
  BY <1>8, WithEvents, Zenon
<1>13. IsLevel(w)
  BY <1>1, <1>6, <1>7, <1>11, <1>12 DEF IsLevel, SameStates
<1> QED BY <1>10, <1>11, <1>12, <1>13 DEF Alike, StateAt, SameStates

LEMMA WithResponseIs ==
    ASSUME NEW v, Underway(v), NEW run, NEW address
    PROVE  /\ Alike(v, WithResponse(v, run, address))
           /\ Len(WithResponse(v, run, address).responses) > 0
           /\ Last(WithResponse(v, run, address).responses).address = address
<1>1. /\ DOMAIN v = {"emitter", "data", "responses", "msgs", "index"}
      /\ v.index \in Nat /\ IsSeq(v.responses)
      /\ \A k \in 1..Len(v.responses) : IsResponse(v.responses[k])
  BY DEF Underway, IsLevel
<1>2. PICK n \in Nat : n = Len(v.responses)
  BY <1>1, SeqIs
<1>3. PICK r : r = Response(run, address)
  OBVIOUS
<1>4. IsResponse(r) /\ r.address = address
  BY <1>3, EmptyIs DEF IsResponse, Response
<1>5. PICK told : told = Append(v.responses, r)
  OBVIOUS
<1>6. /\ IsSeq(told) /\ Len(told) = n + 1 /\ told[n + 1] = r
      /\ \A k \in 1..n : told[k] = v.responses[k]
  <2>1. Appended(told, v.responses, r)
    BY <1>1, <1>5, AppendIs, Zenon
  <2> QED BY <1>2, <2>1 DEF Appended
<1>7. \A k \in 1..Len(told) : IsResponse(told[k])
  <2>1. \A k \in 1..(n + 1) : k = n + 1 \/ k \in 1..n
    OBVIOUS
  <2> QED BY <1>1, <1>2, <1>4, <1>6, <2>1
<1>7a. PICK all : all = Append(v.msgs[v.index].events, run)
  OBVIOUS
<1>8. PICK msgs : msgs = [v.msgs EXCEPT ![v.index] =
                            [v.msgs[v.index] EXCEPT !.events = all]]
  OBVIOUS
<1>9. PICK w : w = [v EXCEPT !.msgs = msgs, !.responses = told]
  OBVIOUS
<1>10. w = WithResponse(v, run, address)
  BY <1>3, <1>5, <1>7a, <1>8, <1>9 DEF WithResponse
<1>11. /\ DOMAIN w = DOMAIN v /\ w.emitter = v.emitter /\ w.index = v.index
       /\ w.responses = told /\ w.msgs = msgs
  BY <1>1, <1>9
<1>12. SameStates(msgs, v)
  BY <1>8, WithEvents, Zenon
<1>13. IsLevel(w)
  BY <1>1, <1>6, <1>7, <1>11, <1>12 DEF IsLevel, SameStates
<1>14. Len(told) > 0 /\ Last(told) = r
  BY <1>6 DEF Last
<1> QED BY <1>4, <1>10, <1>11, <1>12, <1>13, <1>14 DEF Alike, StateAt, SameStates

LEMMA WithoutLastIs ==
    ASSUME NEW v, Underway(v)
    PROVE  Alike(v, WithoutLast(v))
<1>1. /\ DOMAIN v = {"emitter", "data", "responses", "msgs", "index"}
      /\ IsSeq(v.responses)
      /\ \A k \in 1..Len(v.responses) : IsResponse(v.responses[k])
  BY DEF Underway, IsLevel
<1>2. PICK left : left = Front(v.responses)
  OBVIOUS
<1>3. IsSeq(left) /\ \A k \in 1..Len(left) : IsResponse(left[k])
  <2>1. PICK n \in Nat : n = Len(v.responses)
    BY <1>1, SeqIs
  <2>2. CASE n > 0
    <3>1. /\ IsSeq(left) /\ Len(left) = n - 1
          /\ \A k \in 1..(n - 1) : left[k] = v.responses[k]
      BY <1>1, <1>2, <2>1, <2>2, FrontIs
    <3>2. \A k \in 1..(n - 1) : k \in 1..n
      OBVIOUS
    <3> QED BY <1>1, <2>1, <3>1, <3>2
  <2>3. CASE n = 0
    <3>1. left = <<>>
      BY <1>1, <1>2, <2>1, <2>3 DEF Front, IsSeq
    <3> QED BY <3>1, EmptyIs
  <2> QED BY <2>2, <2>3
<1>4. PICK w : w = [v EXCEPT !.responses = left]
  OBVIOUS
<1>5. /\ DOMAIN w = DOMAIN v /\ w.emitter = v.emitter /\ w.index = v.index
      /\ w.responses = left /\ w.msgs = v.msgs
  BY <1>1, <1>4
<1>6. IsLevel(w)
  BY <1>3, <1>5 DEF Underway, IsLevel
<1> QED BY <1>2, <1>4, <1>5, <1>6 DEF Alike, StateAt, WithoutLast

LEMMA WithDataIs ==
    ASSUME NEW v, Underway(v), NEW data
    PROVE  /\ Alike(v, WithData(v, data))
           /\ WithData(v, data).responses = v.responses
<1>1. DOMAIN v = {"emitter", "data", "responses", "msgs", "index"}
  BY DEF Underway, IsLevel
<1>2. PICK w : w = [v EXCEPT !.data = data]
  OBVIOUS
<1>3. /\ DOMAIN w = DOMAIN v /\ w.emitter = v.emitter /\ w.index = v.index
      /\ w.responses = v.responses /\ w.msgs = v.msgs
  BY <1>1, <1>2
<1>4. IsLevel(w)
  BY <1>3 DEF Underway, IsLevel
<1> QED BY <1>2, <1>3, <1>4 DEF Alike, StateAt, WithData

\* A level whose first message has not run.
LEMMA LevelIs ==
    ASSUME NEW emitter, NEW msgs, IsSeq(msgs), Len(msgs) > 0
    PROVE  /\ Underway(Level(emitter, msgs))
           /\ Level(emitter, msgs).emitter = emitter
           /\ Level(emitter, msgs).index = 1
           /\ Len(Level(emitter, msgs).msgs) = Len(msgs)
           /\ \A i \in 1..Len(msgs) : StateAt(Level(emitter, msgs), i) = "NotExecuted"
<1>1. PICK n \in Nat : n = Len(msgs) /\ DOMAIN msgs = 1..n /\ n > 0
  BY SeqIs
<1>2. PICK nodes : nodes = [i \in DOMAIN msgs |-> Node(msgs[i])]
  OBVIOUS
<1>3. IsSeq(nodes) /\ Len(nodes) = n
  <2>1. PICK S : S = {Node(msgs[i]) : i \in 1..n}
    OBVIOUS
  <2>2. nodes \in [1..n -> S]
    BY <1>1, <1>2, <2>1
  <2>3. nodes \in Seq(S) /\ Len(nodes) = n
    BY <2>2
  <2> QED BY <2>3 DEF IsSeq
<1>4. \A i \in 1..n : /\ {"to", "state", "events"} \subseteq DOMAIN nodes[i]
                      /\ nodes[i].state = "NotExecuted"
  BY <1>1, <1>2 DEF Node
<1>5. PICK v : v = Level(emitter, msgs)
  OBVIOUS
<1>6. /\ DOMAIN v = {"emitter", "data", "responses", "msgs", "index"}
      /\ v.index = 1 /\ v.msgs = nodes /\ v.responses = <<>> /\ v.emitter = emitter
  BY <1>2, <1>5 DEF Level
<1>7. IsSeq(v.responses) /\ \A k \in 1..Len(v.responses) : IsResponse(v.responses[k])
  BY <1>6, EmptyIs
<1>8. IsLevel(v)
  BY <1>3, <1>4, <1>6, <1>7 DEF IsLevel, MsgStates
<1>9. InOrder(v)
  BY <1>3, <1>4, <1>6 DEF InOrder, StateAt
<1> QED BY <1>1, <1>3, <1>4, <1>5, <1>6, <1>8, <1>9 DEF Underway, StateAt
-----------------------------------------------------------------------------
(* The stack of levels.                                                    *)

\* Each level is at one of its messages; every message that has levels above
\* it has run, and the level right above came with its last response.  The
\* root level is one message, which runs first of all.
Stack(levels) ==
    /\ IsSeq(levels)
    /\ \A m \in 1..Len(levels) : Underway(levels[m])
    /\ \A m \in 1..Len(levels) :
         m < Len(levels) => Started(levels[m]) /\ Linked(levels[m], levels[m + 1])
    /\ Len(levels) > 0 => Started(levels[1]) /\ Len(levels[1].msgs) = 1

\* What v in the place of the last level must keep for a stack to remain.
Replaces(v, levels) ==
    /\ Underway(v) /\ v.emitter = levels[Len(levels)].emitter
    /\ Len(v.msgs) = Len(levels[Len(levels)].msgs)
    /\ Len(levels) = 1 => Started(v)

StackWith(t, levels, v) ==
    Stack(t) /\ Len(t) = Len(levels) /\ t[Len(levels)] = v

LEMMA TopReplaced ==
    ASSUME NEW levels, Stack(levels), Len(levels) > 0, NEW v, Replaces(v, levels)
    PROVE  StackWith([levels EXCEPT ![Len(levels)] = v], levels, v)
<1>1. PICK n \in Nat : n = Len(levels) /\ n > 0
  BY SeqIs DEF Stack
<1>2. PICK t : t = [levels EXCEPT ![n] = v]
  OBVIOUS
<1>3. Replaced(t, levels, n, v)
  <2>1. IsSeq(levels) /\ n \in 1..Len(levels)
    BY <1>1 DEF Stack
  <2>2. Replaced([levels EXCEPT ![n] = v], levels, n, v)
    BY <2>1, ExceptIs, Zenon
  <2> QED BY <1>2, <2>2
<1>4. IsSeq(t) /\ Len(t) = n /\ t[n] = v /\ \A m \in 1..n : m # n => t[m] = levels[m]
  BY <1>1, <1>3 DEF Replaced
<1>5. \A m \in 1..n : Underway(t[m])
  BY <1>1, <1>4 DEF Stack, Replaces
<1>6. ASSUME NEW m \in 1..n, m < n
      PROVE  Started(t[m]) /\ Linked(t[m], t[m + 1])
  <2>1. t[m] = levels[m] /\ m + 1 \in 1..n
    BY <1>4, <1>6
  <2>2. t[m + 1].emitter = levels[m + 1].emitter
    BY <1>1, <1>4, <2>1 DEF Replaces
  <2> QED BY <1>1, <1>6, <2>1, <2>2 DEF Stack, Linked
<1>7. Started(t[1]) /\ Len(t[1].msgs) = 1
  BY <1>1, <1>4 DEF Stack, Replaces
<1>8. Stack(t)
  BY <1>4, <1>5, <1>6, <1>7 DEF Stack
<1> QED BY <1>1, <1>2, <1>4, <1>8 DEF StackWith

LEMMA PopIs ==
    ASSUME NEW levels, Stack(levels), Len(levels) > 0
    PROVE  /\ Stack(Pop(levels)) /\ Len(Pop(levels)) = Len(levels) - 1
           /\ \A m \in 1..(Len(levels) - 1) : Pop(levels)[m] = levels[m]
<1>1. PICK n \in Nat : n = Len(levels) /\ n > 0
  BY SeqIs DEF Stack
<1>2. PICK t : t = Pop(levels)
  OBVIOUS
<1>3. /\ IsSeq(t) /\ Len(t) = n - 1
      /\ \A m \in 1..(n - 1) : t[m] = levels[m]
  BY <1>1, <1>2, FrontIs DEF Stack, Pop
<1>4. \A m \in 1..(n - 1) : /\ m \in 1..n /\ m < n
                           /\ m < n - 1 => m + 1 \in 1..(n - 1)
  BY <1>1
<1>5. \A m \in 1..(n - 1) : Underway(t[m])
  BY <1>1, <1>3, <1>4 DEF Stack
<1>6. ASSUME NEW m \in 1..(n - 1), m < n - 1
      PROVE  Started(t[m]) /\ Linked(t[m], t[m + 1])
  <2>1. t[m] = levels[m] /\ t[m + 1] = levels[m + 1]
    BY <1>3, <1>4, <1>6
  <2> QED BY <1>1, <1>4, <2>1 DEF Stack
<1>7. n - 1 > 0 => Started(t[1]) /\ Len(t[1].msgs) = 1
  BY <1>1, <1>3 DEF Stack
<1>8. Stack(t)
  BY <1>3, <1>5, <1>6, <1>7 DEF Stack
<1> QED BY <1>1, <1>2, <1>3, <1>8

LEMMA PushIs ==
    ASSUME NEW levels, Stack(levels), Len(levels) > 0, NEW v, Underway(v),
           Started(levels[Len(levels)]), Linked(levels[Len(levels)], v)
    PROVE  /\ Stack(Append(levels, v))
           /\ Len(Append(levels, v)) = Len(levels) + 1
<1>1. PICK n \in Nat : n = Len(levels) /\ n > 0
  BY SeqIs DEF Stack
<1>2. PICK t : t = Append(levels, v)
  OBVIOUS
<1>3. Appended(t, levels, v)
  <2>1. IsSeq(levels)
    BY DEF Stack
  <2>2. Appended(Append(levels, v), levels, v)
    BY <2>1, AppendIs, Zenon
  <2> QED BY <1>2, <2>2
<1>4. /\ IsSeq(t) /\ Len(t) = n + 1 /\ t[n + 1] = v
      /\ \A m \in 1..n : t[m] = levels[m]
  BY <1>1, <1>3 DEF Appended
<1>5. \A m \in 1..(n + 1) : m = n + 1 \/ m \in 1..n
  BY <1>1
<1>6. \A m \in 1..(n + 1) : Underway(t[m])
  BY <1>1, <1>4, <1>5 DEF Stack
<1>7. ASSUME NEW m \in 1..(n + 1), m < n + 1
      PROVE  Started(t[m]) /\ Linked(t[m], t[m + 1])
  <2>1. CASE m = n
    BY <1>1, <1>4, <2>1
  <2>2. CASE m < n
    <3>1. m \in 1..n /\ m + 1 \in 1..n
      BY <2>2
    <3> QED BY <1>1, <1>4, <2>2, <3>1 DEF Stack
  <2> QED BY <1>7, <2>1, <2>2
<1>8. Started(t[1]) /\ Len(t[1].msgs) = 1
  BY <1>1, <1>4 DEF Stack
<1>9. Stack(t)
  BY <1>4, <1>6, <1>7, <1>8 DEF Stack
<1> QED BY <1>1, <1>2, <1>4, <1>9
-----------------------------------------------------------------------------
(* The search.                                                             *)

\* The messages of every level are run in order.
Orderly(levels) ==
    IsSeq(levels) /\ \A m \in 1..Len(levels) : IsLevel(levels[m]) /\ InOrder(levels[m])

\* The message or reply to run next is of the last level.
Asks(levels, found) ==
    /\ Len(levels) > 0 /\ Started(levels[Len(levels)])
    /\ found.type = "reply" => /\ Len(levels) > 1
                               /\ found.target = levels[Len(levels)].emitter
    /\ found.type # "reply" => found.sender = levels[Len(levels)].emitter

Rank(v) == IF StateAt(v, v.index) = "Replying" THEN 3
           ELSE IF StateAt(v, v.index) = "Done" THEN 2 ELSE 1

\* How many turns a search may still take.
TurnsLeft(levels) == IF Len(levels) = 0 THEN 0
                     ELSE 3 * (Len(levels) - 1) + Rank(levels[Len(levels)])

Sound(search) ==
    /\ DOMAIN search = {"levels", "error", "start", "next", "thrown", "over"}
    /\ search.error \in BOOLEAN /\ search.over \in BOOLEAN
    /\ Orderly(search.levels)
    /\ ~search.over => Stack(search.levels) /\ search.next = Nothing
    /\ search.next # Nothing => Stack(search.levels) /\ Asks(search.levels, search.next)

Progress(t, search) ==
    Sound(t) /\ (~t.over => TurnsLeft(t.levels) < TurnsLeft(search.levels))

LEMMA StackIsOrderly ==
    ASSUME NEW levels, Stack(levels)
    PROVE  Orderly(levels)
BY DEF Stack, Orderly, Underway

LEMMA NonEmpty ==
    ASSUME NEW levels, IsSeq(levels), levels # <<>>
    PROVE  Len(levels) > 0 /\ Len(levels) \in Nat
BY DEF IsSeq

LEMMA RankIs ==
    ASSUME NEW v
    PROVE  Rank(v) \in 1..3
BY DEF Rank

LEMMA ResumeIs ==
    ASSUME NEW search, Sound(search), ~search.over, NEW levels, Stack(levels),
           TurnsLeft(levels) < TurnsLeft(search.levels)
    PROVE  Progress(Resume(search, levels), search)
<1>1. PICK t : t = Resume(search, levels)
  OBVIOUS
<1>2. /\ DOMAIN t = DOMAIN search /\ t.levels = levels /\ t.error = search.error
      /\ t.over = search.over /\ t.next = search.next
  BY <1>1 DEF Sound, Resume
<1>3. search.next = Nothing /\ Orderly(levels)
  BY StackIsOrderly DEF Sound
<1>4. Sound(t)
  BY <1>2, <1>3 DEF Sound
<1> QED BY <1>1, <1>2, <1>4 DEF Progress

LEMMA StopIs ==
    ASSUME NEW search, Sound(search), NEW levels, Orderly(levels), NEW found,
           found # Nothing => Stack(levels) /\ Asks(levels, found)
    PROVE  /\ Progress(Stop(search, levels, found), search)
           /\ \A x : Progress([Stop(search, levels, found) EXCEPT !.thrown = x], search)
<1>1. PICK t : t = Stop(search, levels, found)
  OBVIOUS
<1>2. /\ DOMAIN t = DOMAIN search /\ t.levels = levels /\ t.error = search.error
      /\ t.over = TRUE /\ t.next = found
  BY <1>1 DEF Sound, Stop
<1>3. Progress(t, search)
  BY <1>2 DEF Sound, Progress
<1>4. ASSUME NEW x
      PROVE  Progress([t EXCEPT !.thrown = x], search)
  <2>1. PICK u : u = [t EXCEPT !.thrown = x]
    OBVIOUS
  <2>2. /\ DOMAIN u = DOMAIN t /\ u.levels = levels /\ u.error = search.error
        /\ u.over = TRUE /\ u.next = found
    BY <1>2, <2>1 DEF Sound
  <2>3. Progress(u, search)
    BY <1>2, <2>2 DEF Sound, Progress
  <2> QED BY <2>1, <2>3
<1> QED BY <1>1, <1>3, <1>4

\* Leaving a level leaves its turns too.
LEMMA LeftBelow ==
    ASSUME NEW levels, Stack(levels), Len(levels) > 0, NEW below, Stack(below),
           Len(below) = Len(levels) - 1
    PROVE  TurnsLeft(below) < TurnsLeft(levels)
<1>1. PICK n \in Nat : n = Len(levels) /\ n > 0
  BY SeqIs DEF Stack
<1>2. PICK r \in 1..3, q \in 1..3 : r = Rank(levels[n]) /\ q = Rank(below[n - 1])
  BY RankIs
<1>3. TurnsLeft(levels) = 3 * (n - 1) + r
  BY <1>1, <1>2 DEF TurnsLeft
<1>4. CASE n = 1
  BY <1>1, <1>3, <1>4 DEF TurnsLeft
<1>5. CASE n > 1
  <2>1. TurnsLeft(below) = 3 * (n - 2) + q
    BY <1>1, <1>2, <1>5 DEF TurnsLeft
  <2> QED BY <1>3, <1>5, <2>1
<1> QED BY <1>1, <1>4, <1>5

\* Popping a level in the search, with an error.
LEMMA UnwindIs ==
    ASSUME NEW search, Sound(search), ~search.over, Len(search.levels) > 0
    PROVE  Progress(Unwind(search), search)
<1>1. PICK t : t = Unwind(search)
  OBVIOUS
<1>2. PICK levels : levels = search.levels
  OBVIOUS
<1>3. Stack(levels) /\ search.next = Nothing /\ Len(levels) > 0
  BY <1>2 DEF Sound
<1>4. /\ DOMAIN t = DOMAIN search /\ t.levels = Pop(levels) /\ t.error = search.error
      /\ t.over = search.over /\ t.next = search.next
  BY <1>1, <1>2 DEF Sound, Unwind
<1>5. Stack(t.levels) /\ Len(t.levels) = Len(levels) - 1
  BY <1>3, <1>4, PopIs
<1>6. Sound(t)
  BY <1>3, <1>4, <1>5, StackIsOrderly DEF Sound
<1>7. TurnsLeft(t.levels) < TurnsLeft(levels)
  BY <1>3, <1>5, LeftBelow
<1> QED BY <1>1, <1>2, <1>6, <1>7 DEF Progress

LEMMA SetStateIs ==
    ASSUME NEW levels, NEW s
    PROVE  SetState(levels, s)
             = [levels EXCEPT ![Len(levels)] = WithState(levels[Len(levels)], s)]
BY DEF SetState, WithState

\* The last level of a stack, with its current message in another state.
StateSet(t, levels, s) ==
    /\ Stack(t) /\ Len(t) = Len(levels)
    /\ t[Len(t)].emitter = levels[Len(levels)].emitter
    /\ StateAt(t[Len(t)], t[Len(t)].index) = s

LEMMA StateSetIs ==
    ASSUME NEW levels, Stack(levels), Len(levels) > 0, NEW s \in MsgStates,
           s # "NotExecuted"
    PROVE  StateSet(SetState(levels, s), levels, s)
<1>1. PICK n \in Nat : n = Len(levels) /\ n > 0
  BY SeqIs DEF Stack
<1>2. PICK v, w : v = levels[n] /\ w = WithState(v, s)
  OBVIOUS
<1>3. Underway(v)
  BY <1>1, <1>2 DEF Stack
<1>4. /\ Underway(w) /\ w.emitter = v.emitter /\ w.index = v.index
      /\ StateAt(w, v.index) = s /\ Len(w.msgs) = Len(v.msgs)
  BY <1>2, <1>3, WithStateIs
<1>5. Replaces(w, levels)
  BY <1>1, <1>2, <1>4 DEF Replaces, Started
<1>6. PICK t : t = [levels EXCEPT ![n] = w]
  OBVIOUS
<1>7. StackWith([levels EXCEPT ![Len(levels)] = w], levels, w)
  BY <1>5, TopReplaced, Zenon
<1>8. t = SetState(levels, s)
  BY <1>1, <1>2, <1>6, SetStateIs
<1> QED BY <1>1, <1>2, <1>4, <1>6, <1>7, <1>8 DEF StateSet, StackWith

\* The message whose turn it is runs next, for the level below.
LEMMA AtNotExecutedIs ==
    ASSUME NEW search, Sound(search), ~search.over, Len(search.levels) > 0,
           NEW v, v = search.levels[Len(search.levels)], StateAt(v, v.index) = "NotExecuted"
    PROVE  Progress(AtNotExecuted(search), search)
<1>1. PICK levels : levels = search.levels
  OBVIOUS
<1>2. PICK n \in Nat : n = Len(levels) /\ n > 0 /\ v = levels[n]
  BY <1>1, SeqIs DEF Sound, Stack
<1>3. Stack(levels)
  BY <1>1 DEF Sound
<1>4. n > 1
  BY <1>2, <1>3 DEF Stack, Started, Underway
<1>5. Caller(levels) = v.emitter
  <2>1. n - 1 \in 1..n /\ n - 1 < n /\ (n - 1) + 1 = n
    BY <1>4
  <2>2. Linked(levels[n - 1], levels[(n - 1) + 1])
    BY <1>2, <1>3, <2>1 DEF Stack
  <2> QED BY <1>2, <2>1, <2>2 DEF Linked, Caller
<1>6. PICK msg, s : /\ msg = Current(Last(levels))
                    /\ s = IF msg.reply_on = "never" THEN "Done" ELSE "ShouldReply"
  OBVIOUS
<1>7. PICK t : t = SetState(levels, s)
  OBVIOUS
<1>8. StateSet(t, levels, s) /\ s # "NotExecuted"
  <2>1. s \in MsgStates /\ s # "NotExecuted"
    BY <1>6 DEF MsgStates
  <2>2. Len(levels) > 0
    BY <1>2
  <2> QED BY <1>3, <1>7, <2>1, <2>2, StateSetIs, Zenon
<1>9. PICK found : found = [type |-> "msg", to |-> msg.to, sender |-> Caller(levels)]
  OBVIOUS
<1>10. found.type = "msg" /\ found.sender = v.emitter
  BY <1>5, <1>9
<1>11. Stack(t) /\ Asks(t, found)
  BY <1>2, <1>8, <1>10 DEF StateSet, Asks, Started
<1>12. AtNotExecuted(search) = Stop(search, t, found)
  BY <1>1, <1>6, <1>7, <1>9 DEF AtNotExecuted
<1> QED BY <1>11, <1>12, StackIsOrderly, StopIs

\* A reply is over: what is left is to go on from its message.
LEMMA AtReplyingIs ==
    ASSUME NEW search, Sound(search), ~search.over, Len(search.levels) > 0,
           NEW v, v = search.levels[Len(search.levels)], StateAt(v, v.index) = "Replying"
    PROVE  Progress(Resume(search, SetState(search.levels, "Done")), search)
<1>1. PICK levels, t : levels = search.levels /\ t = SetState(levels, "Done")
  OBVIOUS
<1>2. Stack(levels) /\ Len(levels) > 0
  BY <1>1 DEF Sound
<1>3. StateSet(t, levels, "Done")
  BY <1>1, <1>2, StateSetIs DEF MsgStates
<1>4. PICK n \in Nat : n = Len(levels) /\ n > 0
  BY <1>2, SeqIs DEF Stack
<1>5. TurnsLeft(t) = 3 * (n - 1) + 2
  BY <1>3, <1>4 DEF StateSet, TurnsLeft, Rank
<1>6. TurnsLeft(levels) = 3 * (n - 1) + 3
  BY <1>1, <1>4 DEF TurnsLeft, Rank
<1>7. TurnsLeft(t) < TurnsLeft(levels) /\ Stack(t)
  BY <1>3, <1>4, <1>5, <1>6 DEF StateSet
<1> QED BY <1>1, <1>7, ResumeIs

\* The level goes on to its next message, or is past the last one.
MovesOn(t, levels, n) ==
    /\ Orderly(t) /\ Len(t) = n
    /\ \A m \in 1..n : m # n => t[m] = levels[m]
    /\ t[n].index <= Len(t[n].msgs) =>
         Stack(t) /\ StateAt(t[n], t[n].index) = "NotExecuted"

LEMMA AdvanceIs ==
    ASSUME NEW levels, Stack(levels), NEW n \in Nat, n = Len(levels), n > 0,
           StateAt(levels[n], levels[n].index) = "Done",
           NEW t, t = [levels EXCEPT ![n].index = @ + 1]
    PROVE  MovesOn(t, levels, n)
<1>1. PICK v, w : v = levels[n] /\ w = Advanced(v)
  OBVIOUS
<1>2. Underway(v)
  BY <1>1 DEF Stack
<1>3. /\ IsLevel(w) /\ InOrder(w) /\ w.emitter = v.emitter
      /\ w.index = v.index + 1 /\ w.msgs = v.msgs
      /\ v.index + 1 <= Len(v.msgs) =>
           Underway(w) /\ StateAt(w, v.index + 1) = "NotExecuted"
  BY <1>1, <1>2, AdvancedIs
<1>4. t = [levels EXCEPT ![n] = w]
  BY <1>1 DEF Advanced
<1>5. Replaced(t, levels, n, w)
  <2>1. IsSeq(levels) /\ n \in 1..Len(levels)
    BY DEF Stack
  <2>2. Replaced([levels EXCEPT ![n] = w], levels, n, w)
    BY <2>1, ExceptIs, Zenon
  <2> QED BY <1>4, <2>2
<1>6. IsSeq(t) /\ Len(t) = n /\ t[n] = w /\ \A m \in 1..n : m # n => t[m] = levels[m]
  BY <1>5 DEF Replaced
<1>7. Orderly(t)
  BY <1>3, <1>6, StackIsOrderly DEF Orderly
<1>8. ASSUME w.index <= Len(w.msgs)
      PROVE  Stack(t)
  <2>1. n # 1
    <3> SUFFICES ASSUME n = 1
                 PROVE  FALSE
      OBVIOUS
    <3>1. Len(v.msgs) = 1
      BY <1>1 DEF Stack
    <3>2. v.index = 1
      BY <1>2, <3>1 DEF Underway
    <3> QED BY <1>3, <1>8, <3>1, <3>2
  <2>2. Replaces(w, levels)
    BY <1>1, <1>3, <1>8, <2>1 DEF Replaces
  <2>3. Len(levels) > 0
    OBVIOUS
  <2>4. StackWith([levels EXCEPT ![Len(levels)] = w], levels, w)
    BY <2>2, <2>3, TopReplaced, Zenon
  <2> QED BY <1>4, <2>4 DEF StackWith
<1> QED BY <1>1, <1>3, <1>6, <1>7, <1>8 DEF MovesOn

LEMMA SquashedIs ==
    ASSUME NEW levels, NEW events, NEW below, below = Pop(levels),
           NEW n \in Nat, n = Len(below), n > 0, DOMAIN below = 1..n
    PROVE  Squashed(levels, events)
             = [below EXCEPT ![n] = WithSquashed(below[n], Last(levels).responses, events)]
BY DEF Squashed, WithSquashed

\* The last level may be past its messages: only those below are kept.
LEMMA SquashIs ==
    ASSUME NEW levels, Stack(levels), NEW n \in Nat, n = Len(levels), n > 1,
           NEW t, IsSeq(t), Len(t) = n, \A m \in 1..n : m # n => t[m] = levels[m],
           IsSeq(t[n].responses), NEW events
    PROVE  Stack(Squashed(t, events)) /\ Len(Squashed(t, events)) = n - 1
<1>1. PICK below : below = Pop(t)
  OBVIOUS
<1>2. PICK k \in Nat : k = n - 1 /\ k > 0
  OBVIOUS
<1>3. IsSeq(below) /\ Len(below) = k /\ \A m \in 1..k : below[m] = t[m]
  BY <1>1, <1>2, FrontIs DEF Pop
<1>4. DOMAIN below = 1..k
  BY <1>3, SeqIs
<1>5. \A m \in 1..k : m \in 1..n /\ m # n /\ m < n
  BY <1>2
<1>6. \A m \in 1..k : below[m] = levels[m]
  BY <1>3, <1>5
<1>7. Stack(below)
  <2>1. \A m \in 1..k : Underway(below[m])
    BY <1>5, <1>6 DEF Stack
  <2>2. ASSUME NEW m \in 1..k, m < k
        PROVE  Started(below[m]) /\ Linked(below[m], below[m + 1])
    <3>1. m + 1 \in 1..k
      BY <2>2
    <3> QED BY <1>5, <1>6, <3>1 DEF Stack
  <2>3. Started(below[1]) /\ Len(below[1].msgs) = 1
    BY <1>2, <1>6 DEF Stack
  <2> QED BY <1>3, <2>1, <2>2, <2>3 DEF Stack
<1>8. Len(below[k].responses) > 0 /\ Started(below[k])
  BY <1>2, <1>5, <1>6 DEF Stack, Linked
<1>9. PICK responses : responses = Last(t).responses
  OBVIOUS
<1>10. PICK v, w : v = below[k] /\ w = WithSquashed(v, responses, events)
  OBVIOUS
<1>11. Underway(v)
  BY <1>2, <1>3, <1>7, <1>10 DEF Stack
<1>12. Alike(v, w)
  <2>1. IsSeq(responses)
    BY <1>9 DEF Last
  <2> QED BY <1>8, <1>10, <1>11, <2>1, WithSquashedIs
<1>13. Underway(w) /\ Started(w)
  BY <1>8, <1>10, <1>11, <1>12, AlikeIs
<1>14. Replaces(w, below)
  BY <1>3, <1>10, <1>12, <1>13 DEF Replaces, Alike
<1>15. Squashed(t, events) = [below EXCEPT ![k] = w]
  BY <1>1, <1>2, <1>3, <1>4, <1>9, <1>10, SquashedIs
<1>16. Len(below) > 0
  BY <1>2, <1>3
<1>17. StackWith([below EXCEPT ![Len(below)] = w], below, w)
  BY <1>7, <1>14, <1>16, TopReplaced, Zenon
<1> QED BY <1>2, <1>3, <1>15, <1>17 DEF StackWith

\* A message that is over.
LEMMA AtDoneIs ==
    ASSUME NEW search, Sound(search), ~search.over, Len(search.levels) > 0,
           NEW v, v = search.levels[Len(search.levels)], StateAt(v, v.index) = "Done"
    PROVE  Progress(AtDone(search), search)
<1>1. PICK levels : levels = search.levels
  OBVIOUS
<1>2. PICK n \in Nat : n = Len(levels) /\ n > 0 /\ v = levels[n]
  BY <1>1, SeqIs DEF Sound, Stack
<1>3. Stack(levels)
  BY <1>1 DEF Sound
<1>4. PICK t : t = [levels EXCEPT ![n].index = @ + 1]
  OBVIOUS
<1>5. MovesOn(t, levels, n)
  <2>1. StateAt(levels[n], levels[n].index) = "Done"
    BY <1>2
  <2> QED BY <1>2, <1>3, <1>4, <2>1, AdvanceIs
<1>6. AtDone(search) = IF t[n].index <= Len(t[n].msgs) THEN Resume(search, t)
                       ELSE IF n = 1 THEN Stop(search, t, Nothing)
                                     ELSE Resume(search, SquashLatest(t))
  BY <1>1, <1>2, <1>4 DEF AtDone
<1>7. CASE t[n].index <= Len(t[n].msgs)
  <2>1. TurnsLeft(t) = 3 * (n - 1) + 1
    BY <1>2, <1>5, <1>7 DEF MovesOn, TurnsLeft, Rank
  <2>2. TurnsLeft(levels) = 3 * (n - 1) + 2
    BY <1>2 DEF TurnsLeft, Rank
  <2>3. Progress(Resume(search, t), search)
    BY <1>1, <1>5, <1>7, <2>1, <2>2, ResumeIs DEF MovesOn
  <2> QED BY <1>6, <1>7, <2>3
<1>8. CASE ~(t[n].index <= Len(t[n].msgs)) /\ n = 1
  <2>1. Progress(Stop(search, t, Nothing), search)
    BY <1>5, StopIs DEF MovesOn
  <2> QED BY <1>6, <1>8, <2>1
<1>9. CASE ~(t[n].index <= Len(t[n].msgs)) /\ n # 1
  <2>1. PICK below : below = SquashLatest(t)
    OBVIOUS
  <2>2. n > 1 /\ IsSeq(t) /\ IsSeq(t[n].responses)
    BY <1>2, <1>5, <1>9 DEF MovesOn, Orderly, IsLevel
  <2>3. Stack(below) /\ Len(below) = n - 1
    BY <1>2, <1>3, <1>5, <2>1, <2>2, SquashIs DEF MovesOn, SquashLatest
  <2>4. TurnsLeft(below) < TurnsLeft(levels)
    BY <1>2, <1>3, <2>3, LeftBelow
  <2>5. Progress(Resume(search, below), search)
    BY <1>1, <2>3, <2>4, ResumeIs
  <2> QED BY <1>6, <1>9, <2>1, <2>5
<1> QED BY <1>7, <1>8, <1>9

\* A message that waits for its reply.
LEMMA AtShouldReplyIs ==
    ASSUME NEW search, Sound(search), ~search.over, Len(search.levels) > 0,
           NEW v, v = search.levels[Len(search.levels)], StateAt(v, v.index) = "ShouldReply"
    PROVE  Progress(AtShouldReply(search), search)
<1>1. PICK levels : levels = search.levels
  OBVIOUS
<1>2. PICK n \in Nat : n = Len(levels) /\ n > 0 /\ v = levels[n]
  BY <1>1, SeqIs DEF Sound, Stack
<1>3. Stack(levels)
  BY <1>1 DEF Sound
<1>4. PICK reply, drop : /\ reply = FindReply(levels, search.error)
                         /\ drop = (search.error /\ n # search.start)
  OBVIOUS
<1>5. CASE search.error /\ reply = Nothing
  <2>1. AtShouldReply(search) = Unwind(search)
    BY <1>1, <1>4, <1>5 DEF AtShouldReply
  <2> QED BY <2>1, UnwindIs
<1>6. CASE ~(search.error /\ reply = Nothing)
  <2>1. PICK kept, lost :
          /\ kept = IF drop THEN [levels EXCEPT ![n].responses = Front(@)] ELSE levels
          /\ lost = search.thrown + (IF drop THEN 1 ELSE 0)
    OBVIOUS
  <2>2. /\ Stack(kept) /\ Len(kept) = n /\ kept[n].emitter = v.emitter
    <3>1. CASE drop
      <4>1. PICK w : w = WithoutLast(v)
        OBVIOUS
      <4>2. Underway(v)
        BY <1>2, <1>3 DEF Stack
      <4>3. Alike(v, w) /\ Underway(w) /\ (Started(v) => Started(w))
        BY <4>1, <4>2, WithoutLastIs, AlikeIs
      <4>4. Replaces(w, levels)
        BY <1>2, <1>3, <4>3 DEF Replaces, Alike, Stack
      <4>5. kept = [levels EXCEPT ![n] = w]
        BY <1>2, <2>1, <3>1, <4>1 DEF WithoutLast
      <4>6. Len(levels) > 0
        BY <1>2
      <4>7. StackWith([levels EXCEPT ![Len(levels)] = w], levels, w)
        BY <1>3, <4>4, <4>6, TopReplaced, Zenon
      <4> QED BY <1>2, <4>3, <4>5, <4>7 DEF Alike, StackWith
    <3>2. CASE ~drop
      BY <1>2, <1>3, <2>1, <3>2
    <3> QED BY <3>1, <3>2
  <2>3. PICK t : t = SetState(kept, "Replying")
    OBVIOUS
  <2>4. StateSet(t, kept, "Replying")
    <3>1. "Replying" \in MsgStates /\ "Replying" # "NotExecuted" /\ Len(kept) > 0
      BY <1>2, <2>2 DEF MsgStates
    <3> QED BY <2>2, <2>3, <3>1, StateSetIs, Zenon
  <2>5. AtShouldReply(search) = [Stop(search, t, reply) EXCEPT !.thrown = lost]
    <3>1. Stop(search, t, reply).thrown = search.thrown
      BY DEF Stop, Sound
    <3>2. AtShouldReply(search)
            = [Stop(search, t, reply) EXCEPT !.thrown = @ + (IF drop THEN 1 ELSE 0)]
      BY <1>1, <1>2, <1>4, <1>6, <2>1, <2>3 DEF AtShouldReply
    <3>3. PICK found : found = Stop(search, t, reply)
      OBVIOUS
    <3> QED BY <2>1, <3>1, <3>2, <3>3
  <2>6. ASSUME reply # Nothing
        PROVE  Stack(t) /\ Asks(t, reply)
    <3>1. /\ n > 1
          /\ reply = [type |-> "reply", error |-> search.error, target |-> Caller(levels)]
      BY <1>2, <1>4, <2>6 DEF FindReply
    <3>2. Caller(levels) = v.emitter
      <4>1. n - 1 \in 1..n /\ n - 1 < n /\ (n - 1) + 1 = n
        BY <3>1
      <4>2. Linked(levels[n - 1], levels[(n - 1) + 1])
        BY <1>2, <1>3, <4>1 DEF Stack
      <4> QED BY <1>2, <4>1, <4>2 DEF Linked, Caller
    <3>3. reply.type = "reply" /\ reply.target = v.emitter
      BY <3>1, <3>2
    <3> QED BY <2>2, <2>4, <3>1, <3>3 DEF StateSet, Asks, Started
  <2>7. Orderly(t)
    BY <2>4, StackIsOrderly DEF StateSet
  <2>8. Progress([Stop(search, t, reply) EXCEPT !.thrown = lost], search)
    BY <2>6, <2>7, StopIs, Zenon
  <2> QED BY <2>5, <2>8
<1> QED BY <1>5, <1>6

\* One turn keeps the search sound, and brings it nearer to its end.
LEMMA TurnIs ==
    ASSUME NEW search, Sound(search), ~search.over, Len(search.levels) > 0
    PROVE  Progress(Turn(search), search)
<1>1. PICK levels, at : levels = search.levels /\ at = Current(Last(levels)).state
  OBVIOUS
<1>2. PICK v : v = levels[Len(levels)]
  OBVIOUS
<1>3. at = StateAt(v, v.index) /\ at \in MsgStates
  <2>1. Underway(v)
    BY <1>1, <1>2, SeqIs DEF Sound, Stack
  <2> QED BY <1>1, <1>2, <2>1 DEF Current, Last, StateAt, Underway, IsLevel
<1>4. levels # <<>> /\ search.error \in BOOLEAN
  BY <1>1, EmptyIs DEF Sound
<1>5. Turn(search) = CASE at = "NotExecuted" -> AtNotExecuted(search)
                       [] at = "ShouldReply" -> AtShouldReply(search)
                       [] at \in {"Done", "Replying"} /\ search.error -> Unwind(search)
                       [] at = "Done" /\ ~search.error -> AtDone(search)
                       [] at = "Replying" /\ ~search.error ->
                            Resume(search, SetState(levels, "Done"))
  BY <1>1, <1>4 DEF Turn
<1>6. CASE at = "NotExecuted"
  BY <1>1, <1>2, <1>3, <1>5, <1>6, AtNotExecutedIs
<1>7. CASE at = "ShouldReply"
  BY <1>1, <1>2, <1>3, <1>5, <1>7, AtShouldReplyIs
<1>8. CASE at \in {"Done", "Replying"} /\ search.error
  <2>1. Turn(search) = Unwind(search)
    BY <1>5, <1>8
  <2> QED BY <2>1, UnwindIs
<1>9. CASE at = "Done" /\ ~search.error
  BY <1>1, <1>2, <1>3, <1>5, <1>9, AtDoneIs
<1>10. CASE at = "Replying" /\ ~search.error
  <2>1. Turn(search) = Resume(search, SetState(levels, "Done"))
    BY <1>5, <1>10
  <2> QED BY <1>1, <1>2, <1>3, <1>10, <2>1, AtReplyingIs
<1> QED BY <1>3, <1>4, <1>6, <1>7, <1>8, <1>9, <1>10 DEF MsgStates

(* The loop: what the search has come to after every turn.                 *)
IsLoop(n, levels, error, turn) ==
    turn = [k \in 0..n |-> IF k = 0 THEN Search(levels, error) ELSE Turn(turn[k - 1])]

LEMMA LoopIsChosen ==
    ASSUME NEW levels, NEW error
    PROVE  FindNext(levels, error)
             = (CHOOSE turn : IsLoop(Turns(levels), levels, error, turn))[Turns(levels)]
BY DEF FindNext, IsLoop

LEMMA LoopExists ==
    ASSUME NEW n \in Nat, NEW levels, NEW error
    PROVE  \E turn : IsLoop(n, levels, error, turn)
<1> DEFINE G == {k \in 0..n : \E turn : IsLoop(k, levels, error, turn)}
<1>1. 0 \in G
  <2>1. PICK f : f = [k \in 0..0 |-> Search(levels, error)]
    OBVIOUS
  <2>2. f = [k \in 0..0 |-> IF k = 0 THEN Search(levels, error) ELSE Turn(f[k - 1])]
    BY <2>1
  <2> QED BY <2>2 DEF IsLoop
<1>2. ASSUME NEW i \in 1..n, i > 0, i - 1 \in G
      PROVE  i \in G
  <2>1. PICK f : IsLoop(i - 1, levels, error, f)
    BY <1>2
  <2>2. PICK g : g = [k \in 0..i |-> IF k = i THEN Turn(f[i - 1]) ELSE f[k]]
    OBVIOUS
  <2>3. ASSUME NEW k \in 0..i
        PROVE  g[k] = IF k = 0 THEN Search(levels, error) ELSE Turn(g[k - 1])
    <3>1. CASE k = 0
      <4>1. f[0] = Search(levels, error)
        BY <2>1 DEF IsLoop
      <4> QED BY <2>2, <3>1, <4>1
    <3>2. CASE k # 0 /\ k # i
      <4>1. k \in 0..(i - 1) /\ k - 1 \in 0..i /\ k - 1 # i
        BY <3>2
      <4>2. f[k] = Turn(f[k - 1])
        BY <2>1, <3>2, <4>1 DEF IsLoop
      <4>3. g[k] = f[k] /\ g[k - 1] = f[k - 1]
        BY <2>2, <3>2, <4>1
      <4> QED BY <3>2, <4>2, <4>3
    <3>3. CASE k = i
      <4>1. k - 1 \in 0..i /\ k - 1 # i /\ k # 0
        BY <3>3
      <4>2. g[k - 1] = f[i - 1] /\ g[k] = Turn(f[i - 1])
        BY <2>2, <3>3, <4>1
      <4> QED BY <4>1, <4>2
    <3> QED BY <3>1, <3>2, <3>3
  <2>4. g = [k \in 0..i |-> g[k]]
    BY <2>2
  <2>5. IsLoop(i, levels, error, g)
    BY <2>3, <2>4 DEF IsLoop
  <2> QED BY <2>5
<1> HIDE DEF G
<1>3. 0 \in 0..n
  OBVIOUS
<1>4. \A i \in 0..n : i \in G
  BY <1>1, <1>2, <1>3, StepByStep
<1>5. n \in G
  BY <1>4
<1> QED BY <1>5 DEF G

\* A search after k turns of n.
Nearing(search, k, n) ==
    Sound(search) /\ (~search.over => TurnsLeft(search.levels) + k <= n)

\* The search from a stack: it is over, or there is no level left; and what it
\* has found is for the contract that asked for it.
LEMMA SearchEnds ==
    ASSUME NEW levels, Stack(levels), NEW error \in BOOLEAN
    PROVE  /\ Sound(FindNext(levels, error))
           /\ \/ FindNext(levels, error).over
              \/ Len(FindNext(levels, error).levels) = 0
<1>1. PICK m \in Nat : m = Len(levels)
  BY SeqIs DEF Stack
<1>2. PICK n \in Nat : n = 3 * m
  OBVIOUS
<1>3. Turns(levels) = n
  BY <1>1, <1>2 DEF Turns
<1>4. PICK turn : /\ IsLoop(n, levels, error, turn)
                  /\ FindNext(levels, error) = turn[n]
  <2>1. PICK f : f = (CHOOSE turn : IsLoop(n, levels, error, turn))
    OBVIOUS
  <2>2. IsLoop(n, levels, error, f)
    BY <2>1, LoopExists
  <2>3. FindNext(levels, error) = f[n]
    BY <1>3, <2>1, LoopIsChosen
  <2> QED BY <2>2, <2>3
<1> DEFINE G == {k \in 0..n : Nearing(turn[k], k, n)}
<1>5. 0 \in G
  <2>1. PICK s : s = Search(levels, error)
    OBVIOUS
  <2>2. turn[0] = s
    BY <1>4, <2>1 DEF IsLoop
  <2>3. /\ DOMAIN s = {"levels", "error", "start", "next", "thrown", "over"}
        /\ s.levels = levels /\ s.error = error /\ s.over = FALSE /\ s.next = Nothing
    BY <2>1 DEF Search
  <2>4. Sound(s)
    BY <2>3, StackIsOrderly DEF Sound
  <2>5. PICK r \in 1..3 : r = Rank(levels[m])
    BY RankIs
  <2>6. TurnsLeft(levels) <= n /\ TurnsLeft(levels) \in Nat
    BY <1>1, <1>2, <2>5 DEF TurnsLeft
  <2>7. Nearing(s, 0, n)
    BY <2>3, <2>4, <2>6 DEF Nearing
  <2> QED BY <2>2, <2>7
<1>6. ASSUME NEW i \in 1..n, i > 0, i - 1 \in G
      PROVE  i \in G
  <2>1. PICK s, t : s = turn[i - 1] /\ t = turn[i]
    OBVIOUS
  <2>7. Nearing(s, i - 1, n)
    BY <1>6, <2>1
  <2>2. Sound(s) /\ (~s.over => TurnsLeft(s.levels) + (i - 1) <= n)
    BY <2>7 DEF Nearing
  <2> SUFFICES Nearing(t, i, n)
    BY <2>1
  <2>3. t = Turn(s)
    BY <1>4, <2>1 DEF IsLoop
  <2>4. CASE s.over
    BY <2>2, <2>3, <2>4 DEF Turn, Nearing
  <2>5. CASE ~s.over /\ Len(s.levels) > 0
    <3>1. Progress(t, s)
      BY <2>2, <2>3, <2>5, TurnIs
    <3>2. ~t.over => Stack(t.levels) /\ Stack(s.levels)
      BY <2>2, <2>5, <3>1 DEF Progress, Sound
    <3>3. \A l : Stack(l) => TurnsLeft(l) \in Int
      <4> SUFFICES ASSUME NEW l, Stack(l)
                   PROVE  TurnsLeft(l) \in Int
        OBVIOUS
      <4>1. Len(l) \in Nat
        BY SeqIs DEF Stack
      <4> QED BY <4>1, RankIs DEF TurnsLeft
    <3>4. ~t.over => TurnsLeft(t.levels) + i <= n
      BY <2>2, <2>5, <3>1, <3>2, <3>3 DEF Progress
    <3> QED BY <3>1, <3>4 DEF Progress, Nearing
  <2>6. CASE ~s.over /\ ~(Len(s.levels) > 0)
    <3>1. Stack(s.levels)
      BY <2>2, <2>6 DEF Sound
    <3>2. s.levels = <<>>
      BY <2>6, <3>1, NonEmpty DEF Stack
    <3>3. t = s /\ TurnsLeft(s.levels) = 0
      BY <2>3, <3>2, EmptyIs DEF Turn, TurnsLeft
    <3> QED BY <1>2, <2>2, <3>3 DEF Nearing
  <2> QED BY <2>4, <2>5, <2>6
<1> HIDE DEF G
<1>7. 0 \in 0..n
  OBVIOUS
<1>8. n \in G
  <2>1. \A i \in 0..n : i \in G
    BY <1>5, <1>6, <1>7, StepByStep
  <2> QED BY <2>1
<1>9. PICK s : s = turn[n]
  OBVIOUS
<1>10. Sound(s) /\ (~s.over => TurnsLeft(s.levels) + n <= n)
  BY <1>8, <1>9 DEF G, Nearing
<1>11. ASSUME ~s.over
       PROVE  Len(s.levels) = 0
  <2>1. PICK j \in Nat : j = Len(s.levels)
    BY <1>10, <1>11, SeqIs DEF Sound, Stack
  <2>2. PICK r \in 1..3 : r = Rank(s.levels[j])
    BY RankIs
  <2>3. j # 0 => TurnsLeft(s.levels) = 3 * (j - 1) + r
    BY <2>1, <2>2 DEF TurnsLeft
  <2>4. j # 0 => 3 * (j - 1) + r > 0
    OBVIOUS
  <2> QED BY <1>10, <1>11, <2>1, <2>3, <2>4
<1> QED BY <1>4, <1>9, <1>10, <1>11
-----------------------------------------------------------------------------
(* What a run answers.                                                     *)

\* A level in the same place, that came of the same response and has the same.
LEMMA DataKept ==
    ASSUME NEW levels, Stack(levels), NEW d \in 1..Len(levels), NEW data
    PROVE  /\ Stack([levels EXCEPT ![d].data = data])
           /\ Len([levels EXCEPT ![d].data = data]) = Len(levels)
           /\ \A m \in 1..Len(levels) :
                Alike(levels[m], [levels EXCEPT ![d].data = data][m])
<1>1. PICK n \in Nat : n = Len(levels) /\ d \in 1..n
  BY SeqIs DEF Stack
<1>2. PICK v, w : v = levels[d] /\ w = WithData(v, data)
  OBVIOUS
<1>3. Underway(v)
  BY <1>1, <1>2 DEF Stack
<1>4. Alike(v, w) /\ w.responses = v.responses
  BY <1>2, <1>3, WithDataIs
<1>5. PICK t : t = [levels EXCEPT ![d].data = data]
  OBVIOUS
<1>6. Replaced(t, levels, d, w)
  <2>1. IsSeq(levels)
    BY DEF Stack
  <2>2. Replaced([levels EXCEPT ![d] = w], levels, d, w)
    BY <2>1, ExceptIs, Zenon
  <2>3. t = [levels EXCEPT ![d] = w]
    BY <1>2, <1>5 DEF WithData
  <2> QED BY <2>2, <2>3
<1>7. IsSeq(t) /\ Len(t) = n /\ t[d] = w /\ \A m \in 1..n : m # d => t[m] = levels[m]
  BY <1>1, <1>6 DEF Replaced
<1>8. ASSUME NEW m \in 1..n
      PROVE  /\ Alike(levels[m], t[m]) /\ t[m].responses = levels[m].responses
             /\ Underway(t[m]) /\ t[m].emitter = levels[m].emitter
             /\ Started(levels[m]) => Started(t[m])
             /\ Len(t[m].msgs) = Len(levels[m].msgs)
  <2>1. Underway(levels[m])
    BY <1>1 DEF Stack
  <2>2. Alike(levels[m], t[m]) /\ t[m].responses = levels[m].responses
    <3>1. CASE m = d
      BY <1>2, <1>4, <1>7, <3>1
    <3>2. CASE m # d
      BY <1>7, <2>1, <3>2 DEF Alike, Underway
    <3> QED BY <3>1, <3>2
  <2> QED BY <2>1, <2>2, AlikeIs DEF Alike
<1>9. Stack(t)
  <2>1. ASSUME NEW m \in 1..n, m < n
        PROVE  Started(t[m]) /\ Linked(t[m], t[m + 1])
    <3>1. m + 1 \in 1..n
      BY <2>1
    <3> QED BY <1>1, <1>8, <2>1, <3>1 DEF Stack, Linked
  <2>2. n > 0 => 1 \in 1..n
    OBVIOUS
  <2> QED BY <1>1, <1>7, <1>8, <2>1, <2>2 DEF Stack
<1> QED BY <1>1, <1>5, <1>7, <1>8, <1>9

\* The response of a run, at the level that it ran for.
Answered(levels, run, address) ==
    LET n == Len(levels)
    IN  [levels EXCEPT ![n] = WithResponse(levels[n], run, address)]

LEMMA AnsweredIs ==
    ASSUME NEW levels, Stack(levels), Len(levels) > 0, Started(levels[Len(levels)]),
           NEW run, NEW address, NEW t, t = Answered(levels, run, address)
    PROVE  /\ Stack(t) /\ Len(t) = Len(levels) /\ Started(t[Len(t)])
           /\ Len(t[Len(t)].responses) > 0
           /\ Last(t[Len(t)].responses).address = address
<1>1. PICK n \in Nat : n = Len(levels) /\ n > 0
  BY SeqIs DEF Stack
<1>2. PICK v, w : v = levels[n] /\ w = WithResponse(v, run, address)
  OBVIOUS
<1>3. Underway(v) /\ Started(v)
  BY <1>1, <1>2 DEF Stack
<1>4. Alike(v, w) /\ Len(w.responses) > 0 /\ Last(w.responses).address = address
  BY <1>2, <1>3, WithResponseIs
<1>5. Underway(w) /\ Started(w)
  BY <1>3, <1>4, AlikeIs
<1>6. Replaces(w, levels)
  BY <1>1, <1>2, <1>4, <1>5 DEF Replaces, Alike
<1>7. t = [levels EXCEPT ![n] = w]
  BY <1>1, <1>2 DEF Answered
<1>8. StackWith([levels EXCEPT ![Len(levels)] = w], levels, w)
  BY <1>6, TopReplaced, Zenon
<1> QED BY <1>1, <1>4, <1>5, <1>7, <1>8 DEF StackWith

LEMMA RespondIs ==
    ASSUME Stack(states), Asks(states, next),
           NEW data, NEW msgs \in BoundedSeq(Messages, MaxMsgs)
    PROVE  Stack(Respond(data, msgs)) /\ Len(Respond(data, msgs)) > 0
<1>1. PICK n \in Nat : n = Len(states) /\ n > 0 /\ Started(states[n])
  BY SeqIs DEF Stack, Asks
<1>2. PICK d : d = DataLevel(data)
  OBVIOUS
<1>3. d \in 1..n
  BY <1>1, <1>2 DEF DataLevel, Asks, IsReply
<1>4. PICK kept : kept = KeepData(data)
  OBVIOUS
<1>5. Stack(kept) /\ Len(kept) = n /\ Started(kept[n])
  <2>1. CASE Runner = BankModule
    BY <1>1, <1>4, <2>1 DEF KeepData
  <2>2. CASE Runner # BankModule
    <3>1. d \in 1..Len(states)
      BY <1>1, <1>3
    <3>2. PICK t : t = [states EXCEPT ![d].data = data]
      OBVIOUS
    <3>3. Stack(t) /\ Len(t) = Len(states) /\ \A m \in 1..Len(states) : Alike(states[m], t[m])
      BY <3>1, <3>2, DataKept
    <3>4. Alike(states[n], t[n]) /\ Underway(states[n])
      BY <1>1, <3>3 DEF Stack
    <3>5. Started(t[n])
      BY <1>1, <3>4, AlikeIs
    <3>6. kept = t
      BY <1>2, <1>4, <2>2, <3>2 DEF KeepData
    <3> QED BY <1>1, <3>3, <3>5, <3>6
  <2> QED BY <2>1, <2>2
<1>6. PICK answered : answered = Answered(kept, runs + 1, Runner)
  OBVIOUS
<1>7. /\ Stack(answered) /\ Len(answered) = n /\ Started(answered[n])
      /\ Len(answered[n].responses) > 0
      /\ Last(answered[n].responses).address = Runner
  BY <1>1, <1>5, <1>6, AnsweredIs
<1>8. answered = Answer(kept)
  <2>1. DOMAIN kept = 1..n /\ n \in 1..n
    BY <1>1, <1>5, SeqIs DEF Stack
  <2>2. {"msgs", "responses"} \subseteq DOMAIN kept[n]
    BY <1>5, <2>1 DEF Stack, Underway, IsLevel
  <2> QED BY <1>5, <1>6, <2>1, <2>2 DEF Answer, Answered, WithResponse
<1>9. Respond(data, msgs) = IF msgs = <<>> THEN answered
                            ELSE Append(answered, Level(Runner, msgs))
  BY <1>4, <1>8 DEF Respond, Ask
<1>10. CASE msgs = <<>>
  BY <1>1, <1>7, <1>9, <1>10
<1>11. CASE msgs # <<>>
  <2>1. IsSeq(msgs) /\ Len(msgs) > 0
    <3>1. PICK m \in 0..MaxMsgs : msgs \in [1..m -> Messages]
      BY SubMessagesAssumption DEF BoundedSeq, SeqOf
    <3>2. msgs \in Seq(Messages)
      BY <3>1, SubMessagesAssumption
    <3>3. IsSeq(msgs)
      BY <3>2 DEF IsSeq
    <3> QED BY <1>11, <3>3, NonEmpty
  <2>2. PICK v : v = Level(Runner, msgs)
    OBVIOUS
  <2>3. Underway(v) /\ v.emitter = Runner
    BY <2>1, <2>2, LevelIs
  <2>4. Linked(answered[n], v)
    BY <1>7, <2>3 DEF Linked
  <2>5. Stack(Append(answered, v)) /\ Len(Append(answered, v)) = n + 1
    BY <1>1, <1>7, <2>3, <2>4, PushIs
  <2> QED BY <1>1, <1>9, <1>11, <2>2, <2>5
<1> QED BY <1>10, <1>11
-----------------------------------------------------------------------------
(* Every step.                                                             *)

MessagesInv ==
    /\ Orderly(states)
    /\ outcome = "running" => next # Nothing /\ Stack(states) /\ Asks(states, next)

LEMMA InitMessages == MessagesInit => MessagesInv
BY EmptyIs DEF MessagesInit, MessagesInv, Orderly

LEMMA NewMessages ==
    ASSUME NEW c, NewExecution(c)
    PROVE  MessagesInv'
<1>1. PICK root, v : /\ root = <<[to |-> c, reply_on |-> "never"]>>
                     /\ v = Level(User, root)
  OBVIOUS
<1>2. IsSeq(root) /\ Len(root) = 1
  <2>1. root \in Seq({[to |-> c, reply_on |-> "never"]}) /\ Len(root) = 1
    BY <1>1
  <2> QED BY <2>1 DEF IsSeq
<1>3. Underway(v) /\ v.emitter = User /\ v.index = 1 /\ Len(v.msgs) = 1
  BY <1>1, <1>2, LevelIs
<1>4. PICK w : w = WithState(v, "Done")
  OBVIOUS
<1>5. /\ Underway(w) /\ w.emitter = User /\ Started(w) /\ Len(w.msgs) = 1
  <2>1. /\ Underway(w) /\ w.emitter = v.emitter /\ w.index = v.index
        /\ StateAt(w, v.index) = "Done" /\ Len(w.msgs) = Len(v.msgs)
    BY <1>3, <1>4, WithStateIs DEF MsgStates
  <2> QED BY <1>3, <2>1 DEF Started
<1>6. states' = <<w>>
  <2>1. PICK levels : levels = <<v>>
    OBVIOUS
  <2>2. Len(levels) = 1 /\ levels[1] = v
    BY <2>1
  <2>3. SetState(levels, "Done") = [levels EXCEPT ![1] = w]
    BY <1>4, <2>2, SetStateIs
  <2>4. [levels EXCEPT ![1] = w] = <<w>>
    BY <2>1
  <2>5. states' = SetState(levels, "Done")
    BY <1>1, <2>1 DEF NewExecution
  <2> QED BY <2>3, <2>4, <2>5
<1>7. IsSeq(states') /\ Len(states') = 1 /\ states'[1] = w
  <2>1. <<w>> \in Seq({w})
    OBVIOUS
  <2> QED BY <1>6, <2>1 DEF IsSeq
<1>8. Stack(states')
  BY <1>5, <1>7 DEF Stack
<1>9. PICK found : found = [type |-> "msg", to |-> c, sender |-> User]
  OBVIOUS
<1>10. next' = found /\ found.type = "msg" /\ found.sender = User
  BY <1>9 DEF NewExecution
<1>11. found # Nothing
  BY <1>10 DEF Nothing
<1>12. Asks(states', next')
  BY <1>5, <1>7, <1>10 DEF Asks
<1> QED BY <1>8, <1>10, <1>11, <1>12, StackIsOrderly DEF MessagesInv

LEMMA SuccessfulMessages ==
    ASSUME MessagesInv, NEW data, NEW msgs \in BoundedSeq(Messages, MaxMsgs),
           RunSucceeds(data, msgs)
    PROVE  MessagesInv'
<1>1. Stack(states) /\ Asks(states, next)
  BY DEF MessagesInv, RunSucceeds, Running
<1>2. PICK found : found = FindNext(Respond(data, msgs), FALSE)
  OBVIOUS
<1>3. Sound(found)
  BY <1>1, <1>2, RespondIs, SearchEnds
<1>4. states' = found.levels /\ next' = found.next
  BY <1>2 DEF RunSucceeds, Keep
<1>5. outcome' = "running" => found.next # Nothing
  BY <1>2 DEF RunSucceeds, Finish
<1> QED BY <1>3, <1>4, <1>5 DEF Sound, MessagesInv

LEMMA FailedMessages ==
    ASSUME MessagesInv, RunFails
    PROVE  MessagesInv'
<1>1. Stack(states)
  BY DEF MessagesInv, RunFails, Running
<1>2. PICK found : found = FindNext(states, TRUE)
  OBVIOUS
<1>3. Sound(found)
  BY <1>1, <1>2, SearchEnds
<1>4. states' = found.levels /\ next' = found.next
  BY <1>2 DEF RunFails, Keep
<1>5. outcome' = "running" => found.next # Nothing
  BY <1>2 DEF RunFails
<1> QED BY <1>3, <1>4, <1>5 DEF Sound, MessagesInv

LEMMA AbortedMessages ==
    ASSUME RunAborts
    PROVE  MessagesInv'
BY EmptyIs DEF RunAborts, MessagesInv, Orderly

LEMMA StepMessages == MessagesInv /\ [MessagesNext]_messageVars => MessagesInv'
<1> SUFFICES ASSUME MessagesInv, [MessagesNext]_messageVars
             PROVE  MessagesInv'
  OBVIOUS
<1>1. CASE \E c \in Contract : NewExecution(c)
  BY <1>1, NewMessages
<1>2. CASE \E data \in Data \cup {NoData}, msgs \in BoundedSeq(Messages, MaxMsgs) :
             RunSucceeds(data, msgs)
  BY <1>2, SuccessfulMessages
<1>3. CASE RunFails
  BY <1>3, FailedMessages
<1>4. CASE RunAborts
  BY <1>4, AbortedMessages
<1>5. CASE UNCHANGED messageVars
  BY <1>5 DEF messageVars, MessagesInv
<1> QED BY <1>1, <1>2, <1>3, <1>4, <1>5 DEF MessagesNext

LEMMA MessagesAlways == MessagesSpec => []MessagesInv
BY InitMessages, StepMessages, PTL DEF MessagesSpec

(* The messages of every level run one at a time and in the order of the   *)
(* response: find_next never skips, repeats or overtakes one.              *)
THEOREM MessagesAreInOrder == MessagesSpec => []MessagesInOrder
<1>1. MessagesInv => MessagesInOrder
  <2> SUFFICES ASSUME MessagesInv, NEW n \in DOMAIN states,
                      NEW i \in DOMAIN states[n].msgs
               PROVE  /\ i < states[n].index => states[n].msgs[i].state = "Done"
                      /\ i > states[n].index => states[n].msgs[i].state = "NotExecuted"
    BY DEF MessagesInOrder
  <2>1. n \in 1..Len(states)
    BY SeqIs DEF MessagesInv, Orderly
  <2>2. IsLevel(states[n]) /\ InOrder(states[n])
    BY <2>1 DEF MessagesInv, Orderly
  <2>3. i \in 1..Len(states[n].msgs)
    BY <2>2, SeqIs DEF IsLevel
  <2> QED BY <2>2, <2>3 DEF InOrder, StateAt
<1> QED BY <1>1, MessagesAlways, PTL

(* What is called the sender of a message, and who is replied to, is the   *)
(* contract whose response asked for the message, whatever was squashed,   *)
(* dropped or given up since (current_sender, find_reply).                 *)
THEOREM CallerIsAlwaysEmitter == MessagesSpec => []CallerIsEmitter
<1>1. MessagesInv => CallerIsEmitter
  BY DEF MessagesInv, CallerIsEmitter, Running, Asks, IsReply, Last
<1> QED BY <1>1, MessagesAlways, PTL

\* The search is not cut short by the bound on its turns.
SearchIsOver(levels, error) ==
    FindNext(levels, error).over \/ FindNext(levels, error).levels = <<>>

\* Whatever the run that is next comes to.
SearchesAreOver ==
    Running => /\ SearchIsOver(states, TRUE)
               /\ \A data \in Data \cup {NoData}, msgs \in BoundedSeq(Messages, MaxMsgs) :
                    SearchIsOver(Respond(data, msgs), FALSE)

(* The loop of find_next ends by itself: it comes to what runs next, or    *)
(* leaves no level, within three turns a level.                            *)
THEOREM SearchesAlwaysEnd == MessagesSpec => []SearchesAreOver
<1>1. ASSUME NEW levels, Stack(levels), NEW error \in BOOLEAN
      PROVE  SearchIsOver(levels, error)
  <2>1. PICK found : found = FindNext(levels, error)
    OBVIOUS
  <2>2. Sound(found) /\ (found.over \/ Len(found.levels) = 0)
    BY <1>1, <2>1, SearchEnds
  <2>3. IsSeq(found.levels)
    BY <2>2 DEF Sound, Orderly
  <2>4. Len(found.levels) = 0 => found.levels = <<>>
    BY <2>3, NonEmpty
  <2> QED BY <2>1, <2>2, <2>4 DEF SearchIsOver
<1>2. MessagesInv => SearchesAreOver
  <2> SUFFICES ASSUME MessagesInv, Running
               PROVE  SearchesAreOver
    BY DEF SearchesAreOver
  <2>1. Stack(states) /\ Asks(states, next)
    BY DEF MessagesInv, Running
  <2>2. ASSUME NEW data \in Data \cup {NoData}, NEW msgs \in BoundedSeq(Messages, MaxMsgs)
        PROVE  SearchIsOver(Respond(data, msgs), FALSE)
    BY <1>1, <2>1, RespondIs
  <2> QED BY <1>1, <2>1, <2>2 DEF SearchesAreOver
<1> QED BY <1>2, MessagesAlways, PTL
-----------------------------------------------------------------------------
(* What a level has come to: its responses, its data and its events.       *)

InSeq(e, s) == \E k \in 1..Len(s) : s[k] = e

Increasing(s) == \A i, k \in 1..Len(s) : i < k => s[i] < s[k]

EventsAt(v, i) == v.msgs[i].events

\* The same messages, in whatever states, that have come to the same.
SameResults(w, v) ==
    /\ w.responses = v.responses /\ w.data = v.data
    /\ Len(w.msgs) = Len(v.msgs)
    /\ \A i \in 1..Len(v.msgs) : /\ w.msgs[i].to = v.msgs[i].to
                                 /\ EventsAt(w, i) = EventsAt(v, i)

LEMMA WithStateResults ==
    ASSUME NEW v, Underway(v), NEW s
    PROVE  SameResults(WithState(v, s), v) /\ WithState(v, s).index = v.index
<1>1. PICK msgs : msgs = v.msgs
  OBVIOUS
<1>2. PICK x : x = [v.msgs[v.index] EXCEPT !.state = s]
  OBVIOUS
<1>3. PICK w : w = [v EXCEPT !.msgs = [msgs EXCEPT ![v.index] = x]]
  OBVIOUS
<1>4. w = WithState(v, s)
  BY <1>1, <1>2, <1>3 DEF WithState
<1>5. /\ DOMAIN v = {"emitter", "data", "responses", "msgs", "index"}
      /\ IsSeq(msgs) /\ v.index \in 1..Len(msgs)
      /\ {"to", "state", "events"} \subseteq DOMAIN msgs[v.index]
  BY <1>1 DEF Underway, IsLevel
<1>6. /\ w.responses = v.responses /\ w.data = v.data /\ w.index = v.index
      /\ w.msgs = [msgs EXCEPT ![v.index] = x]
  BY <1>3, <1>5
<1>7. x.to = msgs[v.index].to /\ x.events = msgs[v.index].events
  BY <1>1, <1>2, <1>5
<1>8. Replaced([msgs EXCEPT ![v.index] = x], msgs, v.index, x)
  BY <1>5, ExceptIs, Zenon
<1> QED BY <1>1, <1>4, <1>6, <1>7, <1>8 DEF Replaced, SameResults, EventsAt

LEMMA AdvancedResults ==
    ASSUME NEW v, Underway(v)
    PROVE  SameResults(Advanced(v), v)
<1>1. PICK w : w = Advanced(v)
  OBVIOUS
<1>2. DOMAIN v = {"emitter", "data", "responses", "msgs", "index"}
  BY DEF Underway, IsLevel
<1>3. w.responses = v.responses /\ w.data = v.data /\ w.msgs = v.msgs
  BY <1>1, <1>2 DEF Advanced
<1> QED BY <1>1, <1>3 DEF SameResults, EventsAt

\* The same level, of which the current message has other events.
OtherEvents(w, v, events) ==
    /\ w.index = v.index /\ Len(w.msgs) = Len(v.msgs)
    /\ EventsAt(w, v.index) = events
    /\ \A i \in 1..Len(v.msgs) : /\ w.msgs[i].to = v.msgs[i].to
                                 /\ i # v.index => EventsAt(w, i) = EventsAt(v, i)

LEMMA EventsReplaced ==
    ASSUME NEW v, Underway(v), NEW events, NEW w, w.index = v.index,
           w.msgs = [v.msgs EXCEPT ![v.index] = [v.msgs[v.index] EXCEPT !.events = events]]
    PROVE  OtherEvents(w, v, events)
<1>1. PICK msgs : msgs = v.msgs
  OBVIOUS
<1>2. PICK x : x = [v.msgs[v.index] EXCEPT !.events = events]
  OBVIOUS
<1>3. /\ IsSeq(msgs) /\ v.index \in 1..Len(msgs)
      /\ {"to", "state", "events"} \subseteq DOMAIN msgs[v.index]
  BY <1>1 DEF Underway, IsLevel
<1>4. x.to = msgs[v.index].to /\ x.events = events
  BY <1>1, <1>2, <1>3
<1>5. Replaced([msgs EXCEPT ![v.index] = x], msgs, v.index, x)
  BY <1>3, ExceptIs, Zenon
<1>6. Replaced(w.msgs, v.msgs, v.index, x)
  BY <1>1, <1>2, <1>5
<1> QED BY <1>1, <1>4, <1>6 DEF Replaced, OtherEvents, EventsAt

\* The same responses, with more sent below the last one.
MoreSent(told, responses, more) ==
    LET n == Len(responses)
    IN  /\ Len(told) = n
        /\ \A k \in 1..n : k # n => told[k] = responses[k]
        /\ told[n].sent = responses[n].sent \o more
        /\ told[n].run = responses[n].run

LEMMA WithSquashedResults ==
    ASSUME NEW v, Underway(v), Len(v.responses) > 0, NEW responses, IsSeq(responses),
           NEW events
    PROVE  /\ OtherEvents(WithSquashed(v, responses, events), v,
                          EventsAt(v, v.index) \o events)
           /\ MoreSent(WithSquashed(v, responses, events).responses, v.responses, responses)
           /\ WithSquashed(v, responses, events).data = v.data
<1>1. /\ DOMAIN v = {"emitter", "data", "responses", "msgs", "index"}
      /\ IsSeq(v.responses)
      /\ \A k \in 1..Len(v.responses) : IsResponse(v.responses[k])
  BY DEF Underway, IsLevel
<1>2. PICK n \in Nat : n = Len(v.responses) /\ n > 0
  BY <1>1, SeqIs
<1>3. PICK r : r = AddResponses(v.responses[n], responses)
  OBVIOUS
<1>4. r.sent = v.responses[n].sent \o responses /\ r.run = v.responses[n].run
  <2>1. DOMAIN v.responses[n] = {"run", "address", "sent"}
    BY <1>1, <1>2 DEF IsResponse
  <2> QED BY <1>3, <2>1 DEF AddResponses
<1>5. PICK told : told = [v.responses EXCEPT ![n] = r]
  OBVIOUS
<1>6. Replaced(told, v.responses, n, r)
  <2>1. n \in 1..Len(v.responses)
    BY <1>2
  <2> QED BY <1>1, <1>5, <2>1, ExceptIs, Zenon
<1>7. MoreSent(told, v.responses, responses)
  BY <1>2, <1>4, <1>6 DEF Replaced, MoreSent
<1>8. PICK all : all = v.msgs[v.index].events \o events
  OBVIOUS
<1>9. PICK msgs : msgs = [v.msgs EXCEPT ![v.index] =
                            [v.msgs[v.index] EXCEPT !.events = all]]
  OBVIOUS
<1>10. PICK w : w = [v EXCEPT !.responses = told, !.msgs = msgs]
  OBVIOUS
<1>11. w = WithSquashed(v, responses, events)
  BY <1>2, <1>3, <1>5, <1>8, <1>9, <1>10 DEF WithSquashed
<1>12. /\ w.index = v.index /\ w.data = v.data /\ w.responses = told /\ w.msgs = msgs
  BY <1>1, <1>10
<1>13. OtherEvents(w, v, all)
  BY <1>9, <1>12, EventsReplaced
<1> QED BY <1>7, <1>8, <1>11, <1>12, <1>13 DEF EventsAt

LEMMA WithResponseResults ==
    ASSUME NEW v, Underway(v), NEW run, NEW address
    PROVE  /\ OtherEvents(WithResponse(v, run, address), v,
                          Append(EventsAt(v, v.index), run))
           /\ Appended(WithResponse(v, run, address).responses, v.responses,
                       Response(run, address))
           /\ WithResponse(v, run, address).data = v.data
<1>1. /\ DOMAIN v = {"emitter", "data", "responses", "msgs", "index"}
      /\ IsSeq(v.responses)
  BY DEF Underway, IsLevel
<1>2. PICK told : told = Append(v.responses, Response(run, address))
  OBVIOUS
<1>3. Appended(told, v.responses, Response(run, address))
  BY <1>1, <1>2, AppendIs, Zenon
<1>4. PICK all : all = Append(v.msgs[v.index].events, run)
  OBVIOUS
<1>5. PICK msgs : msgs = [v.msgs EXCEPT ![v.index] =
                            [v.msgs[v.index] EXCEPT !.events = all]]
  OBVIOUS
<1>6. PICK w : w = [v EXCEPT !.msgs = msgs, !.responses = told]
  OBVIOUS
<1>7. w = WithResponse(v, run, address)
  BY <1>2, <1>4, <1>5, <1>6 DEF WithResponse
<1>8. /\ w.index = v.index /\ w.data = v.data /\ w.responses = told /\ w.msgs = msgs
  BY <1>1, <1>6
<1>9. OtherEvents(w, v, all)
  BY <1>5, <1>8, EventsReplaced
<1> QED BY <1>3, <1>4, <1>7, <1>8, <1>9 DEF EventsAt

LEMMA WithoutLastResults ==
    ASSUME NEW v, Underway(v)
    PROVE  /\ WithoutLast(v).responses = Front(v.responses)
           /\ WithoutLast(v).msgs = v.msgs
           /\ WithoutLast(v).index = v.index
           /\ WithoutLast(v).data = v.data
<1>1. DOMAIN v = {"emitter", "data", "responses", "msgs", "index"}
  BY DEF Underway, IsLevel
<1> QED BY <1>1 DEF WithoutLast

LEMMA WithDataResults ==
    ASSUME NEW v, Underway(v), NEW data
    PROVE  /\ WithData(v, data).responses = v.responses
           /\ WithData(v, data).msgs = v.msgs
           /\ WithData(v, data).index = v.index
           /\ WithData(v, data).data = data
<1>1. DOMAIN v = {"emitter", "data", "responses", "msgs", "index"}
  BY DEF Underway, IsLevel
<1> QED BY <1>1 DEF WithData

LEMMA LevelResults ==
    ASSUME NEW emitter, NEW msgs, IsSeq(msgs)
    PROVE  LET v == Level(emitter, msgs)
           IN  /\ v.responses = <<>> /\ v.data = NoData /\ v.index = 1
               /\ Len(v.msgs) = Len(msgs)
               /\ \A i \in 1..Len(msgs) : EventsAt(v, i) = <<>> /\ v.msgs[i].to = msgs[i].to
<1>1. PICK n \in Nat : n = Len(msgs) /\ DOMAIN msgs = 1..n
  BY SeqIs
<1>2. PICK nodes : nodes = [i \in DOMAIN msgs |-> Node(msgs[i])]
  OBVIOUS
<1>3. Len(nodes) = n /\ \A i \in 1..n : nodes[i] = Node(msgs[i])
  <2>1. PICK S : S = {Node(msgs[i]) : i \in 1..n}
    OBVIOUS
  <2>2. nodes \in [1..n -> S]
    BY <1>1, <1>2, <2>1
  <2> QED BY <1>1, <1>2, <2>2
<1>4. PICK v : v = Level(emitter, msgs)
  OBVIOUS
<1>5. v.index = 1 /\ v.msgs = nodes /\ v.responses = <<>> /\ v.data = NoData
  BY <1>2, <1>4 DEF Level
<1>6. \A i \in 1..n : nodes[i].events = <<>> /\ nodes[i].to = msgs[i].to
  BY <1>3 DEF Node
<1> QED BY <1>1, <1>3, <1>4, <1>5, <1>6 DEF EventsAt
-----------------------------------------------------------------------------
(* The events of a level, in order.                                        *)

Before(s, t) == \A i \in 1..Len(s), k \in 1..Len(t) : s[i] < t[k]

LEMMA BeforeIs ==
    ASSUME NEW s, NEW t
    PROVE  Before(s, t) <=> \A e, f : InSeq(e, s) /\ InSeq(f, t) => e < f
BY DEF Before, InSeq

\* Numbers up to r that grow.
Grows(s, r) == s \in Seq(1..r) /\ Increasing(s)

LEMMA Joined ==
    ASSUME NEW r \in Nat, NEW s, Grows(s, r), NEW t, Grows(t, r), Before(s, t)
    PROVE  /\ Grows(s \o t, r)
           /\ \A e : InSeq(e, s \o t) <=> InSeq(e, s) \/ InSeq(e, t)
<1>1. PICK n \in Nat, m \in Nat : n = Len(s) /\ m = Len(t)
  BY DEF Grows
<1>2. PICK u : u = s \o t
  OBVIOUS
<1>3. /\ u \in Seq(1..r) /\ Len(u) = n + m
      /\ \A k \in 1..n : u[k] = s[k]
      /\ \A k \in 1..m : u[n + k] = t[k]
  BY <1>1, <1>2 DEF Grows
<1>4. \A k \in 1..(n + m) : k \in 1..n \/ (k - n \in 1..m /\ u[k] = t[k - n])
  <2> SUFFICES ASSUME NEW k \in 1..(n + m), k \notin 1..n
               PROVE  k - n \in 1..m /\ u[k] = t[k - n]
    OBVIOUS
  <2>1. k - n \in 1..m /\ n + (k - n) = k
    OBVIOUS
  <2> QED BY <1>3, <2>1
<1>5. ASSUME NEW i \in 1..(n + m), NEW k \in 1..(n + m), i < k
      PROVE  u[i] < u[k]
  <2>1. CASE k \in 1..n
    <3>1. i \in 1..n
      BY <1>5, <2>1
    <3> QED BY <1>1, <1>3, <1>5, <2>1, <3>1 DEF Grows, Increasing
  <2>2. CASE k \notin 1..n /\ i \in 1..n
    BY <1>1, <1>3, <1>4, <2>2 DEF Before
  <2>3. CASE k \notin 1..n /\ i \notin 1..n
    <3>1. i - n < k - n
      BY <1>5
    <3> QED BY <1>1, <1>4, <2>3, <3>1 DEF Grows, Increasing
  <2> QED BY <2>1, <2>2, <2>3
<1>6. Grows(u, r)
  BY <1>3, <1>5 DEF Grows, Increasing
<1>7. ASSUME NEW e
      PROVE  InSeq(e, u) <=> InSeq(e, s) \/ InSeq(e, t)
  <2>1. InSeq(e, u) => InSeq(e, s) \/ InSeq(e, t)
    BY <1>1, <1>3, <1>4 DEF InSeq
  <2>2. InSeq(e, s) => InSeq(e, u)
    BY <1>1, <1>3 DEF InSeq
  <2>3. InSeq(e, t) => InSeq(e, u)
    <3> SUFFICES ASSUME NEW k \in 1..m, t[k] = e
                 PROVE  InSeq(e, u)
      BY <1>1 DEF InSeq
    <3>1. n + k \in 1..(n + m) /\ u[n + k] = e
      BY <1>3
    <3> QED BY <1>3, <3>1 DEF InSeq
  <2> QED BY <2>1, <2>2, <2>3
<1> QED BY <1>2, <1>6, <1>7

LEMMA EmptyGrows ==
    ASSUME NEW r \in Nat
    PROVE  /\ Grows(<<>>, r) /\ \A e : ~InSeq(e, <<>>)
           /\ \A s : Before(s, <<>>) /\ Before(<<>>, s)
<1>1. <<>> \in Seq(1..r) /\ Len(<<>>) = 0
  OBVIOUS
<1> QED BY <1>1 DEF Grows, Increasing, InSeq, Before

(* The loop of FlattenSeq.                                                 *)
IsFlatten(n, seqs, f) ==
    f = [i \in 1..n |-> IF i = 1 THEN seqs[i] ELSE f[i - 1] \o seqs[i]]

LEMMA FlattenIsChosen ==
    ASSUME NEW seqs, Len(seqs) # 0
    PROVE  FlattenSeq(seqs) = (CHOOSE f : IsFlatten(Len(seqs), seqs, f))[Len(seqs)]
BY DEF FlattenSeq, IsFlatten

LEMMA FlattenExists ==
    ASSUME NEW n \in Nat, n > 0, NEW seqs
    PROVE  \E f : IsFlatten(n, seqs, f)
<1> DEFINE G == {k \in 1..n : \E f : IsFlatten(k, seqs, f)}
<1>1. 1 \in G
  <2>1. PICK f : f = [i \in 1..1 |-> seqs[1]]
    OBVIOUS
  <2>2. f = [i \in 1..1 |-> IF i = 1 THEN seqs[i] ELSE f[i - 1] \o seqs[i]]
    BY <2>1
  <2>3. IsFlatten(1, seqs, f)
    BY <2>2 DEF IsFlatten
  <2> QED BY <2>3
<1>2. ASSUME NEW i \in 1..n, i > 1, i - 1 \in G
      PROVE  i \in G
  <2>1. PICK f : IsFlatten(i - 1, seqs, f)
    BY <1>2
  <2>2. PICK x : x = f[i - 1] \o seqs[i]
    OBVIOUS
  <2>3. PICK g : g = [k \in 1..i |-> IF k = i THEN x ELSE f[k]]
    OBVIOUS
  <2>4. ASSUME NEW k \in 1..i
        PROVE  g[k] = IF k = 1 THEN seqs[k] ELSE g[k - 1] \o seqs[k]
    <3>1. CASE k = i
      <4>1. k - 1 \in 1..i /\ k - 1 # i /\ k # 1
        BY <1>2, <3>1
      <4>2. g[k - 1] = f[i - 1] /\ g[k] = x
        BY <2>3, <3>1, <4>1
      <4> QED BY <2>2, <3>1, <4>1, <4>2
    <3>2. CASE k # i /\ k = 1
      <4>1. k \in 1..(i - 1)
        BY <3>2
      <4>2. f[k] = seqs[k]
        BY <2>1, <3>2, <4>1 DEF IsFlatten
      <4> QED BY <2>3, <3>2, <4>2
    <3>3. CASE k # i /\ k # 1
      <4>1. k \in 1..(i - 1) /\ k - 1 \in 1..i /\ k - 1 # i
        BY <3>3
      <4>2. f[k] = f[k - 1] \o seqs[k]
        BY <2>1, <3>3, <4>1 DEF IsFlatten
      <4>3. g[k] = f[k] /\ g[k - 1] = f[k - 1]
        BY <2>3, <3>3, <4>1
      <4> QED BY <3>3, <4>2, <4>3
    <3> QED BY <3>1, <3>2, <3>3
  <2>5. g = [k \in 1..i |-> g[k]]
    BY <2>3
  <2>6. IsFlatten(i, seqs, g)
    BY <2>4, <2>5 DEF IsFlatten
  <2> QED BY <2>6
<1> HIDE DEF G
<1>3. 1 \in 0..n
  OBVIOUS
<1>4. \A i \in 1..n : i \in G
  BY <1>1, <1>2, <1>3, StepByStep
<1>5. n \in G
  BY <1>4
<1> QED BY <1>5 DEF G

\* The events of a level: those of a message come before those of the next.
OrderedLevel(v, r) ==
    /\ \A i \in 1..Len(v.msgs) : /\ Grows(EventsAt(v, i), r)
                                 /\ i > v.index => EventsAt(v, i) = <<>>
    /\ \A i, k \in 1..Len(v.msgs) : i < k => Before(EventsAt(v, i), EventsAt(v, k))

In(e, v) == \E i \in 1..Len(v.msgs) : InSeq(e, EventsAt(v, i))

\* The events of the first i messages.
FirstEvents(s, v, i, r) ==
    Grows(s, r) /\ \A e : InSeq(e, s) <=> \E k \in 1..i : InSeq(e, EventsAt(v, k))

LEMMA EventsOfIs ==
    ASSUME NEW r \in Nat, NEW v, IsSeq(v.msgs), Len(v.msgs) > 0, OrderedLevel(v, r)
    PROVE  /\ Grows(EventsOf(v), r)
           /\ \A e : InSeq(e, EventsOf(v)) <=> In(e, v)
<1>1. PICK n \in Nat : n = Len(v.msgs) /\ n > 0 /\ DOMAIN v.msgs = 1..n
  BY SeqIs
<1>2. PICK seqs : seqs = [i \in DOMAIN v.msgs |-> v.msgs[i].events]
  OBVIOUS
<1>3. Len(seqs) = n /\ \A i \in 1..n : seqs[i] = EventsAt(v, i)
  <2>1. PICK S : S = {v.msgs[i].events : i \in 1..n}
    OBVIOUS
  <2>2. seqs \in [1..n -> S]
    BY <1>1, <1>2, <2>1
  <2> QED BY <1>1, <1>2, <2>2 DEF EventsAt
<1>4. PICK f : IsFlatten(n, seqs, f) /\ EventsOf(v) = f[n]
  <2>1. PICK f : f = (CHOOSE g : IsFlatten(n, seqs, g))
    OBVIOUS
  <2>2. IsFlatten(n, seqs, f)
    BY <1>1, <2>1, FlattenExists
  <2>3. EventsOf(v) = f[n]
    <3>1. EventsOf(v) = FlattenSeq(seqs)
      BY <1>2 DEF EventsOf
    <3>2. Len(seqs) # 0
      BY <1>1, <1>3
    <3>3. FlattenSeq(seqs) = (CHOOSE g : IsFlatten(Len(seqs), seqs, g))[Len(seqs)]
      BY <3>2, FlattenIsChosen
    <3> QED BY <1>3, <2>1, <3>1, <3>3
  <2> QED BY <2>2, <2>3
<1> DEFINE G == {i \in 1..n : FirstEvents(f[i], v, i, r)}
<1>5. 1 \in G
  <2>1. f[1] = EventsAt(v, 1)
    BY <1>1, <1>3, <1>4 DEF IsFlatten
  <2>2. Grows(EventsAt(v, 1), r)
    BY <1>1 DEF OrderedLevel
  <2>3. \A k \in 1..1 : k = 1
    OBVIOUS
  <2> QED BY <1>1, <2>1, <2>2, <2>3 DEF FirstEvents
<1>6. ASSUME NEW i \in 1..n, i > 1, i - 1 \in G
      PROVE  i \in G
  <2>1. PICK s, t : s = f[i - 1] /\ t = EventsAt(v, i)
    OBVIOUS
  <2>2. f[i] = s \o t
    <3>1. f[i] = IF i = 1 THEN seqs[i] ELSE f[i - 1] \o seqs[i]
      BY <1>4 DEF IsFlatten
    <3>2. seqs[i] = t
      BY <1>3, <2>1
    <3> QED BY <1>6, <2>1, <3>1, <3>2
  <2>3. FirstEvents(s, v, i - 1, r)
    BY <1>6, <2>1
  <2>4. Grows(t, r)
    BY <1>1, <2>1 DEF OrderedLevel
  <2>5. Before(s, t)
    <3> SUFFICES ASSUME NEW e, NEW g, InSeq(e, s), InSeq(g, t)
                 PROVE  e < g
      BY BeforeIs
    <3>1. PICK k \in 1..(i - 1) : InSeq(e, EventsAt(v, k))
      BY <2>3 DEF FirstEvents
    <3>2. k \in 1..n /\ k < i
      BY <3>1
    <3>3. Before(EventsAt(v, k), EventsAt(v, i))
      BY <1>1, <3>2 DEF OrderedLevel
    <3> QED BY <2>1, <3>1, <3>3, BeforeIs
  <2>6. /\ Grows(s \o t, r)
        /\ \A e : InSeq(e, s \o t) <=> InSeq(e, s) \/ InSeq(e, t)
    BY <2>3, <2>4, <2>5, Joined DEF FirstEvents
  <2>7. \A k : k \in 1..i <=> k \in 1..(i - 1) \/ k = i
    OBVIOUS
  <2>8. FirstEvents(f[i], v, i, r)
    BY <2>1, <2>2, <2>3, <2>6, <2>7 DEF FirstEvents
  <2> QED BY <2>8
<1> HIDE DEF G
<1>7. 1 \in 0..n
  BY <1>1
<1>8. n \in G
  <2>1. \A i \in 1..n : i \in G
    BY <1>5, <1>6, <1>7, StepByStep
  <2> QED BY <1>1, <2>1
<1> QED BY <1>1, <1>4, <1>8 DEF G, FirstEvents, In
-----------------------------------------------------------------------------
(* What a stack has come to.                                               *)

Counted(levels) ==
    IsSeq(levels) /\ \A j \in 1..Len(levels) : IsSeq(levels[j].responses)

\* The responses of the first k levels.
Upto(levels, k) ==
    SumFunctionOnSet([j \in 1..Len(levels) |-> Len(levels[j].responses)], 1..k)

LEMMA UptoIs ==
    ASSUME NEW levels, Counted(levels), NEW k \in 1..Len(levels)
    PROVE  /\ Upto(levels, k - 1) \in Nat /\ Upto(levels, k) \in Nat
           /\ Upto(levels, k) = Upto(levels, k - 1) + Len(levels[k].responses)
<1>1. PICK n \in Nat : n = Len(levels)
  BY SeqIs DEF Counted
<1>2. PICK f : f = [j \in 1..n |-> Len(levels[j].responses)]
  OBVIOUS
<1>3. \A j \in 1..n : f[j] = Len(levels[j].responses) /\ f[j] \in Nat
  BY <1>1, <1>2, SeqIs DEF Counted
<1>4. k \in 1..n
  BY <1>1
<1>5. /\ SumFunctionOnSet(f, 1..(k - 1)) \in Nat
      /\ SumFunctionOnSet(f, 1..k) = SumFunctionOnSet(f, 1..(k - 1)) + f[k]
  BY <1>3, <1>4, SumUpTo
<1> QED BY <1>1, <1>2, <1>3, <1>4, <1>5 DEF Upto

LEMMA UptoSame ==
    ASSUME NEW levels, Counted(levels), NEW t, Counted(t),
           NEW k \in Nat, k <= Len(levels), k <= Len(t),
           \A j \in 1..k : Len(t[j].responses) = Len(levels[j].responses)
    PROVE  Upto(t, k) = Upto(levels, k)
<1>1. PICK n \in Nat, m \in Nat : n = Len(levels) /\ m = Len(t)
  BY SeqIs DEF Counted
<1>2. PICK f : f = [j \in 1..n |-> Len(levels[j].responses)]
  OBVIOUS
<1>3. PICK g : g = [j \in 1..m |-> Len(t[j].responses)]
  OBVIOUS
<1>4. \A j \in 1..k : j \in 1..n /\ j \in 1..m
  BY <1>1
<1>5. \A j \in 1..k : f[j] \in Int /\ f[j] = g[j]
  BY <1>1, <1>2, <1>3, <1>4, SeqIs DEF Counted
<1>6. SumFunctionOnSet(f, 1..k) = SumFunctionOnSet(g, 1..k)
  BY <1>5, UpTo, SumSame
<1> QED BY <1>1, <1>2, <1>3, <1>6 DEF Upto

\* No response has responses below it.
Flat(v) == \A k \in 1..Len(v.responses) : v.responses[k].sent = <<>>

FlatAbove(levels, m) == \A j \in 1..Len(levels) : j > m => Flat(levels[j])

LastFlat(v) == Last(v.responses).sent = <<>>

Waiting(v) == StateAt(v, v.index) = "ShouldReply"

\* An event of the current message of level m, or of what that has caused.
Since(e, levels, m) ==
    \/ InSeq(e, EventsAt(levels[m], levels[m].index))
    \/ \E j \in 1..Len(levels) : j > m /\ In(e, levels[j])

(* What is known of a message that has run and waits for its reply: the    *)
(* scopes opened since it began are its own and one for each response of   *)
(* the levels above; the data is what its reply is due; and the runs since *)
(* it began that count are its events and those of the levels above.       *)
Scoped(levels, m, open, began) ==
    m < Len(levels) /\ FlatAbove(levels, m) =>
        Len(open) = began[m].scopes + 1 + Upto(levels, Len(levels)) - Upto(levels, m)

HasData(levels, m, began) == levels[m].data = began[m].data

Counts(levels, m, open, began) ==
    \A i \in 1..Len(open) : Since(open[i], levels, m) <=> i > began[m].scopes

Accounted(levels, m, open, began) ==
    Scoped(levels, m, open, began) /\ HasData(levels, m, began)
                                   /\ Counts(levels, m, open, began)

LEMMA AccountedKept ==
    ASSUME NEW levels, Counted(levels), NEW t, Counted(t), Len(t) = Len(levels),
           \A j \in 1..Len(levels) : SameResults(t[j], levels[j]),
           NEW m \in 1..Len(levels), t[m].index = levels[m].index,
           levels[m].index \in 1..Len(levels[m].msgs),
           NEW open, NEW began, Accounted(levels, m, open, began)
    PROVE  Accounted(t, m, open, began)
<1>1. PICK n \in Nat : n = Len(levels) /\ n = Len(t)
  BY SeqIs DEF Counted
<1>2. Scoped(t, m, open, began)
  <2>1. \A k \in 0..n : Upto(t, k) = Upto(levels, k)
    <3> SUFFICES ASSUME NEW k \in 0..n
                 PROVE  Upto(t, k) = Upto(levels, k)
      OBVIOUS
    <3>1. \A j \in 1..k : Len(t[j].responses) = Len(levels[j].responses)
      BY <1>1 DEF SameResults
    <3> QED BY <1>1, <3>1, UptoSame
  <2>2. Upto(t, n) = Upto(levels, n) /\ Upto(t, m) = Upto(levels, m)
    BY <1>1, <2>1
  <2>3. FlatAbove(t, m) => FlatAbove(levels, m)
    BY <1>1 DEF FlatAbove, Flat, SameResults
  <2> QED BY <1>1, <2>2, <2>3 DEF Accounted, Scoped
<1>3. HasData(t, m, began)
  BY DEF Accounted, HasData, SameResults
<1>4. \A e : Since(e, t, m) <=> Since(e, levels, m)
  <2>1. \A e : \A j \in 1..n : In(e, t[j]) <=> In(e, levels[j])
    BY <1>1 DEF In, SameResults
  <2>2. EventsAt(t[m], t[m].index) = EventsAt(levels[m], levels[m].index)
    BY DEF SameResults
  <2> QED BY <1>1, <2>1, <2>2 DEF Since
<1>5. Counts(t, m, open, began)
  BY <1>4 DEF Accounted, Counts
<1> QED BY <1>2, <1>3, <1>5 DEF Accounted

\* The last level of n, in the message of the one below.
SquashedInto(t, levels, n) ==
    LET v == levels[n - 1]
        w == t[n - 1]
    IN  /\ Counted(t) /\ Len(t) = n - 1
        /\ \A m \in 1..(n - 1) : m # n - 1 => t[m] = levels[m]
        /\ w.data = v.data
        /\ MoreSent(w.responses, v.responses, levels[n].responses)
        /\ OtherEvents(w, v, EventsAt(v, v.index) \o EventsOf(levels[n]))

\* Its events come after those of the message.
Ordered(levels, r) ==
    /\ \A m \in 1..Len(levels) : OrderedLevel(levels[m], r)
    /\ \A m, j \in 1..Len(levels) : m < j =>
         \A i \in 1..Len(levels[m].msgs), k \in 1..Len(levels[j].msgs) :
           Before(EventsAt(levels[m], i), EventsAt(levels[j], k))

Precedes(v, w) == \A e, f : In(e, v) /\ In(f, w) => e < f

LEMMA OrderedIs ==
    ASSUME NEW levels, NEW r
    PROVE  Ordered(levels, r) <=>
             /\ \A m \in 1..Len(levels) : OrderedLevel(levels[m], r)
             /\ \A m, j \in 1..Len(levels) : m < j => Precedes(levels[m], levels[j])
<1>1. ASSUME NEW v, NEW w
      PROVE  Precedes(v, w) <=>
               \A i \in 1..Len(v.msgs), k \in 1..Len(w.msgs) :
                 Before(EventsAt(v, i), EventsAt(w, k))
  <2>1. ASSUME Precedes(v, w), NEW i \in 1..Len(v.msgs), NEW k \in 1..Len(w.msgs)
        PROVE  Before(EventsAt(v, i), EventsAt(w, k))
    BY <2>1, BeforeIs DEF Precedes, In
  <2>2. ASSUME \A i \in 1..Len(v.msgs), k \in 1..Len(w.msgs) :
                 Before(EventsAt(v, i), EventsAt(w, k)),
               NEW e, NEW f, In(e, v), In(f, w)
        PROVE  e < f
    <3>1. PICK i \in 1..Len(v.msgs) : InSeq(e, EventsAt(v, i))
      BY <2>2 DEF In
    <3>2. PICK k \in 1..Len(w.msgs) : InSeq(f, EventsAt(w, k))
      BY <2>2 DEF In
    <3>3. Before(EventsAt(v, i), EventsAt(w, k))
      BY <2>2
    <3> QED BY <3>1, <3>2, <3>3, BeforeIs
  <2> QED BY <2>1, <2>2 DEF Precedes
<1> QED BY <1>1 DEF Ordered

\* The events of the message that the last level is squashed into.
LEMMA SquashedEvents ==
    ASSUME NEW r \in Nat, NEW levels, NEW n \in Nat, n = Len(levels), n > 1,
           Ordered(levels, r), IsSeq(levels[n].msgs), Len(levels[n].msgs) > 0,
           levels[n - 1].index \in 1..Len(levels[n - 1].msgs)
    PROVE  LET v == levels[n - 1]
               events == EventsAt(v, v.index) \o EventsOf(levels[n])
           IN  /\ Grows(events, r)
               /\ \A e : InSeq(e, events) <=> InSeq(e, EventsAt(v, v.index))
                                              \/ In(e, levels[n])
<1>1. PICK v, w : v = levels[n - 1] /\ w = levels[n]
  OBVIOUS
<1>2. PICK s, q : s = EventsAt(v, v.index) /\ q = EventsOf(w)
  OBVIOUS
<1>3. OrderedLevel(v, r) /\ OrderedLevel(w, r) /\ Precedes(v, w)
  BY <1>1, OrderedIs
<1>4. Grows(q, r) /\ \A e : InSeq(e, q) <=> In(e, w)
  BY <1>1, <1>2, <1>3, EventsOfIs
<1>5. Grows(s, r)
  BY <1>1, <1>2, <1>3 DEF OrderedLevel
<1>6. Before(s, q)
  <2> SUFFICES ASSUME NEW e, NEW f, InSeq(e, s), InSeq(f, q)
               PROVE  e < f
    BY BeforeIs
  <2>1. In(e, v) /\ In(f, w)
    BY <1>1, <1>2, <1>4 DEF In
  <2> QED BY <1>3, <2>1 DEF Precedes
<1>7. /\ Grows(s \o q, r)
      /\ \A e : InSeq(e, s \o q) <=> InSeq(e, s) \/ InSeq(e, q)
  BY <1>4, <1>5, <1>6, Joined
<1> QED BY <1>1, <1>2, <1>4, <1>7

LEMMA AccountedSquashed ==
    ASSUME NEW r \in Nat, NEW levels, Counted(levels), NEW n \in Nat, n = Len(levels), n > 1,
           Ordered(levels, r), IsSeq(levels[n].msgs), Len(levels[n].msgs) > 0,
           levels[n - 1].index \in 1..Len(levels[n - 1].msgs),
           Len(levels[n - 1].responses) > 0,
           IsSeq(Last(levels[n - 1].responses).sent),
           NEW t, SquashedInto(t, levels, n),
           NEW m \in 1..(n - 1), NEW open, NEW began, Accounted(levels, m, open, began)
    PROVE  Accounted(t, m, open, began)
<1>1. PICK p \in Nat : p = n - 1 /\ p > 0 /\ p \in 1..n
  OBVIOUS
<1>2. PICK v, w, more : v = levels[p] /\ w = t[p] /\ more = levels[n].responses
  OBVIOUS
<1>3. /\ Counted(t) /\ Len(t) = p
      /\ \A j \in 1..p : j # p => t[j] = levels[j]
      /\ w.data = v.data /\ MoreSent(w.responses, v.responses, more)
      /\ OtherEvents(w, v, EventsAt(v, v.index) \o EventsOf(levels[n]))
  BY <1>1, <1>2 DEF SquashedInto
<1>4. PICK q \in Nat : q = Len(v.responses) /\ q > 0 /\ Len(w.responses) = q
  BY <1>1, <1>2, <1>3, SeqIs DEF Counted, MoreSent
<1>5. Scoped(t, m, open, began)
  <2> SUFFICES ASSUME m < p, FlatAbove(t, m)
               PROVE  Len(open) = began[m].scopes + 1 + Upto(t, p) - Upto(t, m)
    BY <1>3 DEF Scoped
  <2>1. Flat(w)
    <3>1. p \in 1..Len(t) /\ w = t[p]
      BY <1>1, <1>2, <1>3
    <3>2. \A j \in 1..Len(t) : j > m => Flat(t[j])
      BY DEF FlatAbove
    <3>3. p > m
      BY <1>1
    <3> QED BY <3>1, <3>2, <3>3
  <2>2. v.responses[q].sent \o more = <<>>
    <3>1. w.responses[q].sent = v.responses[q].sent \o more
      BY <1>3, <1>4 DEF MoreSent
    <3>2. w.responses[q].sent = <<>>
      BY <1>4, <2>1 DEF Flat
    <3> QED BY <3>1, <3>2
  <2>3. IsSeq(more) /\ IsSeq(v.responses[q].sent)
    BY <1>1, <1>2, <1>4 DEF Counted, Last
  <2>4. Len(more) = 0 /\ v.responses[q].sent = <<>>
    <3>1. Len(v.responses[q].sent \o more) = Len(v.responses[q].sent) + Len(more)
      BY <2>3, JoinIs
    <3>2. Len(v.responses[q].sent) \in Nat /\ Len(more) \in Nat
      BY <2>3, SeqIs
    <3>3. Len(more) = 0 /\ Len(v.responses[q].sent) = 0
      BY <2>2, <3>1, <3>2, EmptyIs
    <3> QED BY <2>3, <3>3, NonEmpty
  <2>5. Flat(v)
    BY <1>3, <1>4, <2>1, <2>4 DEF Flat, MoreSent
  <2>6. Flat(levels[n])
    BY <1>2, <2>4 DEF Flat
  <2>7. FlatAbove(levels, m)
    <3> SUFFICES ASSUME NEW j \in 1..n, j > m
                 PROVE  Flat(levels[j])
      BY DEF FlatAbove
    <3>1. CASE j = n \/ j = p
      BY <1>2, <2>5, <2>6, <3>1
    <3>2. CASE j # n /\ j # p
      <4>1. j \in 1..p
        BY <1>1, <3>2
      <4>2. t[j] = levels[j]
        BY <1>3, <3>2, <4>1
      <4> QED BY <1>3, <4>1, <4>2 DEF FlatAbove
    <3> QED BY <3>1, <3>2
  <2>8. Len(open) = began[m].scopes + 1 + Upto(levels, n) - Upto(levels, m)
    BY <2>7 DEF Accounted, Scoped
  <2>9. Upto(levels, n) = Upto(levels, p)
    <3>1. n \in 1..n /\ p = n - 1
      BY <1>1
    <3>2. n \in 1..Len(levels)
      BY <3>1
    <3>3. /\ Upto(levels, n - 1) \in Nat
          /\ Upto(levels, n) = Upto(levels, n - 1) + Len(levels[n].responses)
      BY <3>2, UptoIs
    <3> QED BY <1>2, <2>4, <3>1, <3>3
  <2>10. \A j \in 1..p : Len(t[j].responses) = Len(levels[j].responses)
    BY <1>2, <1>3, <1>4
  <2>11. Upto(t, p) = Upto(levels, p) /\ Upto(t, m) = Upto(levels, m)
    <3>1. p <= Len(levels) /\ p <= Len(t) /\ m \in Nat /\ m <= Len(levels) /\ m <= Len(t)
      BY <1>1, <1>3
    <3>2. \A j \in 1..m : j \in 1..p
      BY <1>1
    <3>3. Upto(t, p) = Upto(levels, p)
      BY <1>3, <2>10, <3>1, UptoSame
    <3>4. Upto(t, m) = Upto(levels, m)
      BY <1>3, <2>10, <3>1, <3>2, UptoSame
    <3> QED BY <3>3, <3>4
  <2> QED BY <2>8, <2>9, <2>11
<1>6. HasData(t, m, began)
  <2>1. CASE m = p
    <3>1. w.index = v.index /\ w.msgs[v.index].to = v.msgs[v.index].to
      BY <1>1, <1>2, <1>3 DEF OtherEvents
    <3> QED BY <1>2, <1>3, <2>1, <3>1 DEF Accounted, HasData
  <2>2. CASE m # p
    <3>1. t[m] = levels[m]
      BY <1>1, <1>3, <2>2
    <3> QED BY <3>1 DEF Accounted, HasData
  <2> QED BY <2>1, <2>2
<1>7. \A e : Since(e, t, m) <=> Since(e, levels, m)
  <2> SUFFICES ASSUME NEW e
               PROVE  Since(e, t, m) <=> Since(e, levels, m)
    OBVIOUS
  <2>1. PICK s : s = EventsAt(v, v.index) \o EventsOf(levels[n])
    OBVIOUS
  <2>2. InSeq(e, s) <=> InSeq(e, EventsAt(v, v.index)) \/ In(e, levels[n])
    BY <1>1, <1>2, <2>1, SquashedEvents
  <2>3. /\ w.index = v.index /\ Len(w.msgs) = Len(v.msgs) /\ EventsAt(w, v.index) = s
        /\ \A i \in 1..Len(v.msgs) : i # v.index => EventsAt(w, i) = EventsAt(v, i)
    BY <1>3, <2>1 DEF OtherEvents
  <2>4. v.index \in 1..Len(v.msgs)
    BY <1>1, <1>2
  <2>5. In(e, w) <=> In(e, v) \/ In(e, levels[n])
    BY <2>2, <2>3, <2>4 DEF In
  <2>6. CASE m = p
    <3>1. ~\E j \in 1..p : j > p
      BY <1>1
    <3>2. \A j \in 1..n : j > p <=> j = n
      BY <1>1
    <3> QED BY <1>1, <1>2, <1>3, <2>2, <2>3, <2>6, <3>1, <3>2 DEF Since
  <2>7. CASE m # p
    <3>1. t[m] = levels[m] /\ p > m /\ n > m
      BY <1>1, <1>3, <2>7
    <3>2. (\E j \in 1..p : j > m /\ In(e, t[j])) <=> (\E j \in 1..n : j > m /\ In(e, levels[j]))
      <4>1. ASSUME NEW j \in 1..p, j > m, In(e, t[j])
            PROVE  \E k \in 1..n : k > m /\ In(e, levels[k])
        <5>1. CASE j = p
          BY <1>1, <1>2, <2>5, <3>1, <4>1, <5>1
        <5>2. CASE j # p
          <6>1. j \in 1..n /\ t[j] = levels[j]
            BY <1>1, <1>3, <5>2
          <6> QED BY <4>1, <6>1
        <5> QED BY <5>1, <5>2
      <4>2. ASSUME NEW j \in 1..n, j > m, In(e, levels[j])
            PROVE  \E k \in 1..p : k > m /\ In(e, t[k])
        <5>1. CASE j = p \/ j = n
          <6>1. In(e, t[p]) /\ p \in 1..p
            BY <1>1, <1>2, <2>5, <4>2, <5>1
          <6> QED BY <3>1, <6>1
        <5>2. CASE j # p /\ j # n
          <6>1. j \in 1..p /\ t[j] = levels[j]
            BY <1>1, <1>3, <5>2
          <6> QED BY <4>2, <6>1
        <5> QED BY <5>1, <5>2
      <4> QED BY <4>1, <4>2
    <3> QED BY <1>3, <3>1, <3>2 DEF Since
  <2> QED BY <2>6, <2>7
<1>8. Counts(t, m, open, began)
  BY <1>7 DEF Accounted, Counts
<1> QED BY <1>5, <1>6, <1>8 DEF Accounted
-----------------------------------------------------------------------------
(* The same through the search for what runs next.                         *)

LEMMA StackCounted ==
    ASSUME NEW levels, Orderly(levels)
    PROVE  Counted(levels)
BY DEF Orderly, Counted, IsLevel

LEMMA OrderedKept ==
    ASSUME NEW r, NEW levels, NEW t, Ordered(levels, r), Len(t) = Len(levels),
           \A j \in 1..Len(levels) :
             /\ Len(t[j].msgs) = Len(levels[j].msgs)
             /\ \A i \in 1..Len(levels[j].msgs) : EventsAt(t[j], i) = EventsAt(levels[j], i)
             /\ t[j].index \in Nat /\ levels[j].index \in Nat
             /\ t[j].index >= levels[j].index
    PROVE  Ordered(t, r)
<1>1. ASSUME NEW m \in 1..Len(levels)
      PROVE  OrderedLevel(t[m], r)
  <2>1. OrderedLevel(levels[m], r)
    BY DEF Ordered
  <2>2. \A i \in 1..Len(levels[m].msgs) : i > t[m].index => i > levels[m].index
    OBVIOUS
  <2> QED BY <2>1, <2>2 DEF OrderedLevel
<1>2. ASSUME NEW m \in 1..Len(levels), NEW j \in 1..Len(levels), m < j,
             NEW i \in 1..Len(t[m].msgs), NEW k \in 1..Len(t[j].msgs)
      PROVE  Before(EventsAt(t[m], i), EventsAt(t[j], k))
  BY <1>2 DEF Ordered
<1> QED BY <1>1, <1>2 DEF Ordered

LEMMA OrderedSquashed ==
    ASSUME NEW r \in Nat, NEW levels, NEW n \in Nat, n = Len(levels), n > 1,
           Ordered(levels, r), IsSeq(levels[n].msgs), Len(levels[n].msgs) > 0,
           levels[n - 1].index \in 1..Len(levels[n - 1].msgs),
           levels[n - 1].index \in Nat,
           NEW t, SquashedInto(t, levels, n)
    PROVE  Ordered(t, r)
<1>1. PICK p \in Nat : p = n - 1 /\ p > 0 /\ p \in 1..n
  OBVIOUS
<1>2. PICK v, w : v = levels[p] /\ w = t[p]
  OBVIOUS
<1>3. PICK s : s = EventsAt(v, v.index) \o EventsOf(levels[n])
  OBVIOUS
<1>4. /\ Len(t) = p /\ \A j \in 1..p : j # p => t[j] = levels[j]
      /\ w.index = v.index /\ Len(w.msgs) = Len(v.msgs) /\ EventsAt(w, v.index) = s
      /\ \A i \in 1..Len(v.msgs) : i # v.index => EventsAt(w, i) = EventsAt(v, i)
  BY <1>1, <1>2, <1>3 DEF SquashedInto, OtherEvents
<1>5. /\ Grows(s, r)
      /\ \A e : InSeq(e, s) <=> InSeq(e, EventsAt(v, v.index)) \/ In(e, levels[n])
  BY <1>1, <1>2, <1>3, SquashedEvents
<1>6. OrderedLevel(v, r) /\ Precedes(v, levels[n]) /\ v.index \in 1..Len(v.msgs)
      /\ v.index \in Nat
  BY <1>1, <1>2, OrderedIs
<1>7. OrderedLevel(w, r)
  <2>1. ASSUME NEW i \in 1..Len(w.msgs)
        PROVE  Grows(EventsAt(w, i), r) /\ (i > w.index => EventsAt(w, i) = <<>>)
    <3>1. CASE i = v.index
      BY <1>4, <1>5, <1>6, <3>1
    <3>2. CASE i # v.index
      BY <1>4, <1>6, <3>2 DEF OrderedLevel
    <3> QED BY <3>1, <3>2
  <2>2. ASSUME NEW i \in 1..Len(w.msgs), NEW k \in 1..Len(w.msgs), i < k
        PROVE  Before(EventsAt(w, i), EventsAt(w, k))
    <3>1. Before(EventsAt(v, i), EventsAt(v, k))
      BY <1>4, <1>6, <2>2 DEF OrderedLevel
    <3>2. CASE i # v.index /\ k # v.index
      BY <1>4, <3>1, <3>2
    <3>3. CASE i # v.index /\ k = v.index
      <4> SUFFICES ASSUME NEW e, NEW f, InSeq(e, EventsAt(v, i)), InSeq(f, s)
                   PROVE  e < f
        BY <1>4, <3>3, BeforeIs
      <4>1. CASE InSeq(f, EventsAt(v, v.index))
        BY <3>1, <3>3, <4>1, BeforeIs
      <4>2. CASE In(f, levels[n])
        <5>1. In(e, v)
          BY <1>4 DEF In
        <5> QED BY <1>6, <4>2, <5>1 DEF Precedes
      <4> QED BY <1>5, <4>1, <4>2
    <3>4. CASE i = v.index /\ k # v.index
      <4>1. EventsAt(w, k) = <<>>
        BY <1>4, <1>6, <2>2, <3>4 DEF OrderedLevel
      <4> QED BY <4>1, EmptyGrows
    <3> QED BY <2>2, <3>2, <3>3, <3>4
  <2> QED BY <2>1, <2>2 DEF OrderedLevel
<1>8. \A e : In(e, w) <=> In(e, v) \/ In(e, levels[n])
  BY <1>4, <1>5, <1>6 DEF In
<1>9. \A m \in 1..p : OrderedLevel(t[m], r)
  <2> SUFFICES ASSUME NEW m \in 1..p
               PROVE  OrderedLevel(t[m], r)
    OBVIOUS
  <2>1. m \in 1..n
    BY <1>1
  <2> QED BY <1>2, <1>4, <1>7, <2>1 DEF Ordered
<1>10. ASSUME NEW m \in 1..p, NEW j \in 1..p, m < j
       PROVE  Precedes(t[m], t[j])
  <2>1. m \in 1..n /\ j \in 1..n /\ n \in 1..n /\ m < n /\ m # p
    BY <1>1, <1>10
  <2>2. t[m] = levels[m] /\ Precedes(levels[m], levels[j]) /\ Precedes(levels[m], levels[n])
    BY <1>4, <1>10, <2>1, OrderedIs
  <2>3. CASE j # p
    BY <1>4, <2>2, <2>3
  <2>4. CASE j = p
    BY <1>2, <1>8, <2>2, <2>4 DEF Precedes
  <2> QED BY <2>3, <2>4
<1> QED BY <1>4, <1>9, <1>10, OrderedIs

(* What is known of the levels, and of the waiting ones up to `top'.        *)
Books(levels, top, open, began, r) ==
    /\ Ordered(levels, r)
    /\ \A m \in 1..Len(levels) : m < Len(levels) => LastFlat(levels[m])
    /\ \A m \in 1..Len(levels) : m <= top /\ Waiting(levels[m])
                                     => Accounted(levels, m, open, began)

\* The last level in another state, or at another message.
TopMoved(t, levels, n) ==
    /\ Counted(t) /\ Len(t) = n
    /\ \A m \in 1..n : m # n => t[m] = levels[m]
    /\ SameResults(t[n], levels[n])
    /\ t[n].index \in Nat /\ t[n].index >= levels[n].index

LEMMA MovedResults ==
    ASSUME NEW levels, Stack(levels), NEW n \in Nat, n = Len(levels),
           NEW t, TopMoved(t, levels, n)
    PROVE  \A j \in 1..n : SameResults(t[j], levels[j])
BY DEF TopMoved, SameResults

LEMMA AccountedMoved ==
    ASSUME NEW levels, Stack(levels), NEW n \in Nat, n = Len(levels),
           NEW t, TopMoved(t, levels, n), NEW m \in 1..n, t[m].index = levels[m].index,
           NEW open, NEW began, Accounted(levels, m, open, began)
    PROVE  Accounted(t, m, open, began)
<1>1. \A j \in 1..Len(levels) : SameResults(t[j], levels[j])
  BY MovedResults
<1>2. Counted(levels) /\ Counted(t) /\ Len(t) = Len(levels) /\ m \in 1..Len(levels)
  BY StackIsOrderly, StackCounted DEF TopMoved
<1>3. levels[m].index \in 1..Len(levels[m].msgs)
  BY <1>2 DEF Stack, Underway
<1> QED BY <1>1, <1>2, <1>3, AccountedKept

LEMMA BooksMoved ==
    ASSUME NEW levels, Stack(levels), NEW n \in Nat, n = Len(levels), n > 0,
           NEW t, TopMoved(t, levels, n),
           NEW open, NEW began, NEW r, Books(levels, n, open, began, r)
    PROVE  /\ Books(t, n - 1, open, began, r)
           /\ (Waiting(t[n]) => Waiting(levels[n]) /\ t[n].index = levels[n].index)
                => Books(t, n, open, began, r)
<1>1. Ordered(t, r)
  <2>1. ASSUME NEW j \in 1..n
        PROVE  /\ Len(t[j].msgs) = Len(levels[j].msgs)
               /\ \A i \in 1..Len(levels[j].msgs) : EventsAt(t[j], i) = EventsAt(levels[j], i)
               /\ t[j].index \in Nat /\ levels[j].index \in Nat
               /\ t[j].index >= levels[j].index
    <3>1. SameResults(t[j], levels[j])
      BY MovedResults
    <3>2. levels[j].index \in Nat
      BY DEF Stack, Underway, IsLevel
    <3>3. t[j].index \in Nat /\ t[j].index >= levels[j].index
      BY <3>2 DEF TopMoved
    <3> QED BY <3>1, <3>2, <3>3 DEF SameResults
  <2>2. Ordered(levels, r) /\ Len(t) = Len(levels)
    BY DEF Books, TopMoved
  <2> QED BY <2>1, <2>2, OrderedKept
<1>2. \A m \in 1..n : m < n => LastFlat(t[m])
  BY DEF Books, TopMoved
<1>3. ASSUME NEW m \in 1..n, t[m].index = levels[m].index, Waiting(levels[m])
      PROVE  Accounted(t, m, open, began)
  <2>1. Accounted(levels, m, open, began)
    BY <1>3 DEF Books
  <2> QED BY <1>3, <2>1, AccountedMoved
<1>4. \A m \in 1..n : m <= n - 1 => t[m] = levels[m]
  BY DEF TopMoved
<1>5. Len(t) = n
  BY DEF TopMoved
<1>6. Books(t, n - 1, open, began, r)
  BY <1>1, <1>2, <1>3, <1>4, <1>5 DEF Books
<1>7. ASSUME Waiting(t[n]) => (Waiting(levels[n]) /\ t[n].index = levels[n].index)
      PROVE  Books(t, n, open, began, r)
  <2> SUFFICES ASSUME NEW m \in 1..n, Waiting(t[m])
               PROVE  Accounted(t, m, open, began)
    BY <1>1, <1>2, <1>5 DEF Books
  <2>1. CASE m = n
    BY <1>3, <1>7, <2>1
  <2>2. CASE m # n
    <3>1. t[m] = levels[m]
      BY <1>4, <2>2
    <3> QED BY <1>3, <3>1
  <2> QED BY <2>1, <2>2
<1> QED BY <1>6, <1>7
-----------------------------------------------------------------------------
\* The message or reply that runs next: its place in the last level, and what
\* is known of a message whose reply is that it succeeded.
Prepared(levels, found, open, began) ==
    LET n == Len(levels)
        v == levels[n]
    IN  /\ found.type = "reply" <=> StateAt(v, v.index) = "Replying"
        /\ found.type = "reply" /\ ~found.error => Accounted(levels, n, open, began)
        /\ found.type # "reply" => /\ found.to = v.msgs[v.index].to
                                   /\ EventsAt(v, v.index) = <<>>

Fresh(v) == StateAt(v, v.index) = "NotExecuted" => EventsAt(v, v.index) = <<>>

\* What a search has come to, that looks for what is next after a success.
Honest(search, open, began, r) ==
    LET levels == search.levels
        n == Len(levels)
    IN  /\ search.error = FALSE
        /\ ~search.over => /\ Books(levels, n, open, began, r)
                           /\ n > 0 => Fresh(levels[n])
        /\ search.over /\ search.next # Nothing =>
             /\ Books(levels, n - 1, open, began, r)
             /\ Prepared(levels, search.next, open, began)

\* SetState, and what it leaves.
Changed(t, levels, n, s) ==
    /\ Stack(t) /\ TopMoved(t, levels, n)
    /\ t[n].index = levels[n].index
    /\ StateAt(t[n], t[n].index) = s

LEMMA SetStateResults ==
    ASSUME NEW levels, Stack(levels), NEW n \in Nat, n = Len(levels), n > 0,
           NEW s \in MsgStates, s # "NotExecuted"
    PROVE  Changed(SetState(levels, s), levels, n, s)
<1>1. PICK t : t = SetState(levels, s)
  OBVIOUS
<1>2. PICK v, w : v = levels[n] /\ w = WithState(v, s)
  OBVIOUS
<1>3. Underway(v) /\ n \in 1..Len(levels) /\ IsSeq(levels)
  BY <1>2 DEF Stack
<1>4. SameResults(w, v) /\ w.index = v.index
  BY <1>2, <1>3, WithStateResults
<1>5. Replaced([levels EXCEPT ![n] = w], levels, n, w)
  BY <1>3, ExceptIs, Zenon
<1>6. t = [levels EXCEPT ![n] = w]
  BY <1>1, <1>2, SetStateIs
<1>7. Len(t) = n /\ t[n] = w /\ \A m \in 1..n : m # n => t[m] = levels[m]
  BY <1>5, <1>6 DEF Replaced
<1>8. StateSet(SetState(levels, s), levels, s)
  <2>1. Len(levels) > 0
    OBVIOUS
  <2> QED BY <2>1, StateSetIs, Zenon
<1>9. Stack(t) /\ StateAt(t[n], t[n].index) = s
  BY <1>1, <1>7, <1>8 DEF StateSet
<1>10. Counted(t)
  BY <1>9, StackIsOrderly, StackCounted
<1>11. v.index \in Nat
  BY <1>3 DEF Underway, IsLevel
<1>12. TopMoved(t, levels, n)
  BY <1>2, <1>4, <1>7, <1>10, <1>11 DEF TopMoved
<1> QED BY <1>1, <1>2, <1>4, <1>7, <1>9, <1>12 DEF Changed

LEMMA HonestStop ==
    ASSUME NEW search, Sound(search), search.error = FALSE, NEW levels, NEW found,
           NEW open, NEW began, NEW r,
           found # Nothing => /\ Books(levels, Len(levels) - 1, open, began, r)
                              /\ Prepared(levels, found, open, began)
    PROVE  /\ Honest(Stop(search, levels, found), open, began, r)
           /\ \A x : Honest([Stop(search, levels, found) EXCEPT !.thrown = x], open, began, r)
<1>1. PICK t : t = Stop(search, levels, found)
  OBVIOUS
<1>2. /\ DOMAIN t = DOMAIN search /\ t.levels = levels /\ t.error = FALSE
      /\ t.over = TRUE /\ t.next = found
  BY <1>1 DEF Sound, Stop
<1>3. Honest(t, open, began, r)
  BY <1>2 DEF Honest
<1>4. ASSUME NEW x
      PROVE  Honest([t EXCEPT !.thrown = x], open, began, r)
  <2>1. PICK u : u = [t EXCEPT !.thrown = x]
    OBVIOUS
  <2>2. /\ u.levels = levels /\ u.error = FALSE /\ u.over = TRUE /\ u.next = found
    BY <1>2, <2>1 DEF Sound
  <2>3. Honest(u, open, began, r)
    BY <2>2 DEF Honest
  <2> QED BY <2>1, <2>3
<1> QED BY <1>1, <1>3, <1>4

LEMMA HonestResume ==
    ASSUME NEW search, Sound(search), search.error = FALSE, ~search.over,
           NEW levels, NEW open, NEW began, NEW r,
           Books(levels, Len(levels), open, began, r),
           Len(levels) > 0 => Fresh(levels[Len(levels)])
    PROVE  Honest(Resume(search, levels), open, began, r)
<1>1. PICK t : t = Resume(search, levels)
  OBVIOUS
<1>2. t.levels = levels /\ t.error = FALSE /\ t.over = FALSE
  BY <1>1 DEF Sound, Resume
<1> QED BY <1>1, <1>2 DEF Honest

LEMMA HonestNotExecuted ==
    ASSUME NEW search, Sound(search), ~search.over, Len(search.levels) > 0,
           NEW v, v = search.levels[Len(search.levels)], StateAt(v, v.index) = "NotExecuted",
           NEW open, NEW began, NEW r, Honest(search, open, began, r)
    PROVE  Honest(AtNotExecuted(search), open, began, r)
<1>1. PICK levels : levels = search.levels
  OBVIOUS
<1>2. PICK n \in Nat : n = Len(levels) /\ n > 0 /\ v = levels[n]
  BY <1>1, SeqIs DEF Sound, Stack
<1>3. Stack(levels) /\ Books(levels, n, open, began, r) /\ Fresh(v)
  BY <1>1, <1>2 DEF Sound, Honest
<1>4. PICK msg, s : /\ msg = Current(Last(levels))
                    /\ s = IF msg.reply_on = "never" THEN "Done" ELSE "ShouldReply"
  OBVIOUS
<1>5. PICK t : t = SetState(levels, s)
  OBVIOUS
<1>6. Changed(t, levels, n, s) /\ s # "Replying"
  <2>1. s \in MsgStates /\ s # "NotExecuted" /\ s # "Replying"
    BY <1>4 DEF MsgStates
  <2> QED BY <1>2, <1>3, <1>5, <2>1, SetStateResults
<1>7. Books(t, n - 1, open, began, r)
  BY <1>2, <1>3, <1>6, BooksMoved DEF Changed
<1>8. PICK found : found = [type |-> "msg", to |-> msg.to, sender |-> Caller(levels)]
  OBVIOUS
<1>9. found.type = "msg" /\ found.to = v.msgs[v.index].to
  BY <1>2, <1>4, <1>8 DEF Current, Last
<1>10. Prepared(t, found, open, began)
  <2>1. Len(t) = n /\ SameResults(t[n], v) /\ t[n].index = v.index
    BY <1>2, <1>6 DEF Changed, TopMoved
  <2>2. v.index \in 1..Len(v.msgs)
    BY <1>2, <1>3 DEF Stack, Underway
  <2>3. /\ t[n].msgs[v.index].to = v.msgs[v.index].to
        /\ EventsAt(t[n], v.index) = <<>>
    BY <1>3, <2>1, <2>2 DEF SameResults, Fresh
  <2>4. StateAt(t[n], t[n].index) # "Replying"
    BY <1>6 DEF Changed
  <2> QED BY <1>9, <2>1, <2>3, <2>4 DEF Prepared
<1>11. AtNotExecuted(search) = Stop(search, t, found)
  BY <1>1, <1>4, <1>5, <1>8 DEF AtNotExecuted
<1>12. Len(t) = n /\ search.error = FALSE
  BY <1>6 DEF Changed, TopMoved, Honest
<1>13. Books(t, Len(t) - 1, open, began, r)
  BY <1>7, <1>12
<1>14. Honest(Stop(search, t, found), open, began, r)
  BY <1>10, <1>12, <1>13, HonestStop, Zenon
<1> QED BY <1>11, <1>14

LEMMA HonestReplying ==
    ASSUME NEW search, Sound(search), ~search.over, Len(search.levels) > 0,
           NEW v, v = search.levels[Len(search.levels)], StateAt(v, v.index) = "Replying",
           NEW open, NEW began, NEW r, Honest(search, open, began, r)
    PROVE  Honest(Resume(search, SetState(search.levels, "Done")), open, began, r)
<1>1. PICK levels, t : levels = search.levels /\ t = SetState(levels, "Done")
  OBVIOUS
<1>2. PICK n \in Nat : n = Len(levels) /\ n > 0
  BY <1>1, SeqIs DEF Sound, Stack
<1>3. Stack(levels) /\ Books(levels, n, open, began, r) /\ search.error = FALSE
  BY <1>1, <1>2 DEF Sound, Honest
<1>4. Changed(t, levels, n, "Done")
  BY <1>1, <1>2, <1>3, SetStateResults DEF MsgStates
<1>5. ~Waiting(t[n]) /\ Fresh(t[n]) /\ Len(t) = n
  BY <1>4 DEF Changed, TopMoved, Waiting, Fresh
<1>6. Books(t, n, open, began, r)
  BY <1>2, <1>3, <1>4, <1>5, BooksMoved DEF Changed
<1> QED BY <1>1, <1>3, <1>5, <1>6, HonestResume

\* Past the current message, and perhaps past the last one.
MovedPast(t, levels, n) ==
    /\ TopMoved(t, levels, n)
    /\ t[n].index = levels[n].index + 1
    /\ t[n].msgs = levels[n].msgs

LEMMA AdvanceResults ==
    ASSUME NEW levels, Stack(levels), NEW n \in Nat, n = Len(levels), n > 0,
           StateAt(levels[n], levels[n].index) = "Done",
           NEW t, t = [levels EXCEPT ![n].index = @ + 1]
    PROVE  MovedPast(t, levels, n)
<1>1. PICK v, w : v = levels[n] /\ w = Advanced(v)
  OBVIOUS
<1>2. Underway(v) /\ IsSeq(levels) /\ n \in 1..Len(levels)
  BY <1>1 DEF Stack
<1>3. SameResults(w, v)
  BY <1>1, <1>2, AdvancedResults
<1>4. w.index = v.index + 1 /\ v.index \in Nat /\ w.msgs = v.msgs
  <2>1. StateAt(v, v.index) = "Done"
    BY <1>1
  <2> QED BY <1>1, <1>2, <2>1, AdvancedIs DEF Underway, IsLevel
<1>5. t = [levels EXCEPT ![n] = w]
  BY <1>1 DEF Advanced
<1>6. Replaced([levels EXCEPT ![n] = w], levels, n, w)
  BY <1>2, ExceptIs, Zenon
<1>7. Len(t) = n /\ t[n] = w /\ \A m \in 1..n : m # n => t[m] = levels[m]
  BY <1>5, <1>6 DEF Replaced
<1>8. Counted(t)
  <2>1. MovesOn(t, levels, n)
    BY AdvanceIs
  <2> QED BY <2>1, StackCounted DEF MovesOn
<1> QED BY <1>1, <1>3, <1>4, <1>7, <1>8 DEF TopMoved, MovedPast

LEMMA SquashResults ==
    ASSUME NEW levels, Stack(levels), NEW n \in Nat, n = Len(levels), n > 1,
           NEW t, Orderly(t), TopMoved(t, levels, n)
    PROVE  /\ SquashedInto(SquashLatest(t), t, n)
           /\ \A i \in 1..Len(levels[n - 1].msgs) :
                StateAt(SquashLatest(t)[n - 1], i) = StateAt(levels[n - 1], i)
<1>1. PICK below : below = Pop(t)
  OBVIOUS
<1>2. PICK k \in Nat : k = n - 1 /\ k > 0
  OBVIOUS
<1>3. IsSeq(t) /\ Len(t) = n /\ \A m \in 1..n : m # n => t[m] = levels[m]
  BY DEF Orderly, TopMoved
<1>4. IsSeq(below) /\ Len(below) = k /\ \A m \in 1..k : below[m] = t[m]
  BY <1>1, <1>2, <1>3, FrontIs DEF Pop
<1>5. DOMAIN below = 1..k
  BY <1>4, SeqIs
<1>6. PICK v, w, events :
        /\ v = below[k] /\ events = EventsOf(Last(t))
        /\ w = WithSquashed(v, Last(t).responses, events)
  OBVIOUS
<1>7. k \in 1..n /\ k # n /\ k < n /\ Last(t) = t[n]
  BY <1>2, <1>3 DEF Last
<1>8. v = levels[k] /\ v = t[k]
  BY <1>2, <1>3, <1>4, <1>6, <1>7
<1>9. Underway(v) /\ Len(v.responses) > 0
  BY <1>7, <1>8 DEF Stack, Linked
<1>10. IsSeq(t[n].responses)
  BY <1>3, <1>2 DEF Orderly, IsLevel
<1>11. /\ OtherEvents(w, v, EventsAt(v, v.index) \o events)
       /\ MoreSent(w.responses, v.responses, t[n].responses) /\ w.data = v.data
  BY <1>6, <1>7, <1>9, <1>10, WithSquashedResults
<1>12. Alike(v, w)
  BY <1>6, <1>7, <1>9, <1>10, WithSquashedIs
<1>13. PICK f : f = SquashLatest(t)
  OBVIOUS
<1>14. f = [below EXCEPT ![k] = w]
  BY <1>1, <1>2, <1>4, <1>5, <1>6, <1>13, SquashedIs DEF SquashLatest
<1>15. Replaced([below EXCEPT ![k] = w], below, k, w)
  <2>1. k \in 1..Len(below)
    BY <1>2, <1>4
  <2> QED BY <1>4, <2>1, ExceptIs, Zenon
<1>16. IsSeq(f) /\ Len(f) = k /\ f[k] = w /\ \A m \in 1..k : m # k => f[m] = t[m]
  BY <1>4, <1>14, <1>15 DEF Replaced
<1>17. Counted(f)
  <2>1. Stack(f)
    BY <1>2, <1>3, <1>10, <1>13, SquashIs DEF SquashLatest
  <2> QED BY <2>1, StackIsOrderly, StackCounted
<1>18. SquashedInto(f, t, n)
  BY <1>2, <1>6, <1>7, <1>8, <1>11, <1>16, <1>17 DEF SquashedInto
<1>19. \A i \in 1..Len(v.msgs) : StateAt(f[k], i) = StateAt(v, i)
  BY <1>12, <1>16 DEF Alike
<1> QED BY <1>2, <1>8, <1>13, <1>18, <1>19
-----------------------------------------------------------------------------
LEMMA BooksSquashed ==
    ASSUME NEW levels, Stack(levels), NEW n \in Nat, n = Len(levels), n > 1,
           NEW t, Orderly(t), TopMoved(t, levels, n),
           NEW open, NEW began, NEW r \in Nat, Books(levels, n, open, began, r)
    PROVE  /\ Books(SquashLatest(t), n - 1, open, began, r)
           /\ Len(SquashLatest(t)) = n - 1
           /\ Fresh(SquashLatest(t)[n - 1])
<1>1. PICK f : f = SquashLatest(t)
  OBVIOUS
<1>2. PICK k \in Nat : k = n - 1 /\ k > 0 /\ k \in 1..n /\ k < n
  OBVIOUS
<1>3. /\ SquashedInto(f, t, n)
      /\ \A i \in 1..Len(levels[k].msgs) : StateAt(f[k], i) = StateAt(levels[k], i)
  BY <1>1, <1>2, SquashResults
<1>4. Underway(levels[k]) /\ Linked(levels[k], levels[n]) /\ Started(levels[k])
  <2>1. k + 1 = n
    BY <1>2
  <2> QED BY <1>2, <2>1 DEF Stack
<1>5. \A j \in 1..k : j \in 1..n /\ j # n /\ t[j] = levels[j]
  BY <1>2 DEF TopMoved
<1>6. t[k] = levels[k] /\ Len(t) = n
  BY <1>2, <1>5 DEF TopMoved
<1>7. /\ t[k].index \in 1..Len(t[k].msgs) /\ t[k].index \in Nat
      /\ Len(t[k].responses) > 0 /\ IsSeq(Last(t[k].responses).sent)
  <2>1. PICK q \in Nat : q = Len(levels[k].responses) /\ q > 0
    BY <1>4, SeqIs DEF Linked, Underway, IsLevel
  <2>2. IsResponse(levels[k].responses[q])
    BY <1>4, <2>1 DEF Underway, IsLevel
  <2> QED BY <1>4, <1>6, <2>1, <2>2 DEF Underway, IsLevel, IsResponse, Last
<1>8. IsSeq(t[n].msgs) /\ Len(t[n].msgs) > 0
  <2>1. Underway(levels[n]) /\ IsLevel(t[n])
    BY <1>6 DEF Stack, Orderly
  <2>2. Len(t[n].msgs) = Len(levels[n].msgs)
    BY DEF TopMoved, SameResults
  <2>3. Len(levels[n].msgs) > 0
    BY <2>1, SeqIs DEF Underway, IsLevel
  <2> QED BY <2>1, <2>2, <2>3 DEF IsLevel
<1>9. Books(t, n - 1, open, began, r)
  BY BooksMoved
<1>10. Ordered(t, r) /\ Counted(t)
  BY <1>9 DEF Books, TopMoved
<1>11. Ordered(f, r)
  BY <1>2, <1>3, <1>6, <1>7, <1>8, <1>10, OrderedSquashed
<1>12. /\ Len(f) = k /\ \A m \in 1..k : m # k => f[m] = t[m]
       /\ f[k].index = t[k].index
  BY <1>2, <1>3 DEF SquashedInto, OtherEvents
<1>13. \A m \in 1..k : m < k => LastFlat(f[m])
  <2> SUFFICES ASSUME NEW m \in 1..k, m < k
               PROVE  LastFlat(f[m])
    OBVIOUS
  <2>1. m # k /\ m \in 1..Len(t) /\ m < Len(t)
    BY <1>2, <1>6
  <2> QED BY <1>9, <1>12, <2>1 DEF Books
<1>14. ASSUME NEW m \in 1..k, Waiting(f[m])
       PROVE  Accounted(f, m, open, began)
  <2>1. m \in 1..n /\ m # n /\ m <= n - 1 /\ m \in 1..Len(t)
    BY <1>2, <1>6
  <2>2. Waiting(t[m])
    <3>1. CASE m = k
      <4>1. StateAt(f[k], t[k].index) = StateAt(t[k], t[k].index)
        BY <1>3, <1>6, <1>7
      <4> QED BY <1>12, <1>14, <3>1, <4>1 DEF Waiting
    <3>2. CASE m # k
      BY <1>12, <1>14, <3>2
    <3> QED BY <3>1, <3>2
  <2>3. Accounted(t, m, open, began)
    BY <1>9, <2>1, <2>2 DEF Books
  <2> QED BY <1>2, <1>3, <1>6, <1>7, <1>8, <1>10, <2>3, AccountedSquashed
<1>15. Books(f, k, open, began, r)
  BY <1>11, <1>12, <1>13, <1>14 DEF Books
<1>16. Fresh(f[k])
  <2>1. StateAt(f[k], f[k].index) = StateAt(levels[k], levels[k].index)
    BY <1>3, <1>6, <1>7, <1>12
  <2> QED BY <1>4, <2>1 DEF Fresh, Started
<1> QED BY <1>1, <1>2, <1>12, <1>15, <1>16

LEMMA HonestDone ==
    ASSUME NEW search, Sound(search), ~search.over, Len(search.levels) > 0,
           NEW v, v = search.levels[Len(search.levels)], StateAt(v, v.index) = "Done",
           NEW open, NEW began, NEW r \in Nat, Honest(search, open, began, r)
    PROVE  Honest(AtDone(search), open, began, r)
<1>1. PICK levels : levels = search.levels
  OBVIOUS
<1>2. PICK n \in Nat : n = Len(levels) /\ n > 0 /\ v = levels[n]
  BY <1>1, SeqIs DEF Sound, Stack
<1>3. Stack(levels) /\ Books(levels, n, open, began, r) /\ search.error = FALSE
  BY <1>1, <1>2 DEF Sound, Honest
<1>4. PICK t : t = [levels EXCEPT ![n].index = @ + 1]
  OBVIOUS
<1>5. /\ TopMoved(t, levels, n) /\ MovesOn(t, levels, n)
      /\ t[n].index = v.index + 1 /\ t[n].msgs = v.msgs
  <2>1. StateAt(levels[n], levels[n].index) = "Done"
    BY <1>2
  <2>2. MovesOn(t, levels, n)
    BY <1>2, <1>3, <1>4, <2>1, AdvanceIs
  <2>3. MovedPast(t, levels, n)
    BY <1>2, <1>3, <1>4, <2>1, AdvanceResults
  <2> QED BY <1>2, <2>2, <2>3 DEF MovedPast
<1>6. AtDone(search) = IF t[n].index <= Len(t[n].msgs) THEN Resume(search, t)
                       ELSE IF n = 1 THEN Stop(search, t, Nothing)
                                     ELSE Resume(search, SquashLatest(t))
  BY <1>1, <1>2, <1>4 DEF AtDone
<1>7. CASE t[n].index <= Len(t[n].msgs)
  <2>1. StateAt(t[n], t[n].index) = "NotExecuted" /\ Len(t) = n
    BY <1>5, <1>7 DEF MovesOn
  <2>2. EventsAt(t[n], t[n].index) = <<>>
    <3>1. OrderedLevel(v, r) /\ v.index \in 1..Len(v.msgs) /\ IsSeq(v.msgs)
      BY <1>2, <1>3 DEF Books, Ordered, Stack, Underway, IsLevel
    <3>2. t[n].index \in 1..Len(v.msgs) /\ t[n].index > v.index
      BY <1>5, <1>7, <3>1, SeqIs
    <3>3. EventsAt(v, t[n].index) = <<>>
      BY <3>1, <3>2 DEF OrderedLevel
    <3> QED BY <1>5, <3>3 DEF EventsAt
  <2>3. Fresh(t[n]) /\ ~Waiting(t[n])
    BY <2>1, <2>2 DEF Fresh, Waiting
  <2>4. Books(t, n, open, began, r)
    BY <1>2, <1>3, <1>5, <2>3, BooksMoved
  <2>5. Honest(Resume(search, t), open, began, r)
    BY <1>3, <2>1, <2>3, <2>4, HonestResume
  <2> QED BY <1>6, <1>7, <2>5
<1>8. CASE ~(t[n].index <= Len(t[n].msgs)) /\ n = 1
  <2>1. Honest(Stop(search, t, Nothing), open, began, r)
    BY <1>3, HonestStop
  <2> QED BY <1>6, <1>8, <2>1
<1>9. CASE ~(t[n].index <= Len(t[n].msgs)) /\ n # 1
  <2>1. PICK f : f = SquashLatest(t)
    OBVIOUS
  <2>2. n > 1 /\ Orderly(t)
    BY <1>2, <1>5, <1>9 DEF MovesOn
  <2>3. Books(f, n - 1, open, began, r) /\ Len(f) = n - 1 /\ Fresh(f[n - 1])
    BY <1>2, <1>3, <1>5, <2>1, <2>2, BooksSquashed
  <2>4. Books(f, Len(f), open, began, r) /\ (Len(f) > 0 => Fresh(f[Len(f)]))
    BY <2>3
  <2>5. Honest(Resume(search, f), open, began, r)
    BY <1>3, <2>4, HonestResume
  <2> QED BY <1>6, <1>9, <2>1, <2>5
<1> QED BY <1>7, <1>8, <1>9

LEMMA HonestShouldReply ==
    ASSUME NEW search, Sound(search), ~search.over, Len(search.levels) > 0,
           NEW v, v = search.levels[Len(search.levels)], StateAt(v, v.index) = "ShouldReply",
           NEW open, NEW began, NEW r, Honest(search, open, began, r)
    PROVE  Honest(AtShouldReply(search), open, began, r)
<1>1. PICK levels, reply : levels = search.levels /\ reply = FindReply(levels, FALSE)
  OBVIOUS
<1>2. PICK n \in Nat : n = Len(levels) /\ n > 0 /\ v = levels[n]
  BY <1>1, SeqIs DEF Sound, Stack
<1>3. Stack(levels) /\ Books(levels, n, open, began, r) /\ search.error = FALSE
  BY <1>1, <1>2 DEF Sound, Honest
<1>4. PICK t : t = SetState(levels, "Replying")
  OBVIOUS
<1>5. Changed(t, levels, n, "Replying")
  BY <1>2, <1>3, <1>4, SetStateResults DEF MsgStates
<1>6. Len(t) = n /\ Books(t, Len(t) - 1, open, began, r)
  BY <1>2, <1>3, <1>5, BooksMoved DEF Changed, TopMoved
<1>7. ASSUME reply # Nothing
      PROVE  Prepared(t, reply, open, began)
  <2>1. reply.type = "reply"
    BY <1>1, <1>7 DEF FindReply
  <2>2. StateAt(t[n], t[n].index) = "Replying"
    BY <1>5 DEF Changed
  <2>3. Accounted(levels, n, open, began)
    BY <1>2, <1>3 DEF Books, Waiting
  <2>4. Accounted(t, n, open, began)
    BY <1>2, <1>3, <1>5, <2>3, AccountedMoved DEF Changed
  <2> QED BY <1>6, <2>1, <2>2, <2>4 DEF Prepared
<1>8. \E x : AtShouldReply(search) = [Stop(search, t, reply) EXCEPT !.thrown = x]
  <2>1. AtShouldReply(search) = [Stop(search, t, reply) EXCEPT !.thrown = @ + 0]
    BY <1>1, <1>3, <1>4 DEF AtShouldReply
  <2> QED BY <2>1
<1>9. \A x : Honest([Stop(search, t, reply) EXCEPT !.thrown = x], open, began, r)
  BY <1>3, <1>6, <1>7, HonestStop, Zenon
<1> QED BY <1>8, <1>9

LEMMA HonestTurn ==
    ASSUME NEW search, Sound(search), ~search.over, Len(search.levels) > 0,
           NEW open, NEW began, NEW r \in Nat, Honest(search, open, began, r)
    PROVE  Honest(Turn(search), open, began, r)
<1>1. PICK levels, at : levels = search.levels /\ at = Current(Last(levels)).state
  OBVIOUS
<1>2. PICK v : v = levels[Len(levels)]
  OBVIOUS
<1>3. at = StateAt(v, v.index) /\ at \in MsgStates
  <2>1. Underway(v)
    BY <1>1, <1>2, SeqIs DEF Sound, Stack
  <2> QED BY <1>1, <1>2, <2>1 DEF Current, Last, StateAt, Underway, IsLevel
<1>4. levels # <<>> /\ search.error = FALSE
  BY <1>1, EmptyIs DEF Honest
<1>5. Turn(search) = CASE at = "NotExecuted" -> AtNotExecuted(search)
                       [] at = "ShouldReply" -> AtShouldReply(search)
                       [] at \in {"Done", "Replying"} /\ search.error -> Unwind(search)
                       [] at = "Done" /\ ~search.error -> AtDone(search)
                       [] at = "Replying" /\ ~search.error ->
                            Resume(search, SetState(levels, "Done"))
  BY <1>1, <1>4 DEF Turn
<1>6. CASE at = "NotExecuted"
  BY <1>1, <1>2, <1>3, <1>5, <1>6, HonestNotExecuted
<1>7. CASE at = "ShouldReply"
  BY <1>1, <1>2, <1>3, <1>5, <1>7, HonestShouldReply
<1>8. CASE at = "Done"
  BY <1>1, <1>2, <1>3, <1>4, <1>5, <1>8, HonestDone
<1>9. CASE at = "Replying"
  <2>1. Turn(search) = Resume(search, SetState(levels, "Done"))
    BY <1>4, <1>5, <1>9
  <2> QED BY <1>1, <1>2, <1>3, <1>9, <2>1, HonestReplying
<1> QED BY <1>3, <1>6, <1>7, <1>8, <1>9 DEF MsgStates

\* The search of a run that succeeded.
LEMMA HonestSearch ==
    ASSUME NEW levels, Stack(levels), NEW error, error = FALSE, NEW open, NEW began, NEW r \in Nat,
           Books(levels, Len(levels), open, began, r),
           Len(levels) > 0 => Fresh(levels[Len(levels)])
    PROVE  Honest(FindNext(levels, error), open, began, r)
<1>1. PICK n \in Nat : n = Turns(levels)
  BY SeqIs DEF Turns, Stack
<1>2. PICK turn : /\ IsLoop(n, levels, error, turn)
                  /\ FindNext(levels, error) = turn[n]
  <2>1. PICK f : f = (CHOOSE turn : IsLoop(n, levels, error, turn))
    OBVIOUS
  <2>2. IsLoop(n, levels, error, f)
    BY <2>1, LoopExists
  <2>3. FindNext(levels, error) = f[n]
    BY <1>1, <2>1, LoopIsChosen
  <2> QED BY <2>2, <2>3
<1> DEFINE G == {k \in 0..n : Sound(turn[k]) /\ Honest(turn[k], open, began, r)}
<1>3. 0 \in G
  <2>1. PICK s : s = Search(levels, error)
    OBVIOUS
  <2>2. turn[0] = s
    BY <1>2, <2>1 DEF IsLoop
  <2>3. /\ DOMAIN s = {"levels", "error", "start", "next", "thrown", "over"}
        /\ s.levels = levels /\ s.error = FALSE /\ s.over = FALSE /\ s.next = Nothing
    BY <2>1 DEF Search
  <2>4. Sound(s)
    BY <2>3, StackIsOrderly DEF Sound
  <2>5. Honest(s, open, began, r)
    BY <2>3 DEF Honest
  <2> QED BY <2>2, <2>4, <2>5
<1>4. ASSUME NEW i \in 1..n, i > 0, i - 1 \in G
      PROVE  i \in G
  <2>1. PICK s, t : s = turn[i - 1] /\ t = turn[i]
    OBVIOUS
  <2>2. Sound(s) /\ Honest(s, open, began, r)
    BY <1>4, <2>1
  <2> SUFFICES Sound(t) /\ Honest(t, open, began, r)
    BY <2>1
  <2>3. t = Turn(s)
    <3>1. turn[i] = IF i = 0 THEN Search(levels, error) ELSE Turn(turn[i - 1])
      BY <1>2 DEF IsLoop
    <3> QED BY <1>4, <2>1, <3>1
  <2>4. CASE s.over
    BY <2>2, <2>3, <2>4 DEF Turn
  <2>5. CASE ~s.over /\ Len(s.levels) > 0
    BY <2>2, <2>3, <2>5, TurnIs, HonestTurn DEF Progress
  <2>6. CASE ~s.over /\ ~(Len(s.levels) > 0)
    <3>1. s.levels = <<>>
      BY <2>2, <2>6, NonEmpty DEF Sound, Stack
    <3> QED BY <2>2, <2>3, <3>1 DEF Turn
  <2> QED BY <2>4, <2>5, <2>6
<1> HIDE DEF G
<1>5. 0 \in 0..n
  OBVIOUS
<1>6. n \in G
  <2>1. \A i \in 0..n : i \in G
    BY <1>3, <1>4, <1>5, StepByStep
  <2> QED BY <2>1
<1> QED BY <1>2, <1>6 DEF G
-----------------------------------------------------------------------------
(* What a run answers.                                                     *)

LEMMA GrowsMore ==
    ASSUME NEW r \in Nat, NEW s, Grows(s, r)
    PROVE  /\ Grows(s, r + 1) /\ Grows(Append(s, r + 1), r + 1)
           /\ \A e : InSeq(e, s) => e \in 1..r
           /\ \A e : InSeq(e, Append(s, r + 1)) <=> InSeq(e, s) \/ e = r + 1
<1>1. PICK n \in Nat : n = Len(s)
  BY DEF Grows
<1>2. s \in [1..n -> 1..r]
  BY <1>1 DEF Grows
<1>3. s \in Seq(1..(r + 1)) /\ r + 1 \in 1..(r + 1)
  <2>1. s \in [1..n -> 1..(r + 1)]
    BY <1>2
  <2>2. \A k \in 1..n : s[k] \in 1..(r + 1)
    BY <2>1
  <2> QED BY <1>1, <2>1, <2>2 DEF Grows
<1>4. PICK t : t = Append(s, r + 1)
  OBVIOUS
<1>5. /\ t \in Seq(1..(r + 1)) /\ Len(t) = n + 1 /\ t[n + 1] = r + 1
      /\ \A k \in 1..n : t[k] = s[k]
  BY <1>1, <1>3, <1>4
<1>6. Increasing(t)
  <2> SUFFICES ASSUME NEW i \in 1..(n + 1), NEW k \in 1..(n + 1), i < k
               PROVE  t[i] < t[k]
    BY <1>5 DEF Increasing
  <2>1. i \in 1..n
    OBVIOUS
  <2>2. CASE k = n + 1
    BY <1>2, <1>5, <2>1, <2>2
  <2>3. CASE k # n + 1
    <3>1. k \in 1..n
      BY <2>3
    <3> QED BY <1>1, <1>5, <2>1, <3>1 DEF Grows, Increasing
  <2> QED BY <2>2, <2>3
<1>7. \A e : InSeq(e, s) => e \in 1..r
  BY <1>1, <1>2 DEF InSeq
<1>8. ASSUME NEW e
      PROVE  InSeq(e, t) <=> InSeq(e, s) \/ e = r + 1
  <2>1. \A k \in 1..(n + 1) : k \in 1..n \/ k = n + 1
    OBVIOUS
  <2>2. n + 1 \in 1..(n + 1) /\ \A k \in 1..n : k \in 1..(n + 1)
    OBVIOUS
  <2> QED BY <1>1, <1>5, <2>1, <2>2 DEF InSeq
<1> QED BY <1>3, <1>4, <1>5, <1>6, <1>7, <1>8 DEF Grows

\* The events of an ordered level are numbers up to r.
LEMMA InLevel ==
    ASSUME NEW r \in Nat, NEW v, OrderedLevel(v, r), NEW e, In(e, v)
    PROVE  e \in 1..r
BY GrowsMore DEF OrderedLevel, In

\* The response of a run, at the last level of n, of which the data of any
\* level may have changed.
AnsweredTo(t, levels, n, run) ==
    /\ Counted(t) /\ Len(t) = n
    /\ \A m \in 1..n :
         /\ t[m].index = levels[m].index
         /\ m # n => t[m].msgs = levels[m].msgs /\ t[m].responses = levels[m].responses
    /\ OtherEvents(t[n], levels[n], Append(EventsAt(levels[n], levels[n].index), run))
    /\ \E address : Appended(t[n].responses, levels[n].responses, Response(run, address))

LEMMA OrderedAnswered ==
    ASSUME NEW r \in Nat, NEW levels, NEW n \in Nat, n = Len(levels), n > 0,
           \A m \in 1..n : levels[m].index \in Nat,
           levels[n].index \in 1..Len(levels[n].msgs),
           Ordered(levels, r), NEW t, AnsweredTo(t, levels, n, r + 1)
    PROVE  Ordered(t, r + 1)
<1>1. PICK v, w, s : v = levels[n] /\ w = t[n] /\ s = EventsAt(v, v.index)
  OBVIOUS
<1>2. PICK q : q = Append(s, r + 1)
  OBVIOUS
<1>3. /\ Len(t) = n
      /\ \A m \in 1..n : t[m].index = levels[m].index
      /\ \A m \in 1..n : m # n => t[m].msgs = levels[m].msgs
      /\ w.index = v.index /\ Len(w.msgs) = Len(v.msgs) /\ EventsAt(w, v.index) = q
      /\ \A i \in 1..Len(v.msgs) : i # v.index => EventsAt(w, i) = EventsAt(v, i)
  BY <1>1, <1>2 DEF AnsweredTo, OtherEvents
<1>4. OrderedLevel(v, r) /\ v.index \in 1..Len(v.msgs) /\ v.index \in Nat
  BY <1>1 DEF Ordered
<1>5. /\ Grows(q, r + 1)
      /\ \A e : InSeq(e, s) => e \in 1..r
      /\ \A e : InSeq(e, q) <=> InSeq(e, s) \/ e = r + 1
  BY <1>1, <1>2, <1>4, GrowsMore DEF OrderedLevel
<1>6. OrderedLevel(w, r + 1)
  <2>1. ASSUME NEW i \in 1..Len(w.msgs)
        PROVE  Grows(EventsAt(w, i), r + 1) /\ (i > w.index => EventsAt(w, i) = <<>>)
    <3>1. CASE i = v.index
      BY <1>3, <1>4, <1>5, <3>1
    <3>2. CASE i # v.index
      <4>1. EventsAt(w, i) = EventsAt(v, i) /\ Grows(EventsAt(v, i), r)
        BY <1>3, <1>4, <3>2 DEF OrderedLevel
      <4>2. i > v.index => EventsAt(v, i) = <<>>
        BY <1>3, <1>4 DEF OrderedLevel
      <4> QED BY <1>3, <4>1, <4>2, GrowsMore
    <3> QED BY <3>1, <3>2
  <2>2. ASSUME NEW i \in 1..Len(w.msgs), NEW k \in 1..Len(w.msgs), i < k
        PROVE  Before(EventsAt(w, i), EventsAt(w, k))
    <3>1. Before(EventsAt(v, i), EventsAt(v, k))
      BY <1>3, <1>4, <2>2 DEF OrderedLevel
    <3>2. CASE i # v.index /\ k # v.index
      BY <1>3, <3>1, <3>2
    <3>3. CASE i # v.index /\ k = v.index
      <4> SUFFICES ASSUME NEW e, NEW f, InSeq(e, EventsAt(v, i)), InSeq(f, q)
                   PROVE  e < f
        BY <1>3, <3>3, BeforeIs
      <4>1. CASE InSeq(f, s)
        BY <1>1, <3>1, <3>3, <4>1, BeforeIs
      <4>2. CASE f = r + 1
        <5>1. e \in 1..r
          BY <1>3, <1>4, GrowsMore DEF OrderedLevel
        <5> QED BY <4>2, <5>1
      <4> QED BY <1>5, <4>1, <4>2
    <3>4. CASE i = v.index /\ k # v.index
      <4>1. EventsAt(w, k) = <<>>
        BY <1>3, <1>4, <2>2, <3>4 DEF OrderedLevel
      <4> QED BY <4>1, EmptyGrows
    <3> QED BY <2>2, <3>2, <3>3, <3>4
  <2> QED BY <2>1, <2>2 DEF OrderedLevel
<1>7. \A e : In(e, w) => In(e, v) \/ e = r + 1
  <2> SUFFICES ASSUME NEW e, NEW i \in 1..Len(w.msgs), InSeq(e, EventsAt(w, i))
               PROVE  In(e, v) \/ e = r + 1
    BY DEF In
  <2>1. CASE i = v.index
    BY <1>1, <1>3, <1>4, <1>5, <2>1 DEF In
  <2>2. CASE i # v.index
    BY <1>3, <2>2 DEF In
  <2> QED BY <2>1, <2>2
<1>8. ASSUME NEW m \in 1..n, m # n
      PROVE  OrderedLevel(t[m], r + 1) /\ \A e : In(e, t[m]) <=> In(e, levels[m])
  <2>1. t[m].msgs = levels[m].msgs /\ t[m].index = levels[m].index
    BY <1>3, <1>8
  <2>2. OrderedLevel(levels[m], r)
    BY DEF Ordered
  <2>3. OrderedLevel(t[m], r)
    BY <2>1, <2>2 DEF OrderedLevel, EventsAt
  <2>4. OrderedLevel(t[m], r + 1)
    BY <2>3, GrowsMore DEF OrderedLevel
  <2> QED BY <2>1, <2>4 DEF In, EventsAt
<1>9. ASSUME NEW m \in 1..n, NEW j \in 1..n, m < j
      PROVE  Precedes(t[m], t[j])
  <2> SUFFICES ASSUME NEW e, NEW f, In(e, t[m]), In(f, t[j])
               PROVE  e < f
    BY DEF Precedes
  <2>1. m # n /\ In(e, levels[m]) /\ Precedes(levels[m], levels[j])
    BY <1>8, <1>9, OrderedIs
  <2>2. e \in 1..r
    BY <2>1, InLevel DEF Ordered
  <2>3. In(f, levels[j]) \/ f = r + 1
    BY <1>1, <1>7, <1>8
  <2> QED BY <2>1, <2>2, <2>3 DEF Precedes
<1> QED BY <1>1, <1>3, <1>6, <1>8, <1>9, OrderedIs

\* A level of which nothing has run.
Unrun(v) == /\ v.responses = <<>> /\ \A i \in 1..Len(v.msgs) : EventsAt(v, i) = <<>>
            /\ ~Waiting(v)

LEMMA BooksPushed ==
    ASSUME NEW levels, Counted(levels), NEW n \in Nat, n = Len(levels), n > 0,
           NEW v, Unrun(v), NEW r \in Nat, NEW open, NEW began,
           Books(levels, n, open, began, r), LastFlat(levels[n]),
           Waiting(levels[n]) => Len(open) = began[n].scopes + 1 /\ began[n].scopes \in Nat,
           NEW t, Appended(t, levels, v)
    PROVE  Books(t, n + 1, open, began, r)
<1>1. IsSeq(t) /\ Len(t) = n + 1 /\ t[n + 1] = v /\ \A m \in 1..n : t[m] = levels[m]
  BY DEF Appended
<1>2. \A m \in 1..(n + 1) : m \in 1..n \/ m = n + 1
  OBVIOUS
<1>3. Counted(t)
  <2>1. IsSeq(v.responses)
    BY EmptyIs DEF Unrun
  <2> QED BY <1>1, <1>2, <2>1 DEF Counted
<1>4. OrderedLevel(v, r) /\ \A e : ~In(e, v)
  BY EmptyGrows DEF Unrun, OrderedLevel, In
<1>5. Ordered(t, r)
  <2>1. \A m \in 1..(n + 1) : OrderedLevel(t[m], r)
    BY <1>1, <1>2, <1>4 DEF Books, Ordered
  <2>2. ASSUME NEW m \in 1..(n + 1), NEW j \in 1..(n + 1), m < j
        PROVE  Precedes(t[m], t[j])
    <3>1. CASE j = n + 1
      BY <1>1, <1>4, <3>1 DEF Precedes
    <3>2. CASE j \in 1..n
      <4>1. m \in 1..n
        BY <2>2, <3>2
      <4>2. Precedes(levels[m], levels[j])
        BY <2>2, <3>2, <4>1, OrderedIs DEF Books
      <4> QED BY <1>1, <3>2, <4>1, <4>2
    <3> QED BY <1>2, <3>1, <3>2
  <2> QED BY <1>1, <2>1, <2>2, OrderedIs
<1>6. \A m \in 1..(n + 1) : m < n + 1 => LastFlat(t[m])
  <2> SUFFICES ASSUME NEW m \in 1..n
               PROVE  LastFlat(t[m])
    BY <1>2
  <2> QED BY <1>1 DEF Books
<1>7. Upto(t, n + 1) = Upto(levels, n) /\ Upto(levels, n) \in Nat
      /\ \A m \in 1..n : Upto(t, m) = Upto(levels, m) /\ Upto(levels, m) \in Nat
  <2>1. \A m \in 1..n : Upto(t, m) = Upto(levels, m) /\ Upto(levels, m) \in Nat
    <3> SUFFICES ASSUME NEW m \in 1..n
                 PROVE  Upto(t, m) = Upto(levels, m) /\ Upto(levels, m) \in Nat
      OBVIOUS
    <3>1. /\ m \in Nat /\ m <= Len(levels) /\ m <= Len(t)
          /\ \A j \in 1..m : Len(t[j].responses) = Len(levels[j].responses)
      BY <1>1
    <3> QED BY <1>3, <3>1, UptoSame, UptoIs
  <2>2. n + 1 \in 1..Len(t)
    BY <1>1
  <2>3. /\ Upto(t, (n + 1) - 1) \in Nat
        /\ Upto(t, n + 1) = Upto(t, (n + 1) - 1) + Len(t[n + 1].responses)
    BY <1>3, <2>2, UptoIs
  <2>4. Len(t[n + 1].responses) = 0
    BY <1>1, EmptyIs DEF Unrun
  <2>5. Upto(t, n + 1) = Upto(t, n)
    BY <2>3, <2>4
  <2>6. n \in 1..n
    OBVIOUS
  <2> QED BY <2>1, <2>5, <2>6
<1>8. ASSUME NEW m \in 1..n, Waiting(t[m])
      PROVE  Accounted(t, m, open, began)
  <2>1. t[m] = levels[m] /\ m <= n /\ Waiting(levels[m])
    BY <1>1, <1>8
  <2>2. Accounted(levels, m, open, began)
    BY <2>1 DEF Books
  <2>3. Scoped(t, m, open, began)
    <3> SUFFICES ASSUME FlatAbove(t, m)
                 PROVE  Len(open) = began[m].scopes + 1 + Upto(t, n + 1) - Upto(t, m)
      BY <1>1 DEF Scoped
    <3>1. CASE m = n
      BY <1>7, <2>1, <3>1
    <3>2. CASE m # n
      <4>1. FlatAbove(levels, m)
        <5> SUFFICES ASSUME NEW j \in 1..n, j > m
                     PROVE  Flat(levels[j])
          BY DEF FlatAbove
        <5>1. j \in 1..(n + 1)
          OBVIOUS
        <5> QED BY <1>1, <5>1 DEF FlatAbove
      <4>2. m < n
        BY <3>2
      <4> QED BY <1>7, <2>2, <4>1, <4>2 DEF Accounted, Scoped
    <3> QED BY <3>1, <3>2
  <2>4. HasData(t, m, began)
    BY <2>1, <2>2 DEF Accounted, HasData
  <2>5. \A e : Since(e, t, m) <=> Since(e, levels, m)
    <3> SUFFICES ASSUME NEW e
                 PROVE  Since(e, t, m) <=> Since(e, levels, m)
      OBVIOUS
    <3>1. (\E j \in 1..(n + 1) : j > m /\ In(e, t[j])) => (\E j \in 1..n : j > m /\ In(e, levels[j]))
      BY <1>1, <1>2, <1>4
    <3>2. (\E j \in 1..n : j > m /\ In(e, levels[j])) => (\E j \in 1..(n + 1) : j > m /\ In(e, t[j]))
      <4> SUFFICES ASSUME NEW j \in 1..n, j > m, In(e, levels[j])
                   PROVE  \E k \in 1..(n + 1) : k > m /\ In(e, t[k])
        OBVIOUS
      <4>1. j \in 1..(n + 1) /\ t[j] = levels[j]
        BY <1>1
      <4> QED BY <4>1
    <3> QED BY <1>1, <2>1, <3>1, <3>2 DEF Since
  <2>6. Counts(t, m, open, began)
    BY <2>2, <2>5 DEF Accounted, Counts
  <2> QED BY <2>3, <2>4, <2>6 DEF Accounted
<1>9. ~Waiting(t[n + 1])
  BY <1>1 DEF Unrun
<1> QED BY <1>1, <1>2, <1>5, <1>6, <1>8, <1>9 DEF Books
-----------------------------------------------------------------------------
\* What the books of an answer need of the tally: the scopes that were open
\* when a message began are among those open now.
Earlier(began, n, open) ==
    \A m \in 1..n : began[m].scopes \in Nat /\ began[m].scopes <= Len(open)

\* The events that a level and those above it have got from a run.
LEMMA SinceAnswered ==
    ASSUME NEW r \in Nat, NEW levels, NEW n \in Nat, n = Len(levels), n > 0,
           \A m \in 1..n : levels[m].index \in 1..Len(levels[m].msgs),
           Ordered(levels, r), NEW t, AnsweredTo(t, levels, n, r + 1),
           NEW m \in 1..n, NEW e
    PROVE  Since(e, t, m) <=> Since(e, levels, m) \/ e = r + 1
<1>1. PICK v, w, s : v = levels[n] /\ w = t[n] /\ s = EventsAt(v, v.index)
  OBVIOUS
<1>2. PICK q : q = Append(s, r + 1)
  OBVIOUS
<1>3. /\ Len(t) = n
      /\ \A j \in 1..n : t[j].index = levels[j].index
      /\ \A j \in 1..n : j # n => t[j].msgs = levels[j].msgs
      /\ w.index = v.index /\ Len(w.msgs) = Len(v.msgs) /\ EventsAt(w, v.index) = q
      /\ \A i \in 1..Len(v.msgs) : i # v.index => EventsAt(w, i) = EventsAt(v, i)
  BY <1>1, <1>2 DEF AnsweredTo, OtherEvents
<1>4. OrderedLevel(v, r) /\ v.index \in 1..Len(v.msgs)
  BY <1>1 DEF Ordered
<1>5. InSeq(e, q) <=> InSeq(e, s) \/ e = r + 1
  BY <1>1, <1>2, <1>4, GrowsMore DEF OrderedLevel
<1>6. In(e, w) <=> In(e, v) \/ e = r + 1
  <2>1. ASSUME NEW i \in 1..Len(v.msgs), InSeq(e, EventsAt(w, i))
        PROVE  In(e, v) \/ e = r + 1
    BY <1>1, <1>3, <1>4, <1>5, <2>1 DEF In
  <2>2. ASSUME NEW i \in 1..Len(v.msgs), InSeq(e, EventsAt(v, i))
        PROVE  In(e, w)
    BY <1>1, <1>3, <1>4, <1>5, <2>2 DEF In
  <2>3. e = r + 1 => In(e, w)
    BY <1>3, <1>4, <1>5 DEF In
  <2>4. In(e, w) => In(e, v) \/ e = r + 1
    BY <1>3, <2>1 DEF In
  <2> QED BY <2>2, <2>3, <2>4 DEF In
<1>7. \A j \in 1..n : j # n => (In(e, t[j]) <=> In(e, levels[j]))
  BY <1>3 DEF In, EventsAt
<1>8. CASE m = n
  <2>1. ~\E j \in 1..n : j > n
    OBVIOUS
  <2> QED BY <1>1, <1>3, <1>5, <1>8, <2>1 DEF Since
<1>9. CASE m # n
  <2>1. EventsAt(t[m], t[m].index) = EventsAt(levels[m], levels[m].index)
    BY <1>3, <1>9 DEF EventsAt
  <2>2. n \in 1..n /\ n > m
    BY <1>9
  <2>3. (\E j \in 1..n : j > m /\ In(e, t[j]))
          <=> (\E j \in 1..n : j > m /\ In(e, levels[j])) \/ e = r + 1
    <3>1. ASSUME NEW j \in 1..n, j > m, In(e, t[j])
          PROVE  (\E k \in 1..n : k > m /\ In(e, levels[k])) \/ e = r + 1
      BY <1>1, <1>6, <1>7, <3>1
    <3>2. ASSUME NEW j \in 1..n, j > m, In(e, levels[j])
          PROVE  \E k \in 1..n : k > m /\ In(e, t[k])
      BY <1>1, <1>6, <1>7, <3>2
    <3>3. ASSUME e = r + 1
          PROVE  \E k \in 1..n : k > m /\ In(e, t[k])
      BY <1>1, <1>6, <2>2, <3>3
    <3> QED BY <3>1, <3>2, <3>3
  <2> QED BY <1>3, <2>1, <2>3 DEF Since
<1> QED BY <1>8, <1>9

\* What the books of an answer tell of the levels that are to be added.
Booked(t, n, open, mine, r) ==
    /\ Books(t, n, open, mine, r) /\ LastFlat(t[n])
    /\ Waiting(t[n]) => Len(open) = mine[n].scopes + 1 /\ mine[n].scopes \in Nat

LEMMA BooksAnswered ==
    ASSUME NEW r \in Nat, NEW levels, Stack(levels), NEW n \in Nat, n = Len(levels), n > 0,
           NEW open, Grows(open, r), NEW began, NEW mine,
           NEW more, more = Append(open, r + 1),
           Books(levels, n - 1, open, began, r),
           NEW t, AnsweredTo(t, levels, n, r + 1),
           \A m \in 1..n : StateAt(t[m], t[m].index) = StateAt(levels[m], levels[m].index),
           Earlier(began, n - 1, open),
           \A m \in 1..(n - 1) : mine[m].scopes = began[m].scopes,
           \A m \in 1..n : Waiting(levels[m]) => HasData(t, m, mine),
           Waiting(levels[n]) => /\ EventsAt(levels[n], levels[n].index) = <<>>
                                 /\ mine[n].scopes = Len(open)
    PROVE  Booked(t, n, more, mine, r + 1)
<1>1. PICK k \in Nat : k = Len(open)
  BY DEF Grows
<1>2. /\ Len(more) = k + 1 /\ more[k + 1] = r + 1
      /\ \A i \in 1..k : more[i] = open[i] /\ open[i] \in 1..r
  <2>1. open \in [1..k -> 1..r]
    BY <1>1 DEF Grows
  <2>2. open \in [1..k -> 1..(r + 1)] /\ r + 1 \in 1..(r + 1)
    <3>1. \A i \in 1..r : i \in 1..(r + 1)
      OBVIOUS
    <3> QED BY <2>1, <3>1
  <2>3. open \in Seq(1..(r + 1))
    BY <2>2
  <2>4. IsSeq(open)
    BY <2>3 DEF IsSeq
  <2>5. Appended(more, open, r + 1)
    BY <2>4, AppendIs, Zenon
  <2> QED BY <1>1, <2>1, <2>5 DEF Appended
<1>3. \A m \in 1..n : levels[m].index \in 1..Len(levels[m].msgs) /\ levels[m].index \in Nat
  BY DEF Stack, Underway, IsLevel
<1>4. Ordered(levels, r)
  BY DEF Books
<1>5. Ordered(t, r + 1)
  BY <1>3, <1>4, OrderedAnswered
<1>6. /\ Counted(t) /\ Len(t) = n
      /\ \A m \in 1..n : t[m].index = levels[m].index
      /\ \A m \in 1..n : m # n => t[m].msgs = levels[m].msgs
                                  /\ t[m].responses = levels[m].responses
  BY DEF AnsweredTo
<1>7. PICK address : Appended(t[n].responses, levels[n].responses, Response(r + 1, address))
  BY DEF AnsweredTo
<1>8. PICK q \in Nat : q = Len(levels[n].responses)
  <2>1. IsSeq(levels[n].responses)
    BY DEF Stack, Underway, IsLevel
  <2> QED BY <2>1, SeqIs
<1>9. /\ Len(t[n].responses) = q + 1
       /\ t[n].responses[q + 1].sent = <<>>
       /\ \A i \in 1..q : t[n].responses[i] = levels[n].responses[i]
  BY <1>7, <1>8 DEF Appended, Response
<1>10. LastFlat(t[n])
  BY <1>9 DEF LastFlat, Last
<1>11. \A m \in 1..n : m < n => LastFlat(t[m])
  BY <1>6 DEF Books, LastFlat
<1>12. \A m \in 1..n : Waiting(t[m]) <=> Waiting(levels[m])
  BY DEF Waiting
<1>13. ASSUME NEW m \in 1..n, m < n
       PROVE  /\ Upto(t, n) = Upto(levels, n) + 1 /\ Upto(t, m) = Upto(levels, m)
              /\ Upto(levels, n) \in Nat /\ Upto(levels, m) \in Nat
  <2>1. Counted(levels)
    BY StackIsOrderly, StackCounted
  <2>2. PICK p \in Nat : p = n - 1 /\ p < n
    OBVIOUS
  <2>3. \A j \in 1..p : j \in 1..n /\ j # n
    BY <2>2
  <2>4. \A j \in 1..p : Len(t[j].responses) = Len(levels[j].responses)
    BY <1>6, <2>3
  <2>5. p <= Len(levels) /\ p <= Len(t) /\ m \in Nat /\ m <= Len(levels) /\ m <= Len(t)
        /\ \A j \in 1..m : j \in 1..p
    BY <1>6, <1>13, <2>2
  <2>6. Upto(t, p) = Upto(levels, p)
    BY <1>6, <2>1, <2>4, <2>5, UptoSame
  <2>7. Upto(t, m) = Upto(levels, m)
    BY <1>6, <2>1, <2>4, <2>5, UptoSame
  <2>8. n \in 1..Len(levels) /\ n \in 1..Len(t) /\ m \in 1..Len(levels)
    BY <1>6
  <2>9. /\ Upto(levels, n - 1) \in Nat /\ Upto(levels, n) \in Nat /\ Upto(levels, m) \in Nat
        /\ Upto(levels, n) = Upto(levels, n - 1) + Len(levels[n].responses)
    BY <2>1, <2>8, UptoIs
  <2>10. Upto(t, n) = Upto(t, n - 1) + Len(t[n].responses)
    BY <1>6, <2>8, UptoIs
  <2> QED BY <1>8, <1>9, <2>2, <2>6, <2>7, <2>9, <2>10
<1>14. ASSUME NEW m \in 1..n, NEW e
       PROVE  Since(e, t, m) <=> Since(e, levels, m) \/ e = r + 1
  BY <1>3, <1>4, SinceAnswered
<1>15. ASSUME NEW m \in 1..n, m < n, Waiting(levels[m])
       PROVE  Accounted(t, m, more, mine)
  <2>1. m \in 1..(n - 1) /\ m <= n - 1
    BY <1>15
  <2>2. Accounted(levels, m, open, began)
    BY <1>15, <2>1 DEF Books
  <2>3. /\ mine[m].scopes = began[m].scopes /\ began[m].scopes \in Nat
        /\ began[m].scopes <= k
    BY <1>1, <2>1 DEF Earlier
  <2>4. Scoped(t, m, more, mine)
    <3> SUFFICES ASSUME FlatAbove(t, m)
                 PROVE  Len(more) = mine[m].scopes + 1 + Upto(t, n) - Upto(t, m)
      BY <1>6 DEF Scoped
    <3>1. FlatAbove(levels, m)
      <4> SUFFICES ASSUME NEW j \in 1..n, j > m, NEW i \in 1..Len(levels[j].responses)
                   PROVE  levels[j].responses[i].sent = <<>>
        BY DEF FlatAbove, Flat
      <4>1. Flat(t[j])
        BY <1>6 DEF FlatAbove
      <4>2. CASE j = n
        <5>1. i \in 1..q /\ i \in 1..(q + 1)
          BY <1>8, <4>2
        <5> QED BY <1>9, <4>1, <4>2, <5>1 DEF Flat
      <4>3. CASE j # n
        BY <1>6, <4>1, <4>3 DEF Flat
      <4> QED BY <4>2, <4>3
    <3>2. k = began[m].scopes + 1 + Upto(levels, n) - Upto(levels, m)
      BY <1>1, <1>15, <2>2, <3>1 DEF Accounted, Scoped
    <3>3. /\ Upto(t, n) = Upto(levels, n) + 1 /\ Upto(t, m) = Upto(levels, m)
          /\ Upto(levels, n) \in Nat /\ Upto(levels, m) \in Nat
      BY <1>13, <1>15
    <3>4. Len(more) = k + 1
      BY <1>2
    <3> QED BY <2>3, <3>2, <3>3, <3>4
  <2>5. HasData(t, m, mine)
    BY <1>15
  <2>6. Counts(t, m, more, mine)
    <3> SUFFICES ASSUME NEW i \in 1..(k + 1)
                 PROVE  Since(more[i], t, m) <=> i > mine[m].scopes
      BY <1>2 DEF Counts
    <3>1. CASE i = k + 1
      <4>1. Since(more[i], t, m)
        BY <1>2, <1>14, <3>1
      <4>2. i > mine[m].scopes
        BY <2>3, <3>1
      <4> QED BY <4>1, <4>2
    <3>2. CASE i # k + 1
      <4>1. i \in 1..k
        BY <3>2
      <4>2. more[i] = open[i] /\ open[i] # r + 1
        BY <1>2, <4>1
      <4>3. Since(more[i], t, m) <=> Since(open[i], levels, m)
        BY <1>14, <4>2
      <4>4. Since(open[i], levels, m) <=> i > began[m].scopes
        BY <1>1, <2>2, <4>1 DEF Accounted, Counts
      <4> QED BY <2>3, <4>3, <4>4
    <3> QED BY <3>1, <3>2
  <2> QED BY <2>4, <2>5, <2>6 DEF Accounted
<1>16. ASSUME Waiting(levels[n])
       PROVE  Accounted(t, n, more, mine)
  <2>1. Scoped(t, n, more, mine)
    BY <1>6 DEF Scoped
  <2>2. HasData(t, n, mine)
    BY <1>16
  <2>3. Counts(t, n, more, mine)
    <3> SUFFICES ASSUME NEW i \in 1..(k + 1)
                 PROVE  Since(more[i], t, n) <=> i > mine[n].scopes
      BY <1>2 DEF Counts
    <3>1. mine[n].scopes = k
      BY <1>1, <1>16
    <3>2. n \in 1..n /\ ~\E j \in 1..n : j > n
      OBVIOUS
    <3>3. ~Since(more[i], levels, n)
      BY <1>16, <3>2, EmptyGrows DEF Since
    <3>4. Since(more[i], t, n) <=> more[i] = r + 1
      BY <1>14, <3>2, <3>3
    <3>5. i \in 1..k => more[i] # r + 1
      BY <1>2
    <3>6. i \in 1..k <=> ~(i > k)
      OBVIOUS
    <3>7. i > k => i = k + 1
      OBVIOUS
    <3> QED BY <1>2, <3>1, <3>4, <3>5, <3>6, <3>7
  <2> QED BY <2>1, <2>2, <2>3 DEF Accounted
<1>17. Books(t, n, more, mine, r + 1)
  <2> SUFFICES ASSUME NEW m \in 1..n, Waiting(t[m])
               PROVE  Accounted(t, m, more, mine)
    BY <1>5, <1>6, <1>11 DEF Books
  <2>1. CASE m = n
    BY <1>12, <1>16, <2>1
  <2>2. CASE m # n
    <3>1. m < n
      BY <2>2
    <3> QED BY <1>12, <1>15, <3>1
  <2> QED BY <2>1, <2>2
<1>18. Waiting(t[n]) => Len(more) = mine[n].scopes + 1 /\ mine[n].scopes \in Nat
  <2>1. n \in 1..n
    OBVIOUS
  <2> QED BY <1>1, <1>2, <1>12, <2>1
<1> QED BY <1>10, <1>17, <1>18 DEF Booked
-----------------------------------------------------------------------------
\* A search never comes back to a level above n, but to run its first message;
\* and the reply it finds is that of what it was told.
Shape(search, n, error) ==
    LET levels == search.levels
        found == search.next
    IN  /\ search.error = error
        /\ ~search.over /\ Len(levels) > n =>
             StateAt(levels[Len(levels)], levels[Len(levels)].index) = "NotExecuted"
        /\ Len(levels) <= n + 1
        /\ found # Nothing /\ found.type = "reply" => Len(levels) <= n /\ found.error = error

LEMMA ShapeResume ==
    ASSUME NEW search, Sound(search), ~search.over, NEW n \in Nat, NEW error,
           Shape(search, n, error), NEW levels, Len(levels) <= n
    PROVE  Shape(Resume(search, levels), n, error)
<1>1. PICK t : t = Resume(search, levels)
  OBVIOUS
<1>2. /\ t.levels = levels /\ t.error = search.error
      /\ t.over = search.over /\ t.next = search.next
  BY <1>1 DEF Sound, Resume
<1>3. search.next = Nothing /\ search.error = error /\ Len(levels) <= n
  BY DEF Sound, Shape
<1>4. PICK k : k = Len(levels)
  OBVIOUS
<1>5. Shape(t, n, error)
  <2>1. levels = t.levels /\ ~(Len(levels) > n) /\ Len(levels) <= n + 1
    BY <1>2, <1>3, <1>4
  <2> QED BY <1>2, <1>3, <2>1 DEF Shape
<1> QED BY <1>1, <1>5

LEMMA ShapeStop ==
    ASSUME NEW search, Sound(search), NEW n \in Nat, NEW error, search.error = error,
           NEW levels, Len(levels) <= n + 1, NEW found,
           found # Nothing /\ found.type = "reply" => Len(levels) <= n /\ found.error = error
    PROVE  /\ Shape(Stop(search, levels, found), n, error)
           /\ \A x : Shape([Stop(search, levels, found) EXCEPT !.thrown = x], n, error)
<1>1. PICK t : t = Stop(search, levels, found)
  OBVIOUS
<1>2. /\ DOMAIN t = DOMAIN search /\ t.levels = levels /\ t.error = error
      /\ t.over = TRUE /\ t.next = found
  BY <1>1 DEF Sound, Stop
<1>3. Shape(t, n, error)
  BY <1>2 DEF Shape
<1>4. ASSUME NEW x
      PROVE  Shape([t EXCEPT !.thrown = x], n, error)
  <2>1. PICK u : u = [t EXCEPT !.thrown = x]
    OBVIOUS
  <2>2. /\ u.levels = levels /\ u.error = error /\ u.over = TRUE /\ u.next = found
    BY <1>2, <2>1 DEF Sound
  <2>3. Shape(u, n, error)
    BY <2>2 DEF Shape
  <2> QED BY <2>1, <2>3
<1> QED BY <1>1, <1>3, <1>4

LEMMA ShapeUnwind ==
    ASSUME NEW search, Sound(search), ~search.over, Len(search.levels) > 0,
           NEW n \in Nat, Len(search.levels) <= n, NEW error, Shape(search, n, error)
    PROVE  Shape(Unwind(search), n, error)
<1>1. PICK t, levels : t = Unwind(search) /\ levels = search.levels
  OBVIOUS
<1>2. Stack(levels) /\ search.next = Nothing /\ search.error = error
  BY <1>1 DEF Sound, Shape
<1>3. /\ t.levels = Pop(levels) /\ t.error = search.error /\ t.next = search.next
  BY <1>1 DEF Sound, Unwind
<1>4. PICK k \in Nat : k = Len(levels) /\ Len(t.levels) = k - 1
  <2>1. Len(levels) > 0
    BY <1>1
  <2> QED BY <1>2, <1>3, <2>1, PopIs, SeqIs DEF Stack
<1>5. k <= n
  BY <1>1, <1>4
<1>6. Shape(t, n, error)
  BY <1>2, <1>3, <1>4, <1>5 DEF Shape
<1> QED BY <1>1, <1>6

LEMMA ShapeDone ==
    ASSUME NEW search, Sound(search), ~search.over, Len(search.levels) > 0,
           NEW v, v = search.levels[Len(search.levels)], StateAt(v, v.index) = "Done",
           NEW n \in Nat, NEW error, Shape(search, n, error)
    PROVE  Shape(AtDone(search), n, error)
<1>1. PICK levels : levels = search.levels
  OBVIOUS
<1>2. PICK k \in Nat : k = Len(levels) /\ k > 0 /\ v = levels[k]
  BY <1>1, SeqIs DEF Sound, Stack
<1>3. Stack(levels) /\ search.error = error
  BY <1>1 DEF Sound, Shape
<1>4. k <= n
  BY <1>1, <1>2 DEF Shape
<1>5. PICK t : t = [levels EXCEPT ![k].index = @ + 1]
  OBVIOUS
<1>6. MovesOn(t, levels, k)
  <2>1. StateAt(levels[k], levels[k].index) = "Done"
    BY <1>2
  <2> QED BY <1>2, <1>3, <1>5, <2>1, AdvanceIs
<1>7. AtDone(search) = IF t[k].index <= Len(t[k].msgs) THEN Resume(search, t)
                       ELSE IF k = 1 THEN Stop(search, t, Nothing)
                                     ELSE Resume(search, SquashLatest(t))
  BY <1>1, <1>2, <1>5 DEF AtDone
<1>8. Len(t) = k /\ Len(t) <= n /\ Len(t) <= n + 1
  BY <1>4, <1>6 DEF MovesOn
<1>9. Shape(Resume(search, t), n, error)
  BY <1>8, ShapeResume
<1>10. Shape(Stop(search, t, Nothing), n, error)
  BY <1>3, <1>8, ShapeStop
<1>11. CASE k = 1
  BY <1>7, <1>9, <1>10, <1>11
<1>12. CASE k # 1
  <2>1. k > 1 /\ IsSeq(t) /\ IsSeq(t[k].responses)
    BY <1>2, <1>6, <1>12 DEF MovesOn, Orderly, IsLevel
  <2>2. Len(SquashLatest(t)) = k - 1
    BY <1>2, <1>3, <1>6, <2>1, SquashIs DEF MovesOn, SquashLatest
  <2>3. Len(SquashLatest(t)) <= n
    BY <1>4, <2>2
  <2>4. Shape(Resume(search, SquashLatest(t)), n, error)
    BY <2>3, ShapeResume
  <2> QED BY <1>7, <1>9, <1>12, <2>4
<1> QED BY <1>11, <1>12

LEMMA ShapeShouldReply ==
    ASSUME NEW search, Sound(search), ~search.over, Len(search.levels) > 0,
           NEW v, v = search.levels[Len(search.levels)], StateAt(v, v.index) = "ShouldReply",
           NEW n \in Nat, NEW error, Shape(search, n, error)
    PROVE  Shape(AtShouldReply(search), n, error)
<1>1. PICK levels : levels = search.levels
  OBVIOUS
<1>2. PICK k \in Nat : k = Len(levels) /\ k > 0 /\ v = levels[k]
  BY <1>1, SeqIs DEF Sound, Stack
<1>3. Stack(levels) /\ search.error = error
  BY <1>1 DEF Sound, Shape
<1>4. k <= n
  BY <1>1, <1>2 DEF Shape
<1>5. PICK reply, drop : /\ reply = FindReply(levels, error)
                         /\ drop = (error /\ k # search.start)
  OBVIOUS
<1>6. PICK kept, lost :
        /\ kept = IF drop THEN [levels EXCEPT ![k].responses = Front(@)] ELSE levels
        /\ lost = search.thrown + (IF drop THEN 1 ELSE 0)
  OBVIOUS
<1>7. Stack(kept) /\ Len(kept) = k
  <2>1. CASE drop
    <3>1. PICK w : w = WithoutLast(v)
      OBVIOUS
    <3>2. Underway(v)
      BY <1>2, <1>3 DEF Stack
    <3>3. Alike(v, w) /\ Underway(w) /\ (Started(v) => Started(w))
      BY <3>1, <3>2, WithoutLastIs, AlikeIs
    <3>4. Replaces(w, levels)
      BY <1>2, <1>3, <3>3 DEF Replaces, Alike, Stack
    <3>5. kept = [levels EXCEPT ![k] = w]
      BY <1>2, <1>6, <2>1, <3>1 DEF WithoutLast
    <3>6. Len(levels) > 0
      BY <1>2
    <3>7. StackWith([levels EXCEPT ![Len(levels)] = w], levels, w)
      BY <1>3, <3>4, <3>6, TopReplaced, Zenon
    <3> QED BY <1>2, <3>5, <3>7 DEF StackWith
  <2>2. CASE ~drop
    BY <1>2, <1>3, <1>6, <2>2
  <2> QED BY <2>1, <2>2
<1>8. PICK t : t = SetState(kept, "Replying")
  OBVIOUS
<1>9. Len(t) = k
  <2>1. "Replying" \in MsgStates /\ "Replying" # "NotExecuted" /\ Len(kept) > 0
    BY <1>2, <1>7 DEF MsgStates
  <2>2. StateSet(t, kept, "Replying")
    BY <1>7, <1>8, <2>1, StateSetIs, Zenon
  <2> QED BY <1>7, <2>2 DEF StateSet
<1>10. reply # Nothing => reply.error = error
  BY <1>5 DEF FindReply
<1>11. Len(t) <= n /\ Len(t) <= n + 1
  BY <1>4, <1>9
<1>12. Shape(Unwind(search), n, error)
  <2>1. Len(search.levels) <= n
    BY <1>1, <1>2, <1>4
  <2> QED BY <2>1, ShapeUnwind
<1>13. \A x : Shape([Stop(search, t, reply) EXCEPT !.thrown = x], n, error)
  BY <1>3, <1>10, <1>11, ShapeStop, Zenon
<1>14. \/ AtShouldReply(search) = Unwind(search)
       \/ \E x : AtShouldReply(search) = [Stop(search, t, reply) EXCEPT !.thrown = x]
  <2>1. PICK found : found = Stop(search, t, reply)
    OBVIOUS
  <2>2. \/ AtShouldReply(search) = Unwind(search)
        \/ AtShouldReply(search) = [found EXCEPT !.thrown = @ + (IF drop THEN 1 ELSE 0)]
    BY <1>1, <1>2, <1>3, <1>5, <1>6, <1>8, <2>1 DEF AtShouldReply
  <2>3. PICK x : x = found.thrown + (IF drop THEN 1 ELSE 0)
    OBVIOUS
  <2>4. [found EXCEPT !.thrown = @ + (IF drop THEN 1 ELSE 0)] = [found EXCEPT !.thrown = x]
    BY <2>3
  <2> QED BY <2>1, <2>2, <2>4
<1> QED BY <1>12, <1>13, <1>14

LEMMA ShapeTurn ==
    ASSUME NEW search, Sound(search), ~search.over, Len(search.levels) > 0,
           NEW n \in Nat, NEW error, Shape(search, n, error)
    PROVE  Shape(Turn(search), n, error)
<1>1. PICK levels, at : levels = search.levels /\ at = Current(Last(levels)).state
  OBVIOUS
<1>2. PICK v : v = levels[Len(levels)]
  OBVIOUS
<1>3. PICK k \in Nat : k = Len(levels) /\ k > 0 /\ v = levels[k] /\ Stack(levels)
  BY <1>1, <1>2, SeqIs DEF Sound, Stack
<1>4. at = StateAt(v, v.index) /\ at \in MsgStates
  <2>1. Underway(v)
    BY <1>3 DEF Stack
  <2> QED BY <1>1, <1>2, <2>1 DEF Current, Last, StateAt, Underway, IsLevel
<1>5. levels # <<>> /\ search.error \in BOOLEAN /\ search.error = error /\ k <= n + 1
  BY <1>1, <1>3, EmptyIs DEF Sound, Shape
<1>6. Turn(search) = CASE at = "NotExecuted" -> AtNotExecuted(search)
                       [] at = "ShouldReply" -> AtShouldReply(search)
                       [] at \in {"Done", "Replying"} /\ search.error -> Unwind(search)
                       [] at = "Done" /\ ~search.error -> AtDone(search)
                       [] at = "Replying" /\ ~search.error ->
                            Resume(search, SetState(levels, "Done"))
  BY <1>1, <1>5 DEF Turn
<1>7. CASE at = "NotExecuted"
  <2>1. PICK msg, s : /\ msg = Current(Last(levels))
                      /\ s = IF msg.reply_on = "never" THEN "Done" ELSE "ShouldReply"
    OBVIOUS
  <2>2. PICK t : t = SetState(levels, s)
    OBVIOUS
  <2>3. Len(t) <= n + 1
    <3>1. s \in MsgStates /\ s # "NotExecuted" /\ Len(levels) > 0
      BY <1>3, <2>1 DEF MsgStates
    <3>2. StateSet(t, levels, s)
      BY <1>3, <2>2, <3>1, StateSetIs, Zenon
    <3> QED BY <1>3, <1>5, <3>2 DEF StateSet
  <2>4. PICK found : found = [type |-> "msg", to |-> msg.to, sender |-> Caller(levels)]
    OBVIOUS
  <2>5. AtNotExecuted(search) = Stop(search, t, found)
    BY <1>1, <2>1, <2>2, <2>4 DEF AtNotExecuted
  <2>6. found.type # "reply"
    BY <2>4
  <2>7. Shape(Stop(search, t, found), n, error)
    BY <1>5, <2>3, <2>6, ShapeStop
  <2> QED BY <1>6, <1>7, <2>5, <2>7
<1>8. CASE at = "ShouldReply"
  BY <1>1, <1>2, <1>4, <1>6, <1>8, ShapeShouldReply
<1>9. at # "NotExecuted" => k <= n
  BY <1>1, <1>3, <1>4 DEF Shape
<1>10. CASE at \in {"Done", "Replying"} /\ search.error
  <2>1. Turn(search) = Unwind(search)
    BY <1>6, <1>10
  <2>2. Len(search.levels) <= n
    BY <1>1, <1>3, <1>9, <1>10
  <2> QED BY <2>1, <2>2, ShapeUnwind
<1>11. CASE at = "Done" /\ ~search.error
  BY <1>1, <1>2, <1>4, <1>6, <1>11, ShapeDone
<1>12. CASE at = "Replying" /\ ~search.error
  <2>1. Turn(search) = Resume(search, SetState(levels, "Done"))
    BY <1>6, <1>12
  <2>2. Len(levels) > 0
    BY <1>3
  <2>3. StateSet(SetState(levels, "Done"), levels, "Done")
    BY <1>3, <2>2, StateSetIs DEF MsgStates
  <2>4. Len(SetState(levels, "Done")) <= n
    BY <1>3, <1>9, <1>12, <2>3 DEF StateSet
  <2>5. Shape(Resume(search, SetState(levels, "Done")), n, error)
    BY <2>4, ShapeResume
  <2> QED BY <2>1, <2>5
<1> QED BY <1>4, <1>5, <1>7, <1>8, <1>10, <1>11, <1>12 DEF MsgStates

LEMMA SearchShape ==
    ASSUME NEW levels, Stack(levels), NEW error \in BOOLEAN, NEW n \in Nat,
           Len(levels) <= n + 1,
           Len(levels) > n =>
             StateAt(levels[Len(levels)], levels[Len(levels)].index) = "NotExecuted"
    PROVE  Shape(FindNext(levels, error), n, error)
<1>1. PICK last \in Nat : last = Turns(levels)
  BY SeqIs DEF Turns, Stack
<1>2. PICK turn : /\ IsLoop(last, levels, error, turn)
                  /\ FindNext(levels, error) = turn[last]
  <2>1. PICK f : f = (CHOOSE turn : IsLoop(last, levels, error, turn))
    OBVIOUS
  <2>2. IsLoop(last, levels, error, f)
    BY <2>1, LoopExists
  <2>3. FindNext(levels, error) = f[last]
    BY <1>1, <2>1, LoopIsChosen
  <2> QED BY <2>2, <2>3
<1> DEFINE G == {k \in 0..last : Sound(turn[k]) /\ Shape(turn[k], n, error)}
<1>3. 0 \in G
  <2>1. PICK s : s = Search(levels, error)
    OBVIOUS
  <2>2. turn[0] = s
    BY <1>2, <2>1 DEF IsLoop
  <2>3. /\ DOMAIN s = {"levels", "error", "start", "next", "thrown", "over"}
        /\ s.levels = levels /\ s.error = error /\ s.over = FALSE /\ s.next = Nothing
    BY <2>1 DEF Search
  <2>4. Sound(s)
    BY <2>3, StackIsOrderly DEF Sound
  <2>5. Shape(s, n, error)
    BY <2>3 DEF Shape
  <2> QED BY <2>2, <2>4, <2>5
<1>4. ASSUME NEW i \in 1..last, i > 0, i - 1 \in G
      PROVE  i \in G
  <2>1. PICK s, t : s = turn[i - 1] /\ t = turn[i]
    OBVIOUS
  <2>2. Sound(s) /\ Shape(s, n, error)
    BY <1>4, <2>1
  <2> SUFFICES Sound(t) /\ Shape(t, n, error)
    BY <2>1
  <2>3. t = Turn(s)
    <3>1. turn[i] = IF i = 0 THEN Search(levels, error) ELSE Turn(turn[i - 1])
      BY <1>2 DEF IsLoop
    <3> QED BY <1>4, <2>1, <3>1
  <2>4. CASE s.over
    BY <2>2, <2>3, <2>4 DEF Turn
  <2>5. CASE ~s.over /\ Len(s.levels) > 0
    BY <2>2, <2>3, <2>5, TurnIs, ShapeTurn DEF Progress
  <2>6. CASE ~s.over /\ ~(Len(s.levels) > 0)
    <3>1. s.levels = <<>>
      BY <2>2, <2>6, NonEmpty DEF Sound, Stack
    <3> QED BY <2>2, <2>3, <3>1 DEF Turn
  <2> QED BY <2>4, <2>5, <2>6
<1> HIDE DEF G
<1>5. 0 \in 0..last
  OBVIOUS
<1>6. last \in G
  <2>1. \A i \in 0..last : i \in G
    BY <1>3, <1>4, <1>5, StepByStep
  <2> QED BY <2>1
<1> QED BY <1>2, <1>6 DEF G
-----------------------------------------------------------------------------
(* The run of a message or reply that succeeds.                            *)

\* What began, a level each: with ever more scopes open, of at most `size'.
Entries(began, n, size) ==
    /\ IsSeq(began) /\ Len(began) = n
    /\ \A m \in 1..n : /\ DOMAIN began[m] = {"scopes", "data"}
                       /\ began[m].scopes \in Nat /\ began[m].scopes <= size
    /\ \A m, j \in 1..n : m < j => began[m].scopes <= began[j].scopes

Tally ==
    /\ runs \in Nat /\ Grows(open_scopes, runs)
    /\ \/ Entries(level_began, Len(states), Len(open_scopes))
       \/ ~IsReply /\ Entries(level_began, Len(states) - 1, Len(open_scopes))

LEMMA PrefixIs ==
    ASSUME NEW s, IsSeq(s), NEW k \in 0..Len(s)
    PROVE  /\ IsSeq(SubSeq(s, 1, k)) /\ Len(SubSeq(s, 1, k)) = k
           /\ \A i \in 1..k : SubSeq(s, 1, k)[i] = s[i]
<1>1. PICK S : s \in Seq(S)
  BY DEF IsSeq
<1>2. PICK t : t = SubSeq(s, 1, k)
  OBVIOUS
<1>3. t \in Seq(S) /\ Len(t) = k /\ \A i \in 1..k : t[i] = s[i]
  BY <1>1, <1>2
<1> QED BY <1>2, <1>3 DEF IsSeq

LEMMA BeganIs ==
    ASSUME NEW n \in Nat, n = Len(states), n > 0, Tally
    PROVE  /\ Entries(Began, n, Len(open_scopes))
           /\ \A m \in 1..(n - 1) : Began[m] = level_began[m]
           /\ IsReply => Began = level_began
           /\ ~IsReply => /\ Began[n].scopes = Len(open_scopes)
                          /\ Began[n].data = states[n].data
<1>1. PICK size \in Nat : size = Len(open_scopes)
  BY DEF Tally, Grows
<1>2. CASE IsReply
  BY <1>2 DEF Tally, Began
<1>3. CASE ~IsReply
  <2>1. PICK k \in Nat : k = n - 1 /\ n = k + 1
    OBVIOUS
  <2>2. /\ IsSeq(level_began) /\ Len(level_began) \in {k, k + 1}
        /\ \A m \in 1..k : /\ DOMAIN level_began[m] = {"scopes", "data"}
                           /\ level_began[m].scopes \in Nat
                           /\ level_began[m].scopes <= size
        /\ \A m, j \in 1..k : m < j => level_began[m].scopes <= level_began[j].scopes
    <3>1. \A m \in 1..k : m \in 1..(k + 1)
      OBVIOUS
    <3> QED BY <1>1, <2>1, <3>1 DEF Tally, Entries
  <2>3. PICK below : below = SubSeq(level_began, 1, k)
    OBVIOUS
  <2>4. IsSeq(below) /\ Len(below) = k /\ \A m \in 1..k : below[m] = level_began[m]
    <3>1. k \in 0..Len(level_began)
      BY <2>2
    <3> QED BY <2>2, <2>3, <3>1, PrefixIs
  <2>5. PICK mine : mine = [scopes |-> size, data |-> states[n].data]
    OBVIOUS
  <2>6. DOMAIN mine = {"scopes", "data"} /\ mine.scopes = size
        /\ mine.data = states[n].data
    BY <2>5
  <2>7. PICK b : b = Append(below, mine)
    OBVIOUS
  <2>8. Appended(b, below, mine)
    BY <2>4, <2>7, AppendIs, Zenon
  <2>9. /\ IsSeq(b) /\ Len(b) = k + 1 /\ b[k + 1] = mine
        /\ \A m \in 1..k : b[m] = level_began[m]
    BY <2>4, <2>8 DEF Appended
  <2>10. \A m \in 1..(k + 1) : m \in 1..k \/ m = k + 1
    OBVIOUS
  <2>11. Entries(b, n, size)
    <3>1. \A m \in 1..n : /\ DOMAIN b[m] = {"scopes", "data"}
                          /\ b[m].scopes \in Nat /\ b[m].scopes <= size
      BY <2>1, <2>2, <2>6, <2>9, <2>10
    <3>2. ASSUME NEW m \in 1..n, NEW j \in 1..n, m < j
          PROVE  b[m].scopes <= b[j].scopes
      <4>1. m \in 1..k
        BY <2>1, <3>2
      <4>2. CASE j = k + 1
        BY <2>2, <2>6, <2>9, <4>1, <4>2
      <4>3. CASE j \in 1..k
        BY <2>2, <2>9, <3>2, <4>1, <4>3
      <4> QED BY <2>1, <2>10, <4>2, <4>3
    <3> QED BY <2>1, <2>9, <3>1, <3>2 DEF Entries
  <2>12. Began = b
    BY <1>1, <1>3, <2>1, <2>3, <2>5, <2>7 DEF Began, Last
  <2> QED BY <1>1, <1>3, <2>1, <2>6, <2>9, <2>11, <2>12
<1> QED BY <1>2, <1>3

Mine(data) == IF Returns(data) THEN [Began EXCEPT ![Carrier].data = data]
                               ELSE Began

\* The data of one entry in another.
Carries(b, began, c, data) ==
    /\ IsSeq(b) /\ Len(b) = Len(began)
    /\ \A m \in 1..Len(began) : /\ DOMAIN b[m] = {"scopes", "data"}
                                /\ b[m].scopes = began[m].scopes
                                /\ m # c => b[m] = began[m]
    /\ b[c].data = data

LEMMA CarriesIs ==
    ASSUME NEW began, IsSeq(began), NEW c \in 1..Len(began), NEW data,
           \A m \in 1..Len(began) : DOMAIN began[m] = {"scopes", "data"}
    PROVE  Carries([began EXCEPT ![c].data = data], began, c, data)
<1>1. PICK x : x = [began[c] EXCEPT !.data = data]
  OBVIOUS
<1>2. DOMAIN x = {"scopes", "data"} /\ x.data = data /\ x.scopes = began[c].scopes
  BY <1>1
<1>3. Replaced([began EXCEPT ![c] = x], began, c, x)
  BY ExceptIs, Zenon
<1>4. PICK b : b = [began EXCEPT ![c].data = data]
  OBVIOUS
<1>5. b = [began EXCEPT ![c] = x]
  BY <1>1, <1>4
<1>6. Replaced(b, began, c, x)
  BY <1>3, <1>5
<1>7. Carries(b, began, c, data)
  BY <1>2, <1>6 DEF Replaced, Carries
<1> QED BY <1>4, <1>7

\* What `mine' is of `began'.
Taken(b, n, data) ==
    /\ Entries(b, n, Len(open_scopes))
    /\ \A m \in 1..n : b[m].scopes = Began[m].scopes
    /\ \A m \in 1..n : b[m].data = IF m = Carrier /\ Returns(data)
                                   THEN data ELSE Began[m].data

LEMMA MineIs ==
    ASSUME NEW n \in Nat, n = Len(states), n > 0, IsReply => n > 1, Tally, NEW data
    PROVE  Taken(Mine(data), n, data)
<1>1. Entries(Began, n, Len(open_scopes))
  BY BeganIs
<1>2. CASE ~Returns(data)
  BY <1>1, <1>2 DEF Taken, Mine
<1>3. CASE Returns(data)
  <2>1. Carrier \in 1..n
    BY DEF Carrier
  <2>2. IsSeq(Began) /\ Carrier \in 1..Len(Began)
        /\ \A m \in 1..Len(Began) : DOMAIN Began[m] = {"scopes", "data"}
    BY <1>1, <2>1 DEF Entries
  <2>3. PICK b, began : b = Mine(data) /\ began = Began
    OBVIOUS
  <2>4. Carries([began EXCEPT ![Carrier].data = data], began, Carrier, data)
    BY <2>2, <2>3, CarriesIs, Zenon
  <2>5. b = [began EXCEPT ![Carrier].data = data]
    BY <1>3, <2>3 DEF Mine
  <2>6. Carries(b, began, Carrier, data) /\ Len(began) = n
    BY <1>1, <2>3, <2>4, <2>5 DEF Entries
  <2>7. Entries(b, n, Len(open_scopes))
    BY <1>1, <2>3, <2>6 DEF Carries, Entries
  <2>8. \A m \in 1..n : /\ b[m].scopes = began[m].scopes
                        /\ b[m].data = IF m = Carrier THEN data ELSE began[m].data
    BY <2>6 DEF Carries
  <2> QED BY <1>3, <2>3, <2>7, <2>8 DEF Taken
<1> QED BY <1>2, <1>3

\* The levels of t are those of `levels', but for their data.
OtherData(t, levels, n) ==
    /\ Stack(t) /\ Len(t) = n
    /\ \A m \in 1..n : /\ t[m].index = levels[m].index
                       /\ t[m].msgs = levels[m].msgs
                       /\ t[m].responses = levels[m].responses

LEMMA KeepDataIs ==
    ASSUME NEW n \in Nat, n = Len(states), Stack(states), Asks(states, next), NEW data
    PROVE  /\ OtherData(KeepData(data), states, n)
           /\ \A m \in 1..n : KeepData(data)[m].data =
                IF Runner # BankModule /\ m = DataLevel(data) THEN data ELSE states[m].data
<1>1. CASE Runner = BankModule
  BY <1>1 DEF KeepData, OtherData
<1>2. CASE Runner # BankModule
  <2>1. PICK d : d = DataLevel(data) /\ d \in 1..n
    BY DEF DataLevel, Asks, IsReply
  <2>2. PICK t : t = [states EXCEPT ![d].data = data]
    OBVIOUS
  <2>3. Stack(t) /\ Len(t) = n
    <3>1. d \in 1..Len(states)
      BY <2>1
    <3>2. /\ Stack([states EXCEPT ![d].data = data])
          /\ Len([states EXCEPT ![d].data = data]) = Len(states)
      BY <3>1, DataKept
    <3> QED BY <2>2, <3>2
  <2>4. PICK v, w : v = states[d] /\ w = WithData(v, data)
    OBVIOUS
  <2>5. Underway(v)
    BY <2>1, <2>4 DEF Stack
  <2>6. w.responses = v.responses /\ w.msgs = v.msgs /\ w.index = v.index /\ w.data = data
    BY <2>4, <2>5, WithDataResults
  <2>7. t = [states EXCEPT ![d] = w]
    BY <2>2, <2>4 DEF WithData
  <2>8. Replaced([states EXCEPT ![d] = w], states, d, w)
    <3>1. IsSeq(states) /\ d \in 1..Len(states)
      BY <2>1 DEF Stack
    <3> QED BY <3>1, ExceptIs, Zenon
  <2>9. t[d] = w /\ \A m \in 1..n : m # d => t[m] = states[m]
    BY <2>7, <2>8 DEF Replaced
  <2>10. KeepData(data) = t
    BY <1>2, <2>1, <2>2 DEF KeepData
  <2> QED BY <1>2, <2>1, <2>3, <2>4, <2>6, <2>9, <2>10 DEF OtherData
<1> QED BY <1>1, <1>2

LEMMA AnsweredResults ==
    ASSUME NEW levels, Stack(levels), NEW n \in Nat, n = Len(levels), n > 0,
           Started(levels[n]), NEW kept, OtherData(kept, levels, n),
           NEW run, NEW address, NEW t, t = Answered(kept, run, address)
    PROVE  /\ Stack(t) /\ AnsweredTo(t, levels, n, run)
           /\ \A m \in 1..n : /\ t[m].data = kept[m].data
                              /\ StateAt(t[m], t[m].index) = StateAt(levels[m], levels[m].index)
<1>1. /\ Stack(kept) /\ Len(kept) = n
      /\ \A m \in 1..n : /\ kept[m].index = levels[m].index
                         /\ kept[m].msgs = levels[m].msgs
                         /\ kept[m].responses = levels[m].responses
  BY DEF OtherData
<1>2. PICK v, w : v = kept[n] /\ w = WithResponse(v, run, address)
  OBVIOUS
<1>3. Underway(v) /\ n \in 1..n
  BY <1>1, <1>2 DEF Stack
<1>4. Alike(v, w)
  BY <1>2, <1>3, WithResponseIs
<1>5. /\ OtherEvents(w, v, Append(EventsAt(v, v.index), run))
      /\ Appended(w.responses, v.responses, Response(run, address))
      /\ w.data = v.data
  BY <1>2, <1>3, WithResponseResults
<1>6. Stack(t)
  <2>1. Len(kept) > 0 /\ Started(kept[Len(kept)])
    BY <1>1, <1>3 DEF Started, StateAt
  <2> QED BY <1>1, <2>1, AnsweredIs
<1>7. Replaced(t, kept, n, w)
  <2>1. IsSeq(kept) /\ n \in 1..Len(kept)
    BY <1>1 DEF Stack
  <2>2. Replaced([kept EXCEPT ![n] = w], kept, n, w)
    BY <2>1, ExceptIs, Zenon
  <2>3. t = [kept EXCEPT ![n] = w]
    BY <1>1, <1>2 DEF Answered
  <2> QED BY <2>2, <2>3
<1>8. Len(t) = n /\ t[n] = w /\ \A m \in 1..n : m # n => t[m] = kept[m]
  BY <1>1, <1>7 DEF Replaced
<1>9. v.index = levels[n].index /\ v.msgs = levels[n].msgs /\ v.responses = levels[n].responses
  BY <1>1, <1>2, <1>3
<1>10. OtherEvents(w, levels[n], Append(EventsAt(levels[n], levels[n].index), run))
  BY <1>5, <1>9 DEF OtherEvents, EventsAt
<1>11. Counted(t)
  BY <1>6, StackIsOrderly, StackCounted
<1>12. \A m \in 1..n :
         /\ t[m].index = levels[m].index
         /\ m # n => t[m].msgs = levels[m].msgs /\ t[m].responses = levels[m].responses
  BY <1>1, <1>4, <1>8, <1>9 DEF Alike
<1>13. AnsweredTo(t, levels, n, run)
  BY <1>5, <1>8, <1>9, <1>10, <1>11, <1>12 DEF AnsweredTo
<1>14. ASSUME NEW m \in 1..n
       PROVE  /\ t[m].data = kept[m].data
              /\ StateAt(t[m], t[m].index) = StateAt(levels[m], levels[m].index)
  <2>1. CASE m = n
    <3>1. StateAt(w, v.index) = StateAt(v, v.index)
      BY <1>3, <1>4 DEF Alike, Underway
    <3> QED BY <1>2, <1>4, <1>5, <1>8, <1>9, <2>1, <3>1 DEF StateAt, Alike
  <2>2. CASE m # n
    BY <1>1, <1>8, <2>2 DEF StateAt
  <2> QED BY <2>1, <2>2
<1> QED BY <1>6, <1>13, <1>14
-----------------------------------------------------------------------------
\* While a transaction runs: its tally, its books, and what is next.
RunningInv ==
    /\ Tally
    /\ Books(states, Len(states) - 1, open_scopes, level_began, runs)
    /\ Prepared(states, next, open_scopes, level_began)
    /\ IsReply /\ next.error => Len(open_scopes) = level_began[Len(states)].scopes

LEMMA DataAnswered ==
    ASSUME NEW n \in Nat, n = Len(states), Stack(states), Asks(states, next), RunningInv,
           NEW data, Runner = BankModule => data = NoData,
           NEW t, AnsweredTo(t, states, n, runs + 1),
           \A m \in 1..n : t[m].data = KeepData(data)[m].data,
           NEW m \in 1..n, Waiting(states[m])
    PROVE  HasData(t, m, Mine(data))
<1> SUFFICES t[m].data = Mine(data)[m].data
  BY DEF HasData
<1>3. n > 0 /\ (IsReply => n > 1)
  BY DEF Asks, IsReply
<1>4. Tally
  BY DEF RunningInv
<1>5. Taken(Mine(data), n, data)
  BY <1>3, <1>4, MineIs
<1>6. Mine(data)[m].data = IF m = Carrier /\ Returns(data)
                           THEN data ELSE Began[m].data
  BY <1>5 DEF Taken
<1>7. t[m].data = IF Runner # BankModule /\ m = DataLevel(data) THEN data
                                                                ELSE states[m].data
  BY KeepDataIs
<1>8. CASE m = n
  <2>1. ~IsReply
    BY <1>8 DEF RunningInv, Prepared, Waiting, IsReply
  <2>2. Returns(data) <=> Runner # BankModule
    BY <2>1 DEF Returns
  <2>3. Began[m].data = states[m].data
    BY <1>3, <1>4, <1>8, <2>1, BeganIs
  <2>4. DataLevel(data) = n /\ Carrier = n
    BY <2>1 DEF DataLevel, Carrier
  <2> QED BY <1>6, <1>7, <1>8, <2>2, <2>3, <2>4
<1>9. CASE m # n
  <2>1. m \in 1..(n - 1) /\ m <= n - 1
    BY <1>9
  <2>2. Accounted(states, m, open_scopes, level_began)
    BY <2>1 DEF RunningInv, Books
  <2>3. states[m].data = level_began[m].data
    BY <2>2 DEF Accounted, HasData
  <2>4. Began[m] = level_began[m]
    BY <1>3, <1>4, <2>1, BeganIs
  <2>5. CASE IsReply /\ data # NoData
    <3>1. DataLevel(data) = n - 1 /\ Carrier = n - 1 /\ Runner # BankModule
      BY <2>5 DEF DataLevel, Carrier
    <3> QED BY <1>6, <1>7, <2>3, <2>4, <2>5, <3>1 DEF Returns
  <2>6. CASE IsReply /\ data = NoData
    <3>1. DataLevel(data) = n /\ ~Returns(data)
      BY <2>6 DEF DataLevel, Returns
    <3> QED BY <1>6, <1>7, <1>9, <2>3, <2>4, <3>1
  <2>7. CASE ~IsReply
    <3>1. DataLevel(data) = n /\ Carrier = n
      BY <2>7 DEF DataLevel, Carrier
    <3> QED BY <1>6, <1>7, <1>9, <2>3, <2>4, <3>1
  <2> QED BY <2>5, <2>6, <2>7
<1> QED BY <1>8, <1>9

\* The levels after a response: nothing of the level that it adds has run.
Responded(levels, n, data, msgs) ==
    /\ Stack(levels) /\ Len(levels) \in {n, n + 1}
    /\ Books(levels, Len(levels), ScopePushed, Mine(data), runs + 1)
    /\ Fresh(levels[Len(levels)])
    /\ \A m \in 1..n : Flat(states[m]) => Flat(levels[m])
    /\ Len(levels) > n =>
         /\ StateAt(levels[Len(levels)], levels[Len(levels)].index) = "NotExecuted"
         /\ Flat(levels[Len(levels)]) /\ msgs # <<>>

LEMMA BooksResponded ==
    ASSUME NEW n \in Nat, n = Len(states), Stack(states), Asks(states, next), RunningInv,
           NEW data, Runner = BankModule => data = NoData,
           NEW msgs \in BoundedSeq(Messages, MaxMsgs)
    PROVE  Responded(Respond(data, msgs), n, data, msgs)
<1>1. n > 0 /\ Started(states[n]) /\ (IsReply => n > 1)
  BY DEF Asks, IsReply
<1>2. PICK kept, t : kept = KeepData(data) /\ t = Answered(kept, runs + 1, Runner)
  OBVIOUS
<1>3. OtherData(kept, states, n)
  BY <1>2, KeepDataIs
<1>4. /\ Stack(t) /\ AnsweredTo(t, states, n, runs + 1)
      /\ \A m \in 1..n : /\ t[m].data = kept[m].data
                         /\ StateAt(t[m], t[m].index) = StateAt(states[m], states[m].index)
  BY <1>1, <1>2, <1>3, AnsweredResults
<1>5. PICK mine, r : mine = Mine(data) /\ r = runs
  OBVIOUS
<1>6. Tally /\ r \in Nat /\ Grows(open_scopes, r)
  BY <1>5 DEF RunningInv, Tally
<1>7. Taken(mine, n, data) /\ Entries(Began, n, Len(open_scopes))
  BY <1>1, <1>5, <1>6, MineIs, BeganIs
<1>8. \A m \in 1..(n - 1) : mine[m].scopes = level_began[m].scopes
  BY <1>1, <1>6, <1>7, BeganIs DEF Taken
<1>9. Earlier(level_began, n - 1, open_scopes)
  BY <1>7, <1>8 DEF Earlier, Taken, Entries
<1>10. Waiting(states[n]) => /\ EventsAt(states[n], states[n].index) = <<>>
                             /\ mine[n].scopes = Len(open_scopes)
  <2> SUFFICES ASSUME Waiting(states[n])
               PROVE  /\ EventsAt(states[n], states[n].index) = <<>>
                      /\ mine[n].scopes = Len(open_scopes)
    OBVIOUS
  <2>1. ~IsReply
    BY DEF RunningInv, Prepared, Waiting, IsReply
  <2>2. EventsAt(states[n], states[n].index) = <<>>
    BY <2>1 DEF RunningInv, Prepared, IsReply
  <2>3. Began[n].scopes = Len(open_scopes)
    BY <1>1, <1>6, <2>1, BeganIs
  <2> QED BY <1>1, <1>7, <2>2, <2>3 DEF Taken
<1>11. \A m \in 1..n : Waiting(states[m]) => HasData(t, m, mine)
  BY <1>2, <1>4, <1>5, DataAnswered
<1>12. Books(states, n - 1, open_scopes, level_began, r)
  BY <1>5 DEF RunningInv
<1>13. PICK open : open = Append(open_scopes, r + 1) /\ open = ScopePushed
  BY <1>5 DEF ScopePushed
<1>14. AnsweredTo(t, states, n, r + 1)
  BY <1>4, <1>5
<1>15. Booked(t, n, open, mine, r + 1)
  <2>1. \A m \in 1..n : StateAt(t[m], t[m].index) = StateAt(states[m], states[m].index)
    BY <1>4
  <2>2. open = Append(open_scopes, r + 1)
    BY <1>13
  <2> QED BY <1>1, <1>6, <1>8, <1>9, <1>10, <1>11, <1>12, <1>14, <2>1, <2>2, BooksAnswered
<1>16. Len(t) = n /\ Counted(t)
  BY <1>4 DEF AnsweredTo
<1>17. t = Answer(kept)
  <2>1. DOMAIN kept = 1..n /\ n \in 1..n /\ Len(kept) = n
    BY <1>1, <1>3, SeqIs DEF Stack, OtherData
  <2>2. {"msgs", "responses"} \subseteq DOMAIN kept[n]
    BY <1>3, <2>1 DEF OtherData, Stack, Underway, IsLevel
  <2> QED BY <1>2, <2>1, <2>2 DEF Answer, Answered, WithResponse
<1>18. PICK levels : levels = Respond(data, msgs)
  OBVIOUS
<1>19. levels = IF msgs = <<>> THEN t ELSE Append(t, Level(Runner, msgs))
  BY <1>2, <1>17, <1>18 DEF Respond, Ask
<1>20. Stack(levels)
  BY <1>18, RespondIs
<1>23. ASSUME NEW m \in 1..n, Flat(states[m])
       PROVE  Flat(t[m])
  <2>1. CASE m # n
    <3>1. t[m].responses = states[m].responses
      BY <1>4, <2>1 DEF AnsweredTo
    <3> QED BY <1>23, <3>1 DEF Flat
  <2>2. CASE m = n
    <3>1. PICK address, new :
            /\ new = Response(runs + 1, address)
            /\ Appended(t[n].responses, states[n].responses, new)
      BY <1>4 DEF AnsweredTo
    <3>2. new.sent = <<>>
      BY <3>1 DEF Response
    <3>3. PICK k \in Nat : k = Len(states[n].responses)
      <4>1. IsSeq(states[n].responses)
        BY <1>1 DEF Stack, Underway, IsLevel
      <4> QED BY <4>1, SeqIs
    <3>4. /\ Len(t[n].responses) = k + 1 /\ t[n].responses[k + 1] = new
          /\ \A l \in 1..k : t[n].responses[l] = states[n].responses[l]
      BY <3>1, <3>3 DEF Appended
    <3>5. \A l \in 1..(k + 1) : l \in 1..k \/ l = k + 1
      OBVIOUS
    <3>6. \A l \in 1..k : states[n].responses[l].sent = <<>>
      BY <1>23, <2>2, <3>3 DEF Flat
    <3>7. \A l \in 1..(k + 1) : t[n].responses[l].sent = <<>>
      BY <3>2, <3>4, <3>5, <3>6
    <3> QED BY <2>2, <3>4, <3>7 DEF Flat
  <2> QED BY <2>1, <2>2
<1>21. CASE msgs = <<>>
  <2>1. levels = t
    BY <1>19, <1>21
  <2>2. Fresh(t[n])
    BY <1>1, <1>4 DEF Fresh, Started
  <2>3. Responded(t, n, data, msgs)
    <3>1. Stack(t) /\ Len(t) = n /\ ~(Len(t) > n)
      BY <1>4, <1>16
    <3>2. Books(t, Len(t), ScopePushed, Mine(data), runs + 1)
      BY <1>5, <1>13, <1>15, <3>1 DEF Booked
    <3> QED BY <1>23, <2>2, <3>1, <3>2 DEF Responded
  <2> QED BY <1>18, <2>1, <2>3
<1>22. CASE msgs # <<>>
  <2>1. IsSeq(msgs) /\ Len(msgs) > 0
    <3>1. PICK m \in 0..MaxMsgs : msgs \in [1..m -> Messages]
      BY SubMessagesAssumption DEF BoundedSeq, SeqOf
    <3>2. msgs \in Seq(Messages)
      BY <3>1, SubMessagesAssumption
    <3>3. IsSeq(msgs)
      BY <3>2 DEF IsSeq
    <3> QED BY <1>22, <3>3, NonEmpty
  <2>2. PICK v : v = Level(Runner, msgs)
    OBVIOUS
  <2>3. /\ v.responses = <<>> /\ v.index = 1 /\ Len(v.msgs) = Len(msgs)
        /\ \A i \in 1..Len(msgs) : EventsAt(v, i) = <<>>
    BY <2>1, <2>2, LevelResults
  <2>4. StateAt(v, 1) = "NotExecuted"
    BY <2>1, <2>2, LevelIs
  <2>5. Unrun(v)
    BY <2>3, <2>4 DEF Unrun, Waiting
  <2>6. 1 \in 1..Len(v.msgs)
    BY <2>1, <2>3, SeqIs
  <2>7. Fresh(v)
    BY <2>3, <2>6 DEF Fresh
  <2>8. levels = Append(t, v)
    BY <1>19, <1>22, <2>2
  <2>9. Appended(levels, t, v)
    <3>1. IsSeq(t)
      BY <1>16 DEF Counted
    <3> QED BY <2>8, <3>1, AppendIs, Zenon
  <2>10. Len(levels) = n + 1 /\ levels[n + 1] = v
    BY <1>16, <2>9 DEF Appended
  <2>11. Books(levels, n + 1, open, mine, r + 1)
    <3>1. r + 1 \in Nat
      BY <1>6
    <3> QED BY <1>1, <1>15, <1>16, <2>5, <2>9, <3>1, BooksPushed DEF Booked
  <2>12. \A m \in 1..n : levels[m] = t[m]
    BY <1>16, <2>9 DEF Appended
  <2>13. Flat(v)
    <3>1. Len(v.responses) = 0
      BY <2>3, EmptyIs
    <3> QED BY <3>1 DEF Flat
  <2>14. Books(levels, Len(levels), ScopePushed, Mine(data), runs + 1)
    BY <1>5, <1>13, <2>10, <2>11
  <2>15. \A m \in 1..n : Flat(states[m]) => Flat(levels[m])
    BY <1>23, <2>12
  <2>16. Responded(levels, n, data, msgs)
    BY <1>20, <1>22, <2>3, <2>4, <2>7, <2>10, <2>13, <2>14, <2>15 DEF Responded
  <2> QED BY <1>18, <2>16
<1> QED BY <1>21, <1>22
-----------------------------------------------------------------------------
(* The run of a message or reply that fails.                               *)

\* The levels t that catch an error of `levels', at the message of level k; the
\* response of that message goes, if it had one.
Caught(t, levels, n, k) ==
    LET v == levels[k]
        w == t[k]
    IN  /\ k \in 1..n /\ Len(t) = k /\ Waiting(v)
        /\ \A m \in 1..k : m # k => t[m] = levels[m]
        /\ w.index = v.index /\ StateAt(w, w.index) = "Replying"
        /\ Len(w.msgs) = Len(v.msgs) /\ w.data = v.data
        /\ \A i \in 1..Len(v.msgs) : /\ w.msgs[i].to = v.msgs[i].to
                                     /\ EventsAt(w, i) = EventsAt(v, i)
        /\ w.responses = IF k = n THEN v.responses ELSE Front(v.responses)

\* The scopes that are left.
Shortened(less, open, began, n, k) ==
    /\ Len(less) = IF k = n THEN Len(open) ELSE began[k].scopes
    /\ Len(less) <= Len(open)
    /\ \A i \in 1..Len(less) : less[i] = open[i]

\* The entries of what began below level k: their scopes; that they are the same.
HasScopes(began, k) == \A m \in 1..(k - 1) : began[m].scopes \in Nat
SameBelow(after, began, k) == \A m \in 1..(k - 1) : after[m] = began[m]

LEMMA OrderedCaught ==
    ASSUME NEW r \in Nat, NEW levels, NEW n \in Nat, n = Len(levels), Ordered(levels, r),
           NEW t, NEW k \in 1..n, Caught(t, levels, n, k)
    PROVE  /\ Ordered(t, r + 1)
           /\ \A m \in 1..k : \A e : In(e, t[m]) <=> In(e, levels[m])
<1>1. ASSUME NEW m \in 1..k
      PROVE  /\ Len(t[m].msgs) = Len(levels[m].msgs) /\ t[m].index = levels[m].index
             /\ \A i \in 1..Len(levels[m].msgs) : EventsAt(t[m], i) = EventsAt(levels[m], i)
  BY DEF Caught
<1>2. \A m \in 1..k : m \in 1..n
  OBVIOUS
<1>3. ASSUME NEW m \in 1..k
      PROVE  OrderedLevel(t[m], r + 1)
  <2>1. OrderedLevel(levels[m], r)
    BY <1>2 DEF Ordered
  <2>2. \A i \in 1..Len(levels[m].msgs) : Grows(EventsAt(levels[m], i), r + 1)
    BY <2>1, GrowsMore DEF OrderedLevel
  <2> QED BY <1>1, <2>1, <2>2 DEF OrderedLevel
<1>4. ASSUME NEW m \in 1..k, NEW j \in 1..k, m < j,
             NEW i \in 1..Len(t[m].msgs), NEW l \in 1..Len(t[j].msgs)
      PROVE  Before(EventsAt(t[m], i), EventsAt(t[j], l))
  BY <1>1, <1>2, <1>4 DEF Ordered
<1>5. Ordered(t, r + 1)
  BY <1>3, <1>4 DEF Ordered, Caught
<1>6. \A m \in 1..k : \A e : In(e, t[m]) <=> In(e, levels[m])
  BY <1>1 DEF In
<1> QED BY <1>5, <1>6

LEMMA SinceCaught ==
    ASSUME NEW levels, NEW n \in Nat, n = Len(levels), NEW t, NEW k \in 1..n,
           Caught(t, levels, n, k),
           \A m \in 1..k : \A e : In(e, t[m]) <=> In(e, levels[m]),
           NEW m \in 1..k, m < k, NEW e, k < n => ~Since(e, levels, k)
    PROVE  Since(e, t, m) <=> Since(e, levels, m)
<1>1. t[m] = levels[m] /\ Len(t) = k
  BY DEF Caught
<1>2. ASSUME NEW j \in 1..k, j > m, In(e, t[j])
      PROVE  \E i \in 1..n : i > m /\ In(e, levels[i])
  <2>1. j \in 1..n
    OBVIOUS
  <2> QED BY <1>2, <2>1
<1>3. ASSUME NEW j \in 1..n, j > m, In(e, levels[j])
      PROVE  \E i \in 1..k : i > m /\ In(e, t[i])
  <2>1. j \in 1..k
    <3> SUFFICES ASSUME j > k
                 PROVE  FALSE
      OBVIOUS
    <3>1. Since(e, levels, k) /\ k < n
      BY <1>3 DEF Since
    <3> QED BY <3>1
  <2> QED BY <1>3, <2>1
<1> QED BY <1>1, <1>2, <1>3 DEF Since

LEMMA UptoCaught ==
    ASSUME NEW levels, Counted(levels), NEW n \in Nat, n = Len(levels), NEW t, Counted(t),
           NEW k \in 1..n, Caught(t, levels, n, k), Len(levels[k].responses) > 0 \/ k = n,
           NEW m \in 1..k, m < k
    PROVE  /\ Upto(t, m) = Upto(levels, m)
           /\ Upto(t, k) = Upto(levels, k) - (IF k = n THEN 0 ELSE 1)
           /\ Upto(levels, m) \in Nat /\ Upto(levels, k) \in Nat /\ Upto(levels, n) \in Nat
<1>1. PICK p \in Nat : p = k - 1 /\ p > 0 /\ p < k /\ m <= p
  OBVIOUS
<1>2. Len(t) = k /\ \A j \in 1..p : t[j] = levels[j]
  BY <1>1 DEF Caught
<1>3. \A j \in 1..p : Len(t[j].responses) = Len(levels[j].responses)
  BY <1>2
<1>4. /\ p <= Len(levels) /\ p <= Len(t) /\ m \in Nat /\ m <= Len(levels) /\ m <= Len(t)
      /\ \A j \in 1..m : j \in 1..p
  BY <1>1, <1>2
<1>5. Upto(t, p) = Upto(levels, p)
  BY <1>3, <1>4, UptoSame
<1>6. Upto(t, m) = Upto(levels, m)
  BY <1>3, <1>4, UptoSame
<1>7. k \in 1..Len(levels) /\ n \in 1..Len(levels) /\ m \in 1..Len(levels) /\ k \in 1..Len(t)
  BY <1>2
<1>8. /\ Upto(levels, k - 1) \in Nat /\ Upto(levels, k) \in Nat
      /\ Upto(levels, k) = Upto(levels, k - 1) + Len(levels[k].responses)
      /\ Upto(levels, n) \in Nat /\ Upto(levels, m) \in Nat
  BY <1>7, UptoIs
<1>9. Upto(t, k) = Upto(t, k - 1) + Len(t[k].responses)
  BY <1>7, UptoIs
<1>10. Len(t[k].responses) = Len(levels[k].responses) - (IF k = n THEN 0 ELSE 1)
  <2>1. IsSeq(levels[k].responses) /\ Len(levels[k].responses) \in Nat
    BY SeqIs DEF Counted
  <2>2. CASE k = n
    BY <2>1, <2>2 DEF Caught
  <2>3. CASE k # n
    <3>1. t[k].responses = Front(levels[k].responses) /\ Len(levels[k].responses) > 0
      BY <2>3 DEF Caught
    <3> QED BY <2>1, <2>3, <3>1, FrontIs
  <2> QED BY <2>2, <2>3
<1>11. PICK q \in Nat : q = Len(levels[k].responses)
  BY SeqIs DEF Counted
<1>12. /\ Upto(levels, k) = Upto(levels, p) + q /\ Upto(levels, p) \in Nat
       /\ Upto(t, k) = Upto(levels, p) + (q - (IF k = n THEN 0 ELSE 1))
  BY <1>1, <1>5, <1>8, <1>9, <1>10, <1>11
<1>13. PICK a \in Nat : a = Upto(levels, p)
  BY <1>12
<1>14. Upto(t, k) = (a + q) - (IF k = n THEN 0 ELSE 1) /\ Upto(levels, k) = a + q
  BY <1>12, <1>13
<1> QED BY <1>6, <1>8, <1>14

\* What is flat after the error was caught was so before.
LEMMA FlatCaught ==
    ASSUME NEW levels, NEW n \in Nat, n = Len(levels), NEW t, NEW k \in 1..n,
           Caught(t, levels, n, k), k < n => FlatAbove(levels, k),
           k < n => LastFlat(levels[k]),
           IsSeq(levels[k].responses), Len(levels[k].responses) > 0 \/ k = n,
           NEW m \in 1..k, m < k, FlatAbove(t, m)
    PROVE  FlatAbove(levels, m)
<1> SUFFICES ASSUME NEW j \in 1..n, j > m
             PROVE  Flat(levels[j])
  BY DEF FlatAbove
<1>1. CASE j > k
  BY <1>1 DEF FlatAbove
<1>2. CASE j < k
  <2>1. j \in 1..k /\ t[j] = levels[j] /\ Len(t) = k
    BY <1>2 DEF Caught
  <2> QED BY <2>1 DEF FlatAbove
<1>3. CASE j = k
  <2>1. Flat(t[k])
    BY DEF FlatAbove, Caught
  <2>2. PICK q \in Nat : q = Len(levels[k].responses)
    BY SeqIs
  <2>3. CASE k = n
    BY <1>3, <2>1, <2>3 DEF Caught, Flat
  <2>4. CASE k # n
    <3>1. t[k].responses = Front(levels[k].responses) /\ q > 0 /\ k < n
      BY <2>2, <2>4 DEF Caught
    <3>2. /\ Len(t[k].responses) = q - 1
          /\ \A i \in 1..(q - 1) : t[k].responses[i] = levels[k].responses[i]
      BY <2>2, <3>1, FrontIs
    <3>3. levels[k].responses[q].sent = <<>>
      BY <2>2, <3>1 DEF LastFlat, Last
    <3>4. \A i \in 1..q : i \in 1..(q - 1) \/ i = q
      OBVIOUS
    <3>5. \A i \in 1..(q - 1) : levels[k].responses[i].sent = <<>>
      BY <2>1, <3>2 DEF Flat
    <3> QED BY <1>3, <2>2, <3>3, <3>4, <3>5 DEF Flat
  <2> QED BY <2>3, <2>4
<1> QED BY <1>1, <1>2, <1>3

LEMMA BooksCaught ==
    ASSUME NEW r \in Nat, NEW levels, Stack(levels), NEW n \in Nat, n = Len(levels),
           NEW open, Len(open) \in Nat, NEW began, Books(levels, n - 1, open, began, r),
           NEW t, Stack(t), NEW k \in 1..n, Caught(t, levels, n, k),
           k < n => FlatAbove(levels, k), HasScopes(began, n),
           NEW less, Shortened(less, open, began, n, k),
           NEW after, SameBelow(after, began, k)
    PROVE  Books(t, k - 1, less, after, r + 1)
<1> USE DEF HasScopes, SameBelow
<1>1. Counted(levels) /\ Counted(t)
  BY StackIsOrderly, StackCounted
<1>2. Ordered(levels, r)
  BY DEF Books
<1>3. /\ Ordered(t, r + 1)
      /\ \A m \in 1..k : \A e : In(e, t[m]) <=> In(e, levels[m])
  BY <1>2, OrderedCaught
<1>4. Len(t) = k /\ \A m \in 1..k : m < k => t[m] = levels[m] /\ m \in 1..n /\ m < n
  BY DEF Caught
<1>5. \A m \in 1..k : m < k => LastFlat(t[m])
  BY <1>4 DEF Books
<1>6. k < n => LastFlat(levels[k]) /\ Len(levels[k].responses) > 0
  BY DEF Books, Stack, Linked
<1>7. IsSeq(levels[k].responses) /\ (Len(levels[k].responses) > 0 \/ k = n)
  BY <1>1, <1>6 DEF Counted
<1>8. ASSUME k < n
      PROVE  Accounted(levels, k, open, began)
  <2>1. k <= n - 1 /\ Waiting(levels[k])
    BY <1>8 DEF Caught
  <2> QED BY <2>1 DEF Books
<1>9. ASSUME NEW m \in 1..k, m < k, Waiting(t[m])
      PROVE  Accounted(t, m, less, after)
  <2>1. m \in 1..n /\ m <= n - 1 /\ t[m] = levels[m] /\ m < n /\ m \in 1..(k - 1)
    BY <1>4, <1>9
  <2>2. Accounted(levels, m, open, began)
    BY <1>9, <2>1 DEF Books
  <2>3. after[m] = began[m]
    BY <2>1
  <2>4. Scoped(t, m, less, after)
    <3> SUFFICES ASSUME FlatAbove(t, m)
                 PROVE  Len(less) = began[m].scopes + 1 + Upto(t, k) - Upto(t, m)
      BY <1>4, <2>3 DEF Scoped
    <3>1. FlatAbove(levels, m)
      BY <1>6, <1>7, <1>9, FlatCaught
    <3>2. Len(open) = began[m].scopes + 1 + Upto(levels, n) - Upto(levels, m)
      BY <2>1, <2>2, <3>1 DEF Accounted, Scoped
    <3>3. /\ Upto(t, m) = Upto(levels, m)
          /\ Upto(t, k) = Upto(levels, k) - (IF k = n THEN 0 ELSE 1)
          /\ Upto(levels, m) \in Nat /\ Upto(levels, k) \in Nat /\ Upto(levels, n) \in Nat
      BY <1>1, <1>7, <1>9, UptoCaught
    <3>4. CASE k = n
      <4>1. Len(less) = Len(open)
        BY <3>4 DEF Shortened
      <4> QED BY <3>2, <3>3, <3>4, <4>1
    <3>5. CASE k < n
      <4>1. Len(less) = began[k].scopes /\ began[k].scopes \in Nat /\ began[m].scopes \in Nat
        <5>1. k \in 1..(n - 1) /\ m \in 1..(n - 1)
          BY <2>1, <3>5
        <5> QED BY <3>5, <5>1 DEF Shortened
      <4>2. Len(open) = began[k].scopes + 1 + Upto(levels, n) - Upto(levels, k)
        BY <1>8, <3>5 DEF Accounted, Scoped
      <4>3. PICK a, b, c, x, y : /\ a = Upto(levels, m) /\ b = Upto(levels, k)
                                 /\ c = Upto(levels, n) /\ x = began[m].scopes
                                 /\ y = began[k].scopes
        OBVIOUS
      <4>4. x + 1 + c - a = y + 1 + c - b /\ a \in Nat /\ b \in Nat /\ c \in Nat
            /\ x \in Nat /\ y \in Nat
        BY <3>2, <3>3, <4>1, <4>2, <4>3
      <4>5. y = x + 1 + (b - 1) - a
        BY <4>4, SMTT(20)
      <4>6. k # n
        BY <3>5
      <4> QED BY <3>3, <4>1, <4>3, <4>5, <4>6
    <3> QED BY <3>4, <3>5
  <2>5. HasData(t, m, after)
    BY <2>1, <2>2, <2>3 DEF Accounted, HasData
  <2>6. Counts(t, m, less, after)
    <3> SUFFICES ASSUME NEW i \in 1..Len(less)
                 PROVE  Since(less[i], t, m) <=> i > began[m].scopes
      BY <2>3 DEF Counts
    <3>1. less[i] = open[i] /\ i \in 1..Len(open)
      <4>1. Len(less) \in Nat /\ Len(less) <= Len(open)
        BY DEF Shortened
      <4> QED BY <4>1 DEF Shortened
    <3>2. k < n => ~Since(open[i], levels, k)
      <4> SUFFICES ASSUME k < n
                   PROVE  ~Since(open[i], levels, k)
        OBVIOUS
      <4>1. Len(less) = began[k].scopes /\ began[k].scopes \in Nat
        <5>1. k \in 1..(n - 1)
          OBVIOUS
        <5> QED BY <5>1 DEF Shortened
      <4>2. ~(i > began[k].scopes)
        BY <4>1
      <4> QED BY <1>8, <3>1, <4>2 DEF Accounted, Counts
    <3>3. Since(open[i], t, m) <=> Since(open[i], levels, m)
      BY <1>3, <1>9, <3>2, SinceCaught
    <3>4. Since(open[i], levels, m) <=> i > began[m].scopes
      BY <2>2, <3>1 DEF Accounted, Counts
    <3> QED BY <3>1, <3>3, <3>4
  <2> QED BY <2>4, <2>5, <2>6 DEF Accounted
<1>10. \A m \in 1..k : m <= k - 1 => m < k
  OBVIOUS
<1> QED BY <1>3, <1>4, <1>5, <1>9, <1>10 DEF Books
-----------------------------------------------------------------------------
\* What the search has come to, that looks for who catches an error: it has
\* given up levels, and counted their responses; where the error is caught, the
\* response of the message that did not fail itself too.
Undone(search, levels, n) ==
    LET left == search.levels
        k == Len(left)
        found == search.next
    IN  /\ search.start = n /\ k \in 0..n /\ search.error = TRUE
        /\ ~search.over =>
             /\ \A m \in 1..k : left[m] = levels[m]
             /\ search.thrown = Upto(levels, n) - Upto(levels, k)
        /\ search.over /\ found # Nothing =>
             /\ found.type = "reply"
             /\ Caught(left, levels, n, k)
             /\ search.thrown = Upto(levels, n) - Upto(levels, k) + (IF k = n THEN 0 ELSE 1)

LEMMA UndoneUnwind ==
    ASSUME NEW levels, Stack(levels), NEW n \in Nat, n = Len(levels),
           NEW search, Sound(search), ~search.over, Len(search.levels) > 0,
           Undone(search, levels, n)
    PROVE  Undone(Unwind(search), levels, n)
<1>1. PICK t, left : t = Unwind(search) /\ left = search.levels
  OBVIOUS
<1>2. PICK k \in Nat : k = Len(left) /\ k > 0
  BY <1>1, SeqIs DEF Sound, Stack
<1>3. /\ Stack(left) /\ search.start = n /\ k \in 1..n /\ search.error = TRUE
      /\ \A m \in 1..k : left[m] = levels[m]
      /\ search.thrown = Upto(levels, n) - Upto(levels, k)
  BY <1>1, <1>2 DEF Sound, Undone
<1>4. /\ t.levels = Pop(left) /\ t.error = search.error /\ t.next = search.next
      /\ t.start = search.start /\ t.over = search.over
      /\ t.thrown = search.thrown + Len(Last(left).responses)
  BY <1>1 DEF Sound, Unwind
<1>5. Len(Pop(left)) = k - 1 /\ \A m \in 1..(k - 1) : Pop(left)[m] = left[m]
  BY <1>2, <1>3, PopIs
<1>6. \A m \in 1..(k - 1) : Pop(left)[m] = levels[m]
  BY <1>3, <1>5
<1>7. Last(left).responses = levels[k].responses
  BY <1>2, <1>3 DEF Last
<1>8. /\ Upto(levels, k - 1) \in Nat /\ Upto(levels, k) \in Nat /\ Upto(levels, n) \in Nat
      /\ Upto(levels, k) = Upto(levels, k - 1) + Len(levels[k].responses)
  <2>1. Counted(levels) /\ k \in 1..Len(levels) /\ n \in 1..Len(levels)
    BY <1>3, StackIsOrderly, StackCounted
  <2> QED BY <2>1, UptoIs
<1>9. PICK q \in Nat : q = Len(levels[k].responses)
  <2>1. IsSeq(levels[k].responses)
    BY <1>3 DEF Stack, Underway, IsLevel
  <2> QED BY <2>1, SeqIs
<1>10. t.thrown = Upto(levels, n) - Upto(levels, k - 1)
  <2>1. t.thrown = (Upto(levels, n) - Upto(levels, k)) + q
    BY <1>3, <1>4, <1>7, <1>9
  <2>2. Upto(levels, k) = Upto(levels, k - 1) + q
    BY <1>8, <1>9
  <2>3. PICK a \in Nat, b \in Nat : a = Upto(levels, k - 1) /\ b = Upto(levels, n)
    BY <1>8
  <2>4. t.thrown = (b - (a + q)) + q
    BY <2>1, <2>2, <2>3
  <2> QED BY <2>3, <2>4
<1>11. k - 1 \in 0..n
  BY <1>3
<1>12. PICK p : p = k - 1 /\ p = Len(Pop(left))
  BY <1>5
<1>13. Undone(t, levels, n)
  BY <1>3, <1>4, <1>6, <1>10, <1>11, <1>12 DEF Undone
<1> QED BY <1>1, <1>13

LEMMA UndoneShouldReply ==
    ASSUME NEW levels, Stack(levels), NEW n \in Nat, n = Len(levels),
           NEW search, Sound(search), ~search.over, Len(search.levels) > 0,
           NEW v, v = search.levels[Len(search.levels)], StateAt(v, v.index) = "ShouldReply",
           Undone(search, levels, n)
    PROVE  Undone(AtShouldReply(search), levels, n)
<1>1. PICK left : left = search.levels
  OBVIOUS
<1>2. PICK k \in Nat : k = Len(left) /\ k > 0 /\ v = left[k]
  BY <1>1, SeqIs DEF Sound, Stack
<1>3. /\ Stack(left) /\ search.start = n /\ k \in 1..n /\ search.error = TRUE
      /\ \A m \in 1..k : left[m] = levels[m]
      /\ search.thrown = Upto(levels, n) - Upto(levels, k)
  BY <1>1, <1>2 DEF Sound, Undone
<1>4. PICK reply : reply = FindReply(left, search.error)
  OBVIOUS
<1>5. CASE reply = Nothing
  <2>1. AtShouldReply(search) = Unwind(search)
    BY <1>1, <1>3, <1>4, <1>5 DEF AtShouldReply
  <2> QED BY <2>1, UndoneUnwind
<1>6. CASE reply # Nothing
  <2>1. PICK kept : kept = IF k # n THEN [left EXCEPT ![k].responses = Front(@)] ELSE left
    OBVIOUS
  <2>2. Underway(v) /\ v = levels[k]
    BY <1>2, <1>3 DEF Stack
  <2>3. /\ Stack(kept) /\ Len(kept) = k /\ \A m \in 1..k : m # k => kept[m] = left[m]
        /\ kept[k].responses = IF k = n THEN v.responses ELSE Front(v.responses)
        /\ kept[k].msgs = v.msgs /\ kept[k].index = v.index /\ kept[k].data = v.data
    <3>1. CASE k = n
      BY <1>2, <1>3, <2>1, <3>1
    <3>2. CASE k # n
      <4>1. PICK w : w = WithoutLast(v)
        OBVIOUS
      <4>2. /\ w.responses = Front(v.responses) /\ w.msgs = v.msgs
            /\ w.index = v.index /\ w.data = v.data
        BY <2>2, <4>1, WithoutLastResults
      <4>3. Alike(v, w) /\ Underway(w) /\ (Started(v) => Started(w))
        BY <2>2, <4>1, WithoutLastIs, AlikeIs
      <4>4. Replaces(w, left)
        BY <1>2, <1>3, <4>3 DEF Replaces, Alike, Stack
      <4>5. kept = [left EXCEPT ![k] = w]
        BY <1>2, <2>1, <3>2, <4>1 DEF WithoutLast
      <4>6. Len(left) > 0
        BY <1>2
      <4>7. StackWith([left EXCEPT ![Len(left)] = w], left, w)
        BY <1>3, <4>4, <4>6, TopReplaced, Zenon
      <4>8. Replaced([left EXCEPT ![k] = w], left, k, w)
        <5>1. IsSeq(left) /\ k \in 1..Len(left)
          BY <1>2, <1>3 DEF Stack
        <5> QED BY <5>1, ExceptIs, Zenon
      <4>9. Stack(kept) /\ Len(kept) = k /\ kept[k] = w
        BY <1>2, <4>5, <4>7 DEF StackWith
      <4>10. \A m \in 1..k : m # k => kept[m] = left[m]
        BY <1>2, <4>5, <4>8 DEF Replaced
      <4> QED BY <3>2, <4>2, <4>9, <4>10
    <3> QED BY <3>1, <3>2
  <2>4. PICK t : t = SetState(kept, "Replying")
    OBVIOUS
  <2>5. Changed(t, kept, k, "Replying")
    BY <1>2, <2>3, <2>4, SetStateResults DEF MsgStates
  <2>6. /\ Len(t) = k /\ \A m \in 1..k : m # k => t[m] = kept[m]
        /\ SameResults(t[k], kept[k])
        /\ t[k].index = kept[k].index /\ StateAt(t[k], t[k].index) = "Replying"
    BY <2>5 DEF Changed, TopMoved
  <2>7. /\ \A m \in 1..k : m # k => t[m] = levels[m]
        /\ t[k].responses = IF k = n THEN v.responses ELSE Front(v.responses)
        /\ t[k].data = v.data /\ t[k].index = v.index
        /\ Len(t[k].msgs) = Len(v.msgs)
        /\ \A i \in 1..Len(v.msgs) : /\ t[k].msgs[i].to = v.msgs[i].to
                                     /\ EventsAt(t[k], i) = EventsAt(v, i)
    BY <1>3, <2>3, <2>6 DEF SameResults, EventsAt
  <2>8. Caught(t, levels, n, k)
    BY <1>3, <2>2, <2>6, <2>7 DEF Caught, Waiting
  <2>9. PICK lost : lost = search.thrown + (IF k = n THEN 0 ELSE 1)
    OBVIOUS
  <2>10. PICK found, all : found = Stop(search, t, reply) /\ all = [found EXCEPT !.thrown = lost]
    OBVIOUS
  <2>11. /\ DOMAIN found = DOMAIN search /\ found.levels = t /\ found.next = reply
         /\ found.over = TRUE /\ found.start = n /\ found.error = TRUE
         /\ found.thrown = search.thrown
    BY <1>3, <2>10 DEF Sound, Stop
  <2>12. /\ all.levels = t /\ all.next = reply /\ all.over = TRUE /\ all.start = n
         /\ all.thrown = lost /\ all.error = TRUE
    BY <2>10, <2>11 DEF Sound
  <2>13. AtShouldReply(search) = all
    <3>1. AtShouldReply(search) =
            [Stop(search, t, reply) EXCEPT !.thrown = @ + (IF k # n THEN 1 ELSE 0)]
      BY <1>1, <1>2, <1>3, <1>4, <1>6, <2>1, <2>4 DEF AtShouldReply
    <3>2. AtShouldReply(search) = [found EXCEPT !.thrown = found.thrown + (IF k # n THEN 1 ELSE 0)]
      BY <2>10, <3>1
    <3>3. lost = found.thrown + (IF k # n THEN 1 ELSE 0)
      BY <2>9, <2>11
    <3> QED BY <2>10, <3>2, <3>3
  <2>14. reply.type = "reply"
    BY <1>4, <1>6 DEF FindReply
  <2>15. Undone(all, levels, n)
    <3>1. k \in 0..n /\ lost = Upto(levels, n) - Upto(levels, k) + (IF k = n THEN 0 ELSE 1)
      BY <1>3, <2>9
    <3> QED BY <2>6, <2>8, <2>12, <2>14, <3>1 DEF Undone
  <2> QED BY <2>13, <2>15
<1> QED BY <1>5, <1>6

LEMMA UndoneTurn ==
    ASSUME NEW levels, Stack(levels), NEW n \in Nat, n = Len(levels), n > 0,
           Started(levels[n]),
           NEW search, Sound(search), ~search.over, Len(search.levels) > 0,
           Undone(search, levels, n)
    PROVE  Undone(Turn(search), levels, n)
<1>1. PICK left, at : left = search.levels /\ at = Current(Last(left)).state
  OBVIOUS
<1>2. PICK k \in Nat : k = Len(left) /\ k > 0
  BY <1>1, SeqIs DEF Sound, Stack
<1>3. PICK v : v = left[k]
  OBVIOUS
<1>4. v = levels[k] /\ k \in 1..n /\ search.error = TRUE
  BY <1>1, <1>2, <1>3 DEF Undone
<1>5. Underway(v) /\ Started(v)
  <2>1. CASE k = n
    BY <1>4, <2>1 DEF Stack
  <2>2. CASE k # n
    BY <1>4, <2>2 DEF Stack
  <2> QED BY <2>1, <2>2
<1>6. at = StateAt(v, v.index) /\ at \in MsgStates /\ at # "NotExecuted"
  BY <1>1, <1>2, <1>3, <1>5 DEF Current, Last, StateAt, Underway, IsLevel, Started
<1>7. left # <<>>
  BY <1>2, EmptyIs
<1>8. Turn(search) = CASE at = "NotExecuted" -> AtNotExecuted(search)
                       [] at = "ShouldReply" -> AtShouldReply(search)
                       [] at \in {"Done", "Replying"} /\ search.error -> Unwind(search)
                       [] at = "Done" /\ ~search.error -> AtDone(search)
                       [] at = "Replying" /\ ~search.error ->
                            Resume(search, SetState(left, "Done"))
  BY <1>1, <1>7 DEF Turn
<1>9. CASE at = "ShouldReply"
  BY <1>1, <1>2, <1>3, <1>6, <1>8, <1>9, UndoneShouldReply
<1>10. CASE at \in {"Done", "Replying"}
  <2>1. Turn(search) = Unwind(search)
    BY <1>4, <1>8, <1>10
  <2> QED BY <2>1, UndoneUnwind
<1> QED BY <1>6, <1>9, <1>10 DEF MsgStates

LEMMA SearchUndone ==
    ASSUME NEW levels, Stack(levels), NEW n \in Nat, n = Len(levels), n > 0,
           Started(levels[n]), NEW error, error = TRUE
    PROVE  Undone(FindNext(levels, error), levels, n)
<1>1. PICK last \in Nat : last = Turns(levels)
  BY SeqIs DEF Turns, Stack
<1>2. PICK turn : /\ IsLoop(last, levels, error, turn)
                  /\ FindNext(levels, error) = turn[last]
  <2>1. PICK f : f = (CHOOSE turn : IsLoop(last, levels, error, turn))
    OBVIOUS
  <2>2. IsLoop(last, levels, error, f)
    BY <2>1, LoopExists
  <2>3. FindNext(levels, error) = f[last]
    BY <1>1, <2>1, LoopIsChosen
  <2> QED BY <2>2, <2>3
<1> DEFINE G == {k \in 0..last : Sound(turn[k]) /\ Undone(turn[k], levels, n)}
<1>3. 0 \in G
  <2>1. PICK s : s = Search(levels, error)
    OBVIOUS
  <2>2. turn[0] = s
    BY <1>2, <2>1 DEF IsLoop
  <2>3. /\ DOMAIN s = {"levels", "error", "start", "next", "thrown", "over"}
        /\ s.levels = levels /\ s.error = TRUE /\ s.over = FALSE /\ s.next = Nothing
        /\ s.start = n /\ s.thrown = 0
    BY <2>1 DEF Search
  <2>4. Sound(s)
    BY <2>3, StackIsOrderly DEF Sound
  <2>5. Upto(levels, n) \in Nat
    <3>1. n \in 1..Len(levels) /\ Counted(levels)
      BY StackIsOrderly, StackCounted
    <3> QED BY <3>1, UptoIs
  <2>6. s.thrown = Upto(levels, n) - Upto(levels, n)
    BY <2>3, <2>5
  <2>7. Undone(s, levels, n)
    BY <2>3, <2>6 DEF Undone
  <2> QED BY <2>2, <2>4, <2>7
<1>4. ASSUME NEW i \in 1..last, i > 0, i - 1 \in G
      PROVE  i \in G
  <2>1. PICK s, t : s = turn[i - 1] /\ t = turn[i]
    OBVIOUS
  <2>2. Sound(s) /\ Undone(s, levels, n)
    BY <1>4, <2>1
  <2> SUFFICES Sound(t) /\ Undone(t, levels, n)
    BY <2>1
  <2>3. t = Turn(s)
    <3>1. turn[i] = IF i = 0 THEN Search(levels, error) ELSE Turn(turn[i - 1])
      BY <1>2 DEF IsLoop
    <3>2. i # 0 /\ turn[i] = t /\ turn[i - 1] = s
      BY <2>1
    <3>3. t = IF i = 0 THEN Search(levels, error) ELSE Turn(s)
      BY <3>1, <3>2
    <3> QED BY <3>2, <3>3, Zenon
  <2>4. CASE s.over
    BY <2>2, <2>3, <2>4 DEF Turn
  <2>5. CASE ~s.over /\ Len(s.levels) > 0
    BY <2>2, <2>3, <2>5, TurnIs, UndoneTurn DEF Progress
  <2>6. CASE ~s.over /\ ~(Len(s.levels) > 0)
    <3>1. s.levels = <<>>
      BY <2>2, <2>6, NonEmpty DEF Sound, Stack
    <3> QED BY <2>2, <2>3, <3>1 DEF Turn
  <2> QED BY <2>4, <2>5, <2>6
<1> HIDE DEF G
<1>5. 0 \in 0..last
  OBVIOUS
<1>6. last \in G
  <2>1. \A i \in 0..last : i \in G
    BY <1>3, <1>4, <1>5, StepByStep
  <2> QED BY <2>1
<1> QED BY <1>2, <1>6 DEF G
-----------------------------------------------------------------------------
(* Every step, and what the replies carry.                                 *)

\* The first entries of what began.
Kept(after, b, k) ==
    /\ IsSeq(after)
    /\ Len(after) = IF k <= Len(b) THEN k ELSE Len(b)
    /\ \A m \in 1..Len(after) : after[m] = b[m]

LEMMA ClipIs ==
    ASSUME NEW b, IsSeq(b), NEW levels, Len(levels) \in Nat
    PROVE  Kept(Clip(b, levels), b, Len(levels))
<1>1. PICK n \in Nat, k \in Nat : n = Len(b) /\ k = Len(levels)
  BY SeqIs
<1>2. PICK c \in 0..n : c = IF k <= n THEN k ELSE n
  OBVIOUS
<1>3. Min({n, k}) = c
  <2>1. c \in {n, k} /\ \A x \in {n, k} : c <= x
    BY <1>2
  <2>2. \A y \in {n, k} : (\A x \in {n, k} : y <= x) => y = c
    BY <2>1
  <2> QED BY <2>1, <2>2 DEF Min
<1>4. Clip(b, levels) = SubSeq(b, 1, c)
  BY <1>1, <1>3 DEF Clip
<1>5. PICK after : after = SubSeq(b, 1, c)
  OBVIOUS
<1>6. IsSeq(after) /\ Len(after) = c /\ \A m \in 1..c : after[m] = b[m]
  BY <1>1, <1>5, PrefixIs
<1> QED BY <1>1, <1>2, <1>4, <1>5, <1>6 DEF Kept

LEMMA EntriesKept ==
    ASSUME NEW n \in Nat, NEW b, NEW size \in Nat, Entries(b, n, size), NEW k \in Nat,
           NEW after, Kept(after, b, k), NEW more \in Nat,
           \A m \in 1..Len(after) : b[m].scopes <= more
    PROVE  Entries(after, IF k <= n THEN k ELSE n, more)
<1>1. PICK c \in Nat : c = (IF k <= n THEN k ELSE n) /\ c <= n
  OBVIOUS
<1>2. IsSeq(after) /\ Len(after) = c /\ \A m \in 1..c : after[m] = b[m] /\ m \in 1..n
  BY <1>1 DEF Kept, Entries
<1>3. \A m \in 1..c : /\ DOMAIN after[m] = {"scopes", "data"}
                      /\ after[m].scopes \in Nat /\ after[m].scopes <= more
  BY <1>2 DEF Entries
<1>4. \A m, j \in 1..c : m < j => after[m].scopes <= after[j].scopes
  BY <1>2 DEF Entries
<1>5. Entries(after, c, more)
  BY <1>2, <1>3, <1>4 DEF Entries
<1> QED BY <1>1, <1>5

LEMMA AccountedBegan ==
    ASSUME NEW levels, NEW m, NEW open, NEW b, NEW after, after[m] = b[m],
           Accounted(levels, m, open, b)
    PROVE  Accounted(levels, m, open, after)
BY DEF Accounted, Scoped, HasData, Counts

LEMMA BooksBegan ==
    ASSUME NEW levels, NEW top, NEW open, NEW b, NEW r, Books(levels, top, open, b, r),
           NEW after, \A m \in 1..Len(levels) : m <= top => after[m] = b[m]
    PROVE  Books(levels, top, open, after, r)
BY AccountedBegan DEF Books

LEMMA NewReplies ==
    ASSUME NEW c, NewExecution(c)
    PROVE  RunningInv'
<1>1. PICK root, v : /\ root = <<[to |-> c, reply_on |-> "never"]>>
                     /\ v = Level(User, root)
  OBVIOUS
<1>2. IsSeq(root) /\ Len(root) = 1 /\ root[1].to = c
  <2>1. /\ root \in Seq({[to |-> c, reply_on |-> "never"]}) /\ Len(root) = 1
        /\ root[1].to = c
    BY <1>1
  <2> QED BY <2>1 DEF IsSeq
<1>3. Underway(v) /\ v.index = 1 /\ Len(v.msgs) = 1
  BY <1>1, <1>2, LevelIs
<1>4. v.responses = <<>> /\ EventsAt(v, 1) = <<>> /\ v.msgs[1].to = c
  BY <1>1, <1>2, LevelResults
<1>5. PICK w : w = WithState(v, "Done")
  OBVIOUS
<1>6. /\ w.index = 1 /\ StateAt(w, 1) = "Done" /\ Len(w.msgs) = 1
  BY <1>3, <1>5, WithStateIs DEF MsgStates
<1>7. /\ w.responses = <<>> /\ EventsAt(w, 1) = <<>> /\ w.msgs[1].to = c
  BY <1>3, <1>4, <1>5, WithStateResults DEF SameResults
<1>8. states' = <<w>>
  <2>1. PICK levels : levels = <<v>>
    OBVIOUS
  <2>2. Len(levels) = 1 /\ levels[1] = v
    BY <2>1
  <2>3. SetState(levels, "Done") = [levels EXCEPT ![1] = w]
    BY <1>5, <2>2, SetStateIs
  <2>4. [levels EXCEPT ![1] = w] = <<w>>
    BY <2>1
  <2>5. states' = SetState(levels, "Done")
    BY <1>1, <2>1 DEF NewExecution
  <2> QED BY <2>3, <2>4, <2>5
<1>9. PICK levels : levels = states' /\ Len(levels) = 1 /\ levels[1] = w
  BY <1>8
<1>10. PICK none, r, found :
         /\ none = <<>> /\ r = 0 /\ found = [type |-> "msg", to |-> c, sender |-> User]
  OBVIOUS
<1>11. /\ next' = found /\ open_scopes' = none /\ level_began' = none /\ runs' = r
  BY <1>10 DEF NewExecution
<1>12. found.type = "msg" /\ found.to = c
  BY <1>10
<1>13. Ordered(levels, r) /\ r \in Nat
  <2>1. /\ Grows(EventsAt(w, 1), r) /\ Before(EventsAt(w, 1), EventsAt(w, 1))
    BY <1>7, <1>10, EmptyGrows
  <2>2. OrderedLevel(w, r)
    BY <1>6, <2>1 DEF OrderedLevel
  <2> QED BY <1>9, <1>10, <2>2 DEF Ordered
<1>14. Books(levels, Len(levels) - 1, none, none, r)
  BY <1>9, <1>13 DEF Books
<1>15. Prepared(levels, found, none, none)
  BY <1>6, <1>7, <1>9, <1>12 DEF Prepared
<1>16. Entries(none, Len(levels) - 1, Len(none)) /\ Grows(none, r)
  <2>1. IsSeq(none) /\ Len(none) = 0 /\ Len(levels) - 1 = 0
    BY <1>9, <1>10, EmptyIs
  <2>2. PICK z : z = Len(none) /\ z = Len(levels) - 1 /\ z = 0
    BY <2>1
  <2>3. Entries(none, z, z)
    BY <2>1, <2>2 DEF Entries
  <2>4. Grows(none, r)
    BY <1>10, EmptyGrows
  <2> QED BY <2>2, <2>3, <2>4
<1>17. Tally'
  BY <1>9, <1>11, <1>12, <1>13, <1>16 DEF Tally, IsReply
<1> QED BY <1>9, <1>11, <1>12, <1>14, <1>15, <1>17 DEF RunningInv, IsReply

LEMMA SuccessfulReplies ==
    ASSUME MessagesInv, RunningInv, NEW data, NEW msgs \in BoundedSeq(Messages, MaxMsgs),
           RunSucceeds(data, msgs), next' # Nothing
    PROVE  RunningInv'
<1>1. Stack(states) /\ Asks(states, next)
  BY DEF MessagesInv, RunSucceeds, Running
<1>2. PICK n \in Nat : n = Len(states) /\ n > 0 /\ (IsReply => n > 1)
  BY <1>1, SeqIs DEF Stack, Asks, IsReply
<1>3. PICK error, levels, found :
        /\ error = FALSE /\ levels = Respond(data, msgs) /\ found = FindNext(levels, error)
  OBVIOUS
<1>4. Runner = BankModule => data = NoData
  BY DEF RunSucceeds
<1>5. Responded(levels, n, data, msgs)
  BY <1>1, <1>2, <1>3, <1>4, BooksResponded
<1>6. PICK mine, open, r : mine = Mine(data) /\ open = ScopePushed /\ r = runs + 1
  OBVIOUS
<1>7. /\ states' = found.levels /\ next' = found.next /\ runs' = r
      /\ open_scopes' = open /\ level_began' = Clip(mine, found.levels)
  BY <1>3, <1>6 DEF RunSucceeds, Keep, Mine
<1>8. Tally /\ runs \in Nat /\ r \in Nat /\ Grows(open_scopes, runs)
  BY <1>6 DEF RunningInv, Tally
<1>9. /\ Stack(levels) /\ Len(levels) \in {n, n + 1}
      /\ Books(levels, Len(levels), open, mine, r)
      /\ Fresh(levels[Len(levels)])
      /\ Len(levels) > n =>
           StateAt(levels[Len(levels)], levels[Len(levels)].index) = "NotExecuted"
  BY <1>5, <1>6 DEF Responded
<1>10. Honest(found, open, mine, r)
  BY <1>3, <1>8, <1>9, HonestSearch
<1>11. Shape(found, n, error)
  <2>1. error \in BOOLEAN
    BY <1>3
  <2>2. Len(levels) <= n + 1
    BY <1>2, <1>9
  <2> QED BY <1>3, <1>9, <2>1, <2>2, SearchShape
<1>12. Sound(found) /\ (found.over \/ Len(found.levels) = 0)
  <2>1. error \in BOOLEAN
    BY <1>3
  <2> QED BY <1>3, <1>9, <2>1, SearchEnds
<1>13. Stack(found.levels) /\ Asks(found.levels, found.next) /\ found.over
       /\ found.next # Nothing
  BY <1>7, <1>12 DEF Sound, Asks
<1>14. PICK k \in Nat : k = Len(found.levels) /\ k <= n + 1
  BY <1>11, <1>13, SeqIs DEF Stack, Shape
<1>15. /\ Books(found.levels, k - 1, open, mine, r)
       /\ Prepared(found.levels, found.next, open, mine)
  <2>1. /\ Books(found.levels, Len(found.levels) - 1, open, mine, r)
        /\ Prepared(found.levels, found.next, open, mine)
    BY <1>10, <1>13 DEF Honest
  <2> QED BY <1>14, <2>1
<1>16. found.next.type = "reply" => k <= n /\ found.next.error = FALSE
  BY <1>3, <1>11, <1>13, <1>14 DEF Shape
<1>17. Taken(mine, n, data)
  BY <1>2, <1>6, <1>8, MineIs
<1>18. PICK size \in Nat : size = Len(open_scopes)
  BY <1>8 DEF Grows
<1>19. Entries(mine, n, size)
  BY <1>17, <1>18 DEF Taken
<1>20. Grows(open, r) /\ Len(open) = size + 1
  <2>1. Grows(open, r)
    BY <1>6, <1>8, GrowsMore DEF ScopePushed
  <2>2. IsSeq(open_scopes)
    BY <1>8 DEF Grows, IsSeq
  <2>3. Appended(Append(open_scopes, r), open_scopes, r)
    BY <2>2, AppendIs, Zenon
  <2>4. open = Append(open_scopes, r)
    BY <1>6 DEF ScopePushed
  <2> QED BY <1>18, <2>1, <2>3, <2>4 DEF Appended
<1>21. PICK after : after = Clip(mine, found.levels)
  OBVIOUS
<1>22. Kept(after, mine, k)
  BY <1>14, <1>19, <1>21, ClipIs DEF Entries
<1>23. Len(after) = IF k <= n THEN k ELSE n
  BY <1>19, <1>22 DEF Kept, Entries
<1>24. Entries(after, IF k <= n THEN k ELSE n, size + 1)
  <2>1. \A m \in 1..Len(after) : mine[m].scopes <= size + 1
    <3>1. \A m \in 1..n : mine[m].scopes \in Nat /\ mine[m].scopes <= size
      BY <1>19 DEF Entries
    <3>2. \A m \in 1..Len(after) : m \in 1..n
      BY <1>23
    <3> QED BY <3>1, <3>2
  <2>2. size + 1 \in Nat
    OBVIOUS
  <2> QED BY <1>19, <1>22, <2>1, <2>2, EntriesKept
<1>25. Books(found.levels, k - 1, open, after, r)
  <2>1. \A m \in 1..k : m <= k - 1 => m \in 1..Len(after)
    BY <1>14, <1>23
  <2>2. \A m \in 1..Len(found.levels) : m <= k - 1 => after[m] = mine[m]
    BY <1>14, <1>22, <2>1 DEF Kept
  <2> QED BY <1>15, <2>2, BooksBegan
<1>26. Prepared(found.levels, found.next, open, after)
  <2>1. ASSUME found.next.type = "reply", Accounted(found.levels, k, open, mine)
        PROVE  Accounted(found.levels, k, open, after)
    <3>1. k <= n /\ k > 0
      BY <1>13, <1>14, <1>16, <2>1 DEF Asks
    <3>2. after[k] = mine[k]
      BY <1>22, <1>23, <3>1 DEF Kept
    <3> QED BY <2>1, <3>2, AccountedBegan
  <2> QED BY <1>14, <1>15, <2>1 DEF Prepared
<1>27. Tally'
  <2>1. /\ \/ Entries(after, k, Len(open))
           \/ found.next.type # "reply" /\ Entries(after, k - 1, Len(open))
    <3>1. CASE k <= n
      BY <1>20, <1>24, <3>1
    <3>2. CASE ~(k <= n)
      <4>1. n = k - 1 /\ found.next.type # "reply"
        BY <1>14, <1>16, <3>2
      <4>2. Entries(after, n, size + 1)
        BY <1>24, <3>2
      <4> QED BY <1>20, <4>1, <4>2
    <3> QED BY <3>1, <3>2
  <2>2. Len(states') = k /\ level_began' = after /\ open_scopes' = open /\ runs' = r
        /\ next' = found.next
    BY <1>7, <1>14, <1>21
  <2> QED BY <1>8, <1>20, <2>1, <2>2 DEF Tally, IsReply
<1>28. ~(found.next.type = "reply" /\ found.next.error)
  BY <1>16
<1> QED BY <1>7, <1>14, <1>21, <1>25, <1>26, <1>27, <1>28 DEF RunningInv, IsReply
-----------------------------------------------------------------------------
LEMMA GrowsPrefix ==
    ASSUME NEW s, NEW r \in Nat, Grows(s, r), NEW k \in 0..Len(s)
    PROVE  Grows(SubSeq(s, 1, k), r)
<1>1. PICK t : t = SubSeq(s, 1, k)
  OBVIOUS
<1>2. s \in Seq(1..r) /\ Increasing(s)
  BY DEF Grows
<1>3. t \in Seq(1..r) /\ Len(t) = k /\ \A i \in 1..k : t[i] = s[i] /\ i \in 1..Len(s)
  BY <1>1, <1>2
<1>4. Increasing(t)
  BY <1>2, <1>3 DEF Increasing
<1> QED BY <1>1, <1>3, <1>4 DEF Grows

\* What is left of the scopes when an error has been caught at level k.
LEMMA ScopesCaught ==
    ASSUME MessagesInv, RunningInv, Running, NEW n \in Nat, n = Len(states), n > 0,
           NEW k \in 1..n, Waiting(states[k]), k < n => FlatAbove(states, k), NEW thrown,
           thrown = Upto(states, n) - Upto(states, k) + (IF k = n THEN 0 ELSE 1)
    PROVE  /\ Len(ScopePushed) = Len(open_scopes) + 1
           /\ Len(ScopePushed) - (thrown + 1) = Began[k].scopes
           /\ Began[k].scopes \in 0..Len(open_scopes)
           /\ k = n => Began[k].scopes = Len(open_scopes)
<1>1. Stack(states) /\ Tally
  BY DEF MessagesInv, Running, RunningInv
<1>2. PICK size \in Nat : size = Len(open_scopes)
  BY <1>1 DEF Tally, Grows
<1>3. Len(ScopePushed) = size + 1
  <2>1. IsSeq(open_scopes)
    BY <1>1 DEF Tally, Grows, IsSeq
  <2>2. Appended(Append(open_scopes, runs + 1), open_scopes, runs + 1)
    BY <2>1, AppendIs, Zenon
  <2> QED BY <1>2, <2>2 DEF Appended, ScopePushed
<1>4. Upto(states, k) \in Nat /\ Upto(states, n) \in Nat
  <2>1. Counted(states) /\ k \in 1..Len(states) /\ n \in 1..Len(states)
    BY <1>1, StackIsOrderly, StackCounted
  <2> QED BY <2>1, UptoIs
<1>5. /\ Entries(Began, n, size)
      /\ \A m \in 1..(n - 1) : Began[m] = level_began[m]
      /\ ~IsReply => Began[n].scopes = size
  BY <1>1, <1>2, BeganIs
<1>6. Began[k].scopes \in Nat /\ Began[k].scopes <= size
  BY <1>5 DEF Entries
<1>7. CASE k = n
  <2>1. ~IsReply
    BY <1>7 DEF RunningInv, Prepared, Waiting, IsReply
  <2>2. thrown = 0
    BY <1>4, <1>7
  <2> QED BY <1>2, <1>3, <1>5, <1>7, <2>1, <2>2
<1>8. CASE k < n
  <2>1. k \in 1..(n - 1) /\ k <= n - 1 /\ k # n
    BY <1>8
  <2>2. Accounted(states, k, open_scopes, level_began)
    BY <2>1 DEF RunningInv, Books
  <2>3. size = level_began[k].scopes + 1 + Upto(states, n) - Upto(states, k)
    BY <1>2, <1>8, <2>2 DEF Accounted, Scoped
  <2>4. PICK a \in Nat, b \in Nat, x \in Nat :
          a = Upto(states, k) /\ b = Upto(states, n) /\ x = Began[k].scopes
    BY <1>4, <1>6
  <2>5. size = x + 1 + b - a /\ thrown = b - a + 1
    BY <1>5, <2>1, <2>3, <2>4
  <2>6. size + 1 - (thrown + 1) = x
    <3>1. PICK c \in Int : c = b - a
      OBVIOUS
    <3>2. thrown = c + 1 /\ size = x + 1 + c
      BY <2>5, <3>1
    <3> QED BY <3>2
  <2>7. x \in 0..size
    BY <1>6, <2>4
  <2>8. k # n /\ Began[k].scopes = x /\ Len(open_scopes) = size
    BY <1>2, <2>1, <2>4
  <2>9. Len(ScopePushed) - (thrown + 1) = x
    BY <1>3, <2>6
  <2> QED BY <1>2, <1>3, <2>7, <2>8, <2>9
<1> QED BY <1>7, <1>8

LEMMA FailedReplies ==
    ASSUME MessagesInv, RunningInv, RunFails, next' # Nothing,
           next'.type = "reply" /\ next'.error => FlatAbove(states, Len(states'))
    PROVE  RunningInv'
<1>1. Running /\ Stack(states) /\ Asks(states, next) /\ Tally
  BY DEF MessagesInv, RunFails, Running, RunningInv
<1>2. PICK n \in Nat : n = Len(states) /\ n > 0
  BY <1>1, SeqIs DEF Stack, Asks
<1>3. PICK error, found : error = TRUE /\ found = FindNext(states, error)
  OBVIOUS
<1>4. error \in BOOLEAN
  BY <1>3
<1>5. /\ states' = found.levels /\ next' = found.next /\ runs' = runs + 1
      /\ open_scopes' = ScopesLeft(found.thrown + 1)
      /\ level_began' = Clip(Began, found.levels)
  BY <1>3 DEF RunFails, Keep
<1>6. Sound(found) /\ (found.over \/ Len(found.levels) = 0)
  BY <1>1, <1>3, <1>4, SearchEnds
<1>7. Stack(found.levels) /\ Asks(found.levels, found.next) /\ found.over
      /\ found.next # Nothing
  BY <1>5, <1>6 DEF Sound, Asks
<1>8. PICK t : t = found.levels /\ Len(t) \in Nat
  BY <1>7, SeqIs DEF Stack
<1>80. PICK k \in Nat : k = Len(t)
  BY <1>8
<1>9. Shape(found, n, error)
  <2>1. Len(states) <= n + 1 /\ ~(Len(states) > n)
    BY <1>2
  <2> QED BY <1>1, <1>3, <1>4, <2>1, SearchShape
<1>10. Undone(found, states, n)
  <2>1. Started(states[n])
    BY <1>1, <1>2 DEF Asks
  <2> QED BY <1>1, <1>2, <1>3, <2>1, SearchUndone
<1>11. /\ found.next.type = "reply" /\ Caught(t, states, n, k)
       /\ found.thrown = Upto(states, n) - Upto(states, k) + (IF k = n THEN 0 ELSE 1)
  BY <1>7, <1>8, <1>80, <1>10 DEF Undone
<1>12. found.next.error = TRUE
  BY <1>3, <1>7, <1>9, <1>11 DEF Shape
<1>13. k \in 1..n /\ Waiting(states[k]) /\ FlatAbove(states, k)
  BY <1>5, <1>8, <1>80, <1>11, <1>12 DEF Caught
<1>14. PICK size \in Nat : size = Len(open_scopes)
  BY <1>1 DEF Tally, Grows
<1>15. PICK left : left = Began[k].scopes
  OBVIOUS
<1>16. /\ Len(ScopePushed) = size + 1
       /\ Len(ScopePushed) - (found.thrown + 1) = left
       /\ left \in 0..size /\ (k = n => left = size)
  BY <1>1, <1>2, <1>11, <1>13, <1>14, <1>15, ScopesCaught
<1>17. PICK r \in Nat : r = runs /\ Grows(open_scopes, r) /\ r + 1 \in Nat
  BY <1>1 DEF Tally
<1>18. PICK less : less = SubSeq(ScopePushed, 1, left)
  OBVIOUS
<1>19. open_scopes' = less
  BY <1>5, <1>16, <1>18 DEF ScopesLeft
<1>20. Grows(ScopePushed, r + 1)
  BY <1>17, GrowsMore DEF ScopePushed
<1>21. left \in 0..Len(ScopePushed)
  BY <1>16
<1>22. Grows(less, r + 1)
  BY <1>17, <1>18, <1>20, <1>21, GrowsPrefix
<1>23. Len(less) = left /\ \A i \in 1..left : less[i] = open_scopes[i]
  <2>1. IsSeq(ScopePushed) /\ IsSeq(open_scopes)
    BY <1>17, <1>20 DEF Grows, IsSeq
  <2>2. Len(less) = left /\ \A i \in 1..left : less[i] = ScopePushed[i]
    BY <1>18, <1>21, <2>1, PrefixIs
  <2>3. Appended(Append(open_scopes, runs + 1), open_scopes, runs + 1)
    BY <2>1, AppendIs, Zenon
  <2>4. \A i \in 1..size : ScopePushed[i] = open_scopes[i]
    BY <1>14, <2>3 DEF Appended, ScopePushed
  <2>5. \A i \in 1..left : i \in 1..size
    BY <1>16
  <2> QED BY <2>2, <2>4, <2>5
<1>24. /\ Entries(Began, n, size)
       /\ \A m \in 1..(n - 1) : Began[m] = level_began[m]
  BY <1>1, <1>2, <1>14, BeganIs
<1>25. \A m \in 1..(n - 1) : level_began[m].scopes \in Nat
  <2>1. \A m \in 1..(n - 1) : m \in 1..n
    OBVIOUS
  <2> QED BY <1>24, <2>1 DEF Entries
<1>26. Shortened(less, open_scopes, level_began, n, k)
  <2>1. k # n => left = level_began[k].scopes
    <3>1. k # n => k \in 1..(n - 1)
      BY <1>13
    <3> QED BY <1>15, <1>24, <3>1
  <2>2. left <= size /\ (k = n => left = size)
    BY <1>16
  <2> QED BY <1>14, <1>23, <2>1, <2>2 DEF Shortened
<1>27. PICK after : after = Clip(Began, t)
  OBVIOUS
<1>28. Kept(after, Began, k)
  <2>1. IsSeq(Began) /\ Len(t) \in Nat
    BY <1>8, <1>80, <1>24 DEF Entries
  <2> QED BY <1>8, <1>80, <1>27, <2>1, ClipIs
<1>29. Len(after) = k /\ \A m \in 1..k : after[m] = Began[m]
  <2>1. k <= Len(Began)
    BY <1>13, <1>24 DEF Entries
  <2> QED BY <1>28, <2>1 DEF Kept
<1>30. Books(t, k - 1, less, after, r + 1)
  <2>1. PICK levels, open, began :
          levels = states /\ open = open_scopes /\ began = level_began
    OBVIOUS
  <2>2. SameBelow(after, began, k)
    <3>1. \A m \in 1..(k - 1) : m \in 1..(n - 1) /\ m \in 1..k
      BY <1>13
    <3> QED BY <1>24, <1>29, <2>1, <3>1 DEF SameBelow
  <2>3. Stack(levels) /\ n = Len(levels) /\ Books(levels, n - 1, open, began, r)
    BY <1>1, <1>2, <1>17, <2>1 DEF RunningInv
  <2>4. Stack(t) /\ Len(open) \in Nat
    BY <1>7, <1>8, <1>80, <1>14, <2>1
  <2>5. k \in 1..n /\ Caught(t, levels, n, k) /\ (k < n => FlatAbove(levels, k))
    BY <1>11, <1>13, <2>1
  <2>6. HasScopes(began, n) /\ Shortened(less, open, began, n, k)
    BY <1>25, <1>26, <2>1 DEF HasScopes
  <2>7. r \in Nat /\ n \in Nat
    OBVIOUS
  <2> QED BY <2>2, <2>3, <2>4, <2>5, <2>6, <2>7, BooksCaught, Zenon
<1>31. Prepared(t, found.next, less, after)
  <2>1. StateAt(t[k], t[k].index) = "Replying"
    BY <1>11 DEF Caught
  <2> QED BY <1>8, <1>80, <1>11, <1>12, <2>1 DEF Prepared
<1>32. Entries(after, k, left)
  <2>1. \A m \in 1..k : Began[m].scopes <= left
    <3> SUFFICES ASSUME NEW m \in 1..k
                 PROVE  Began[m].scopes <= left
      OBVIOUS
    <3>1. m \in 1..n /\ k \in 1..n
      BY <1>13
    <3>2. CASE m = k
      BY <1>15, <1>16, <3>2
    <3>3. CASE m # k
      BY <1>15, <1>24, <3>1, <3>3 DEF Entries
    <3> QED BY <3>2, <3>3
  <2>2. \A m \in 1..Len(after) : Began[m].scopes <= left
    BY <1>29, <2>1
  <2>3. left \in Nat /\ k <= n
    BY <1>13, <1>16
  <2>4. Entries(after, IF k <= n THEN k ELSE n, left)
    BY <1>24, <1>28, <2>2, <2>3, EntriesKept
  <2> QED BY <2>3, <2>4
<1>33. Tally'
  <2>1. Len(states') = k /\ level_began' = after /\ open_scopes' = less /\ runs' = r + 1
    BY <1>5, <1>8, <1>80, <1>17, <1>19, <1>27
  <2> QED BY <1>17, <1>22, <1>23, <1>32, <2>1 DEF Tally
<1>34. Len(less) = after[k].scopes
  BY <1>13, <1>15, <1>23, <1>29
<1> QED BY <1>5, <1>8, <1>80, <1>17, <1>19, <1>27, <1>30, <1>31, <1>33, <1>34 DEF RunningInv, IsReply
-----------------------------------------------------------------------------
RepliesInv == outcome = "running" => RunningInv

\* The responses of the levels that an error gives up, before it is caught, had
\* taken none of deeper levels.
CaughtErrorsAreFlat ==
    outcome' = "running" /\ next'.type = "reply" /\ next'.error =>
        FlatAbove(states, Len(states'))

LEMMA StepReplies ==
    ASSUME MessagesInv, RepliesInv, [MessagesNext]_messageVars,
           [CaughtErrorsAreFlat]_messageVars
    PROVE  RepliesInv'
<1> SUFFICES ASSUME outcome' = "running"
             PROVE  RunningInv'
  BY DEF RepliesInv
<1>1. CASE UNCHANGED messageVars
  <2>1. RunningInv
    BY <1>1 DEF RepliesInv, messageVars
  <2>2. Tally'
    BY <1>1, <2>1 DEF messageVars, RunningInv, Tally, IsReply
  <2> QED BY <1>1, <2>1, <2>2 DEF messageVars, RunningInv, IsReply
<1>2. CASE MessagesNext /\ CaughtErrorsAreFlat
  <2>1. ASSUME NEW c \in Contract, NewExecution(c)
        PROVE  RunningInv'
    BY <2>1, NewReplies
  <2>2. ASSUME NEW data \in Data \cup {NoData},
               NEW msgs \in BoundedSeq(Messages, MaxMsgs), RunSucceeds(data, msgs)
        PROVE  RunningInv'
    <3>1. RunningInv
      BY <2>2 DEF RepliesInv, RunSucceeds, Running
    <3>2. next' # Nothing
      BY <2>2 DEF RunSucceeds, Finish, Keep
    <3> QED BY <2>2, <3>1, <3>2, SuccessfulReplies
  <2>3. CASE RunFails
    <3>1. RunningInv
      BY <2>3 DEF RepliesInv, RunFails, Running
    <3>2. next' # Nothing
      BY <2>3 DEF RunFails, Keep
    <3>3. next'.type = "reply" /\ next'.error => FlatAbove(states, Len(states'))
      BY <1>2 DEF CaughtErrorsAreFlat
    <3> QED BY <2>3, <3>1, <3>2, <3>3, FailedReplies
  <2>4. CASE RunAborts
    BY <2>4 DEF RunAborts
  <2> QED BY <1>2, <2>1, <2>2, <2>3, <2>4 DEF MessagesNext
<1>3. ~(UNCHANGED messageVars) => MessagesNext /\ CaughtErrorsAreFlat
  OBVIOUS
<1> QED BY <1>1, <1>2, <1>3

LEMMA RepliesAlways ==
    MessagesSpec /\ [][CaughtErrorsAreFlat]_messageVars => [](MessagesInv /\ RepliesInv)
<1>1. MessagesInit => RepliesInv
  BY DEF MessagesInit, RepliesInv
<1>2. MessagesInv /\ RepliesInv /\ [MessagesNext]_messageVars
        /\ [CaughtErrorsAreFlat]_messageVars => RepliesInv'
  BY StepReplies
<1> QED BY <1>1, <1>2, MessagesAlways, PTL DEF MessagesSpec

LEMMA BeganOfReply ==
    ASSUME RunningInv, IsReply
    PROVE  Len(level_began) = Len(states)
BY DEF RunningInv, Tally, Entries

LEMMA ErrorUndone ==
    ASSUME RepliesInv
    PROVE  CaughtErrorIsUndone
<1> SUFFICES ASSUME Running, IsReply, next.error
             PROVE  Len(open_scopes) = Last(level_began).scopes
  BY DEF CaughtErrorIsUndone
<1>1. RunningInv
  BY DEF RepliesInv, Running
<1>2. Len(open_scopes) = level_began[Len(states)].scopes
  BY <1>1 DEF RunningInv
<1> QED BY <1>1, <1>2, BeganOfReply DEF Last

LEMMA ResultCarried ==
    ASSUME MessagesInv, RepliesInv
    PROVE  ReplyCarriesItsResult
<1> SUFFICES ASSUME Running, IsReply, ~next.error
             PROVE  LET msg == Current(Last(states))
                    IN  /\ \A i, j \in DOMAIN msg.events : i < j => msg.events[i] < msg.events[j]
                        /\ \A i \in DOMAIN open_scopes :
                             open_scopes[i] \in Range(msg.events) <=> i > Last(level_began).scopes
                        /\ Last(states).data = Last(level_began).data
  BY DEF ReplyCarriesItsResult
<1>1. RunningInv /\ Stack(states) /\ Asks(states, next) /\ Tally
  BY DEF MessagesInv, RepliesInv, Running, RunningInv
<1>2. PICK n \in Nat : n = Len(states) /\ n \in 1..n
  BY <1>1, SeqIs DEF Stack, Asks
<1>3. PICK v : v = states[n]
  OBVIOUS
<1>4. PICK i : i = v.index
  OBVIOUS
<1>5. PICK msg : msg = v.msgs[i]
  OBVIOUS
<1>6. Current(Last(states)) = msg /\ Last(states) = v
  BY <1>2, <1>3, <1>4, <1>5 DEF Current, Last
<1>7. i \in 1..Len(v.msgs)
  BY <1>1, <1>2, <1>3, <1>4 DEF Stack, Underway
<1>8. PICK began : began = level_began[n] /\ began = Last(level_began)
  BY <1>1, <1>2, BeganOfReply DEF Last
<1>9. Accounted(states, n, open_scopes, level_began)
  BY <1>1, <1>2 DEF RunningInv, Prepared, IsReply
<1>10. v.data = began.data
  BY <1>3, <1>4, <1>5, <1>8, <1>9 DEF Accounted, HasData
<1>11. Grows(msg.events, runs)
  <2>1. OrderedLevel(v, runs)
    BY <1>1, <1>2, <1>3 DEF RunningInv, Books, Ordered
  <2> QED BY <1>5, <1>7, <2>1 DEF OrderedLevel, EventsAt
<1>12. DOMAIN msg.events = 1..Len(msg.events) /\ Increasing(msg.events)
  BY <1>11 DEF Grows
<1>13. DOMAIN open_scopes = 1..Len(open_scopes)
  BY <1>1 DEF Tally, Grows
<1>14. ASSUME NEW l \in 1..Len(open_scopes)
       PROVE  open_scopes[l] \in Range(msg.events) <=> l > began.scopes
  <2>1. Since(open_scopes[l], states, n) <=> l > began.scopes
    BY <1>8, <1>9 DEF Accounted, Counts
  <2>2. ~(\E j \in 1..Len(states) : j > n /\ In(open_scopes[l], states[j]))
    BY <1>2
  <2>3. Since(open_scopes[l], states, n) <=> InSeq(open_scopes[l], msg.events)
    BY <1>3, <1>4, <1>5, <2>2 DEF Since, EventsAt
  <2>4. InSeq(open_scopes[l], msg.events) <=> open_scopes[l] \in Range(msg.events)
    BY <1>12 DEF InSeq, Range
  <2> QED BY <2>1, <2>3, <2>4
<1> QED BY <1>6, <1>8, <1>10, <1>12, <1>13, <1>14 DEF Increasing

(* A contract that is told of the failure of its sub-message finds open    *)
(* the scopes that were open when that sub-message began, and no others,   *)
(* as long as the levels given up held no responses within responses       *)
(* (process_result reverts a scope for each response of a level).          *)
THEOREM CaughtErrorsAreUndone ==
    MessagesSpec /\ [][CaughtErrorsAreFlat]_messageVars => []CaughtErrorIsUndone
<1>1. RepliesInv => CaughtErrorIsUndone
  BY ErrorUndone
<1> QED BY <1>1, RepliesAlways, PTL

(* Under the same condition the reply to a message that succeeded has its  *)
(* data, and of the scopes that are open the events of those, and only     *)
(* those, opened since it began, in order (find_next, find_reply).         *)
THEOREM RepliesCarryTheirResults ==
    MessagesSpec /\ [][CaughtErrorsAreFlat]_messageVars => []ReplyCarriesItsResult
<1>1. MessagesInv /\ RepliesInv => ReplyCarriesItsResult
  BY ResultCarried
<1> QED BY <1>1, RepliesAlways, PTL
-----------------------------------------------------------------------------
(* Few levels: nothing is ever squashed into a level above the second.     *)

Low(levels, top) ==
    Len(levels) <= top /\ \A m \in 1..Len(levels) : m > 2 => Flat(levels[m])

LEMMA LowKept ==
    ASSUME NEW top \in 1..3, NEW levels, Len(levels) \in Nat, Low(levels, top),
           NEW t, Len(t) \in Nat, Len(t) <= Len(levels),
           \A m \in 1..Len(t) : Flat(levels[m]) => Flat(t[m])
    PROVE  Low(t, top)
<1>1. \A m \in 1..Len(t) : m \in 1..Len(levels)
  OBVIOUS
<1> QED BY <1>1 DEF Low

LEMMA LowMoved ==
    ASSUME NEW top \in 1..3, NEW levels, NEW n \in Nat, n = Len(levels), Low(levels, top),
           NEW t, TopMoved(t, levels, n)
    PROVE  Low(t, top)
<1>1. Len(t) = n /\ \A m \in 1..n : t[m].responses = levels[m].responses
  BY DEF TopMoved, SameResults
<1>2. \A m \in 1..n : Flat(levels[m]) => Flat(t[m])
  BY <1>1 DEF Flat
<1> QED BY <1>1, <1>2, LowKept

LEMMA FlatFront ==
    ASSUME NEW v, IsSeq(v.responses), Flat(v), NEW w, w.responses = Front(v.responses)
    PROVE  Flat(w)
<1>1. PICK s, t, k : s = v.responses /\ t = Front(s) /\ k = Len(s) /\ k \in Nat
  BY SeqIs
<1>2. CASE k > 0
  <2>1. Len(t) = k - 1 /\ \A i \in 1..(k - 1) : t[i] = s[i]
    BY <1>1, <1>2, FrontIs
  <2> QED BY <1>1, <2>1 DEF Flat
<1>3. CASE k = 0
  <2>1. PICK S : s \in Seq(S)
    BY <1>1 DEF IsSeq
  <2>2. Len(SubSeq(s, 1, Len(s) - 1)) = 0
    BY <1>1, <1>3, <2>1
  <2>3. Len(t) = 0
    BY <1>1, <2>2 DEF Front
  <2> QED BY <1>1, <2>3 DEF Flat
<1> QED BY <1>1, <1>2, <1>3

LEMMA LowUnwind ==
    ASSUME NEW top \in 1..3, NEW search, Sound(search), ~search.over,
           Len(search.levels) > 0, Low(search.levels, top)
    PROVE  Low(Unwind(search).levels, top)
<1>1. PICK levels : levels = search.levels
  OBVIOUS
<1>2. PICK n \in Nat : n = Len(levels) /\ n > 0
  BY <1>1, SeqIs DEF Sound, Stack
<1>3. Stack(levels)
  BY <1>1 DEF Sound
<1>4. Unwind(search).levels = Pop(levels)
  BY <1>1 DEF Sound, Unwind
<1>5. Len(Pop(levels)) = n - 1 /\ \A m \in 1..(n - 1) : Pop(levels)[m] = levels[m]
  BY <1>2, <1>3, PopIs
<1>6. Low(Pop(levels), top)
  <2>1. Len(levels) \in Nat /\ Len(Pop(levels)) \in Nat /\ Len(Pop(levels)) <= Len(levels)
    BY <1>2, <1>5
  <2>2. \A m \in 1..Len(Pop(levels)) : Flat(levels[m]) => Flat(Pop(levels)[m])
    BY <1>5
  <2> QED BY <1>1, <2>1, <2>2, LowKept
<1> QED BY <1>4, <1>6

LEMMA LowDone ==
    ASSUME NEW top \in 1..3, NEW search, Sound(search), ~search.over,
           Len(search.levels) > 0,
           NEW v, v = search.levels[Len(search.levels)], StateAt(v, v.index) = "Done",
           Low(search.levels, top)
    PROVE  Low(AtDone(search).levels, top)
<1>1. PICK levels : levels = search.levels
  OBVIOUS
<1>2. PICK k \in Nat : k = Len(levels) /\ k > 0 /\ v = levels[k]
  BY <1>1, SeqIs DEF Sound, Stack
<1>3. Stack(levels) /\ StateAt(levels[k], levels[k].index) = "Done"
  BY <1>1, <1>2 DEF Sound
<1>4. PICK t : t = [levels EXCEPT ![k].index = @ + 1]
  OBVIOUS
<1>5. MovesOn(t, levels, k) /\ MovedPast(t, levels, k)
  BY <1>2, <1>3, <1>4, AdvanceIs, AdvanceResults
<1>6. AtDone(search) = IF t[k].index <= Len(t[k].msgs) THEN Resume(search, t)
                       ELSE IF k = 1 THEN Stop(search, t, Nothing)
                                     ELSE Resume(search, SquashLatest(t))
  BY <1>1, <1>2, <1>4 DEF AtDone
<1>7. Low(t, top)
  BY <1>1, <1>2, <1>5, LowMoved DEF MovedPast
<1>8. CASE k = 1
  <2>1. Resume(search, t).levels = t /\ Stop(search, t, Nothing).levels = t
    BY DEF Sound, Resume, Stop
  <2> QED BY <1>6, <1>7, <1>8, <2>1
<1>9. CASE k # 1
  <2>1. PICK s : s = SquashLatest(t)
    OBVIOUS
  <2>2. Resume(search, t).levels = t /\ Resume(search, s).levels = s
    BY DEF Sound, Resume
  <2>3. k > 1 /\ Orderly(t) /\ TopMoved(t, levels, k)
    BY <1>2, <1>5, <1>9 DEF MovesOn, MovedPast
  <2>4. Len(s) = k - 1
    BY <1>2, <1>3, <2>1, <2>3, SquashResults DEF SquashedInto
  <2>5. Len(s) <= 2 /\ Len(s) \in Nat /\ Len(s) <= top
    BY <1>1, <1>2, <2>3, <2>4 DEF Low
  <2>6. Low(s, top)
    BY <2>5 DEF Low
  <2> QED BY <1>6, <1>7, <1>9, <2>1, <2>2, <2>6
<1> QED BY <1>8, <1>9

LEMMA LowShouldReply ==
    ASSUME NEW top \in 1..3, NEW search, Sound(search), ~search.over,
           Len(search.levels) > 0,
           NEW v, v = search.levels[Len(search.levels)], StateAt(v, v.index) = "ShouldReply",
           Low(search.levels, top)
    PROVE  Low(AtShouldReply(search).levels, top)
<1>1. PICK levels : levels = search.levels
  OBVIOUS
<1>2. PICK k \in Nat : k = Len(levels) /\ k > 0 /\ v = levels[k]
  BY <1>1, SeqIs DEF Sound, Stack
<1>3. Stack(levels)
  BY <1>1 DEF Sound
<1>4. PICK reply, drop : /\ reply = FindReply(levels, search.error)
                         /\ drop = (search.error /\ k # search.start)
  OBVIOUS
<1>5. PICK kept, lost :
        /\ kept = IF drop THEN [levels EXCEPT ![k].responses = Front(@)] ELSE levels
        /\ lost = search.thrown + (IF drop THEN 1 ELSE 0)
  OBVIOUS
<1>6. Stack(kept) /\ Len(kept) = k /\ Low(kept, top)
  <2>1. CASE drop
    <3>1. PICK w : w = WithoutLast(v)
      OBVIOUS
    <3>2. Underway(v) /\ IsSeq(v.responses)
      BY <1>2, <1>3 DEF Stack, Underway, IsLevel
    <3>3. Alike(v, w) /\ Underway(w) /\ (Started(v) => Started(w))
      BY <3>1, <3>2, WithoutLastIs, AlikeIs
    <3>4. Replaces(w, levels)
      BY <1>2, <1>3, <3>3 DEF Replaces, Alike, Stack
    <3>5. kept = [levels EXCEPT ![k] = w]
      BY <1>2, <1>5, <2>1, <3>1 DEF WithoutLast
    <3>6. Len(levels) > 0
      BY <1>2
    <3>7. StackWith([levels EXCEPT ![Len(levels)] = w], levels, w)
      BY <1>3, <3>4, <3>6, TopReplaced, Zenon
    <3>8. Stack(kept) /\ Len(kept) = k
      BY <1>2, <3>5, <3>7 DEF StackWith
    <3>9. w.responses = Front(v.responses)
      BY <3>1, <3>2, WithoutLastResults
    <3>10. Flat(v) => Flat(w)
      BY <3>2, <3>9, FlatFront
    <3>11. Replaced([levels EXCEPT ![k] = w], levels, k, w)
      <4>1. IsSeq(levels) /\ k \in 1..Len(levels)
        BY <1>2, <1>3 DEF Stack
      <4> QED BY <4>1, ExceptIs, Zenon
    <3>12. \A m \in 1..k : kept[m] = IF m = k THEN w ELSE levels[m]
      BY <1>2, <3>5, <3>11 DEF Replaced
    <3>13. \A m \in 1..k : Flat(levels[m]) => Flat(kept[m])
      BY <1>2, <3>10, <3>12
    <3>14. Low(kept, top)
      BY <1>1, <1>2, <3>8, <3>13, LowKept
    <3> QED BY <3>8, <3>14
  <2>2. CASE ~drop
    BY <1>1, <1>2, <1>3, <1>5, <2>2
  <2> QED BY <2>1, <2>2
<1>7. PICK t : t = SetState(kept, "Replying")
  OBVIOUS
<1>8. Low(t, top)
  <2>1. "Replying" \in MsgStates /\ "Replying" # "NotExecuted"
    BY DEF MsgStates
  <2>2. Changed(t, kept, k, "Replying")
    BY <1>2, <1>6, <1>7, <2>1, SetStateResults
  <2> QED BY <1>6, <2>2, LowMoved DEF Changed
<1>9. Low(Unwind(search).levels, top)
  BY LowUnwind
<1>10. \/ AtShouldReply(search) = Unwind(search)
       \/ \E x : AtShouldReply(search) = [Stop(search, t, reply) EXCEPT !.thrown = x]
  <2>1. PICK found : found = Stop(search, t, reply)
    OBVIOUS
  <2>2. \/ AtShouldReply(search) = Unwind(search)
        \/ AtShouldReply(search) = [found EXCEPT !.thrown = @ + (IF drop THEN 1 ELSE 0)]
    BY <1>1, <1>2, <1>4, <1>5, <1>7, <2>1 DEF AtShouldReply
  <2>3. PICK x : x = found.thrown + (IF drop THEN 1 ELSE 0)
    OBVIOUS
  <2>4. [found EXCEPT !.thrown = @ + (IF drop THEN 1 ELSE 0)] = [found EXCEPT !.thrown = x]
    BY <2>3
  <2> QED BY <2>1, <2>2, <2>4
<1>11. ASSUME NEW x
       PROVE  [Stop(search, t, reply) EXCEPT !.thrown = x].levels = t
  <2>1. PICK found : found = Stop(search, t, reply)
    OBVIOUS
  <2>2. found.levels = t /\ DOMAIN found = DOMAIN search
    BY <2>1 DEF Sound, Stop
  <2>3. [found EXCEPT !.thrown = x].levels = t
    BY <2>2 DEF Sound
  <2> QED BY <2>1, <2>3
<1> QED BY <1>8, <1>9, <1>10, <1>11

LEMMA LowTurn ==
    ASSUME NEW top \in 1..3, NEW search, Sound(search), ~search.over,
           Len(search.levels) > 0, Low(search.levels, top)
    PROVE  Low(Turn(search).levels, top)
<1>1. PICK levels, at : levels = search.levels /\ at = Current(Last(levels)).state
  OBVIOUS
<1>2. PICK v : v = levels[Len(levels)]
  OBVIOUS
<1>3. PICK k \in Nat : k = Len(levels) /\ k > 0 /\ v = levels[k] /\ Stack(levels)
  BY <1>1, <1>2, SeqIs DEF Sound, Stack
<1>4. at = StateAt(v, v.index) /\ at \in MsgStates
  <2>1. Underway(v)
    BY <1>3 DEF Stack
  <2> QED BY <1>1, <1>2, <2>1 DEF Current, Last, StateAt, Underway, IsLevel
<1>5. levels # <<>> /\ search.error \in BOOLEAN
  BY <1>1, <1>3, EmptyIs DEF Sound
<1>6. Turn(search) = CASE at = "NotExecuted" -> AtNotExecuted(search)
                       [] at = "ShouldReply" -> AtShouldReply(search)
                       [] at \in {"Done", "Replying"} /\ search.error -> Unwind(search)
                       [] at = "Done" /\ ~search.error -> AtDone(search)
                       [] at = "Replying" /\ ~search.error ->
                            Resume(search, SetState(levels, "Done"))
  BY <1>1, <1>5 DEF Turn
<1>7. ASSUME NEW s \in MsgStates, s # "NotExecuted"
      PROVE  Low(SetState(levels, s), top)
  <2>1. Changed(SetState(levels, s), levels, k, s)
    BY <1>3, <1>7, SetStateResults
  <2> QED BY <1>1, <1>3, <2>1, LowMoved DEF Changed
<1>8. CASE at = "NotExecuted"
  <2>1. PICK msg, s : /\ msg = Current(Last(levels))
                      /\ s = IF msg.reply_on = "never" THEN "Done" ELSE "ShouldReply"
    OBVIOUS
  <2>2. PICK t, found : /\ t = SetState(levels, s)
                        /\ found = [type |-> "msg", to |-> msg.to, sender |-> Caller(levels)]
    OBVIOUS
  <2>3. AtNotExecuted(search) = Stop(search, t, found)
    BY <1>1, <2>1, <2>2 DEF AtNotExecuted
  <2>4. Stop(search, t, found).levels = t
    BY DEF Sound, Stop
  <2>5. Low(t, top)
    BY <1>7, <2>1, <2>2 DEF MsgStates
  <2> QED BY <1>6, <1>8, <2>3, <2>4, <2>5
<1>9. CASE at = "ShouldReply"
  BY <1>1, <1>2, <1>4, <1>6, <1>9, LowShouldReply
<1>10. CASE at \in {"Done", "Replying"} /\ search.error
  BY <1>6, <1>10, LowUnwind
<1>11. CASE at = "Done" /\ ~search.error
  BY <1>1, <1>2, <1>4, <1>6, <1>11, LowDone
<1>12. CASE at = "Replying" /\ ~search.error
  <2>1. PICK t : t = SetState(levels, "Done")
    OBVIOUS
  <2>2. Turn(search) = Resume(search, t)
    BY <1>6, <1>12, <2>1
  <2>3. Resume(search, t).levels = t
    BY DEF Sound, Resume
  <2>4. Low(t, top)
    BY <1>7, <2>1 DEF MsgStates
  <2> QED BY <2>2, <2>3, <2>4
<1> QED BY <1>4, <1>5, <1>8, <1>9, <1>10, <1>11, <1>12 DEF MsgStates

LEMMA SearchLow ==
    ASSUME NEW levels, Stack(levels), NEW error \in BOOLEAN, NEW top \in 1..3,
           Low(levels, top)
    PROVE  Low(FindNext(levels, error).levels, top)
<1>1. PICK last \in Nat : last = Turns(levels)
  BY SeqIs DEF Turns, Stack
<1>2. PICK turn : /\ IsLoop(last, levels, error, turn)
                  /\ FindNext(levels, error) = turn[last]
  <2>1. PICK f : f = (CHOOSE turn : IsLoop(last, levels, error, turn))
    OBVIOUS
  <2>2. IsLoop(last, levels, error, f)
    BY <2>1, LoopExists
  <2>3. FindNext(levels, error) = f[last]
    BY <1>1, <2>1, LoopIsChosen
  <2> QED BY <2>2, <2>3
<1> DEFINE G == {k \in 0..last : Sound(turn[k]) /\ Low(turn[k].levels, top)}
<1>3. 0 \in G
  <2>1. PICK s : s = Search(levels, error)
    OBVIOUS
  <2>2. turn[0] = s
    BY <1>2, <2>1 DEF IsLoop
  <2>3. /\ DOMAIN s = {"levels", "error", "start", "next", "thrown", "over"}
        /\ s.levels = levels /\ s.error = error /\ s.over = FALSE /\ s.next = Nothing
    BY <2>1 DEF Search
  <2>4. Sound(s)
    BY <2>3, StackIsOrderly DEF Sound
  <2> QED BY <2>2, <2>3, <2>4
<1>4. ASSUME NEW i \in 1..last, i > 0, i - 1 \in G
      PROVE  i \in G
  <2>1. PICK s, t : s = turn[i - 1] /\ t = turn[i]
    OBVIOUS
  <2>2. Sound(s) /\ Low(s.levels, top)
    BY <1>4, <2>1
  <2> SUFFICES Sound(t) /\ Low(t.levels, top)
    BY <2>1
  <2>3. t = Turn(s)
    <3>1. turn[i] = IF i = 0 THEN Search(levels, error) ELSE Turn(turn[i - 1])
      BY <1>2 DEF IsLoop
    <3> QED BY <1>4, <2>1, <3>1
  <2>4. CASE s.over
    BY <2>2, <2>3, <2>4 DEF Turn
  <2>5. CASE ~s.over /\ Len(s.levels) > 0
    BY <2>2, <2>3, <2>5, TurnIs, LowTurn DEF Progress
  <2>6. CASE ~s.over /\ ~(Len(s.levels) > 0)
    <3>1. s.levels = <<>>
      BY <2>2, <2>6, NonEmpty DEF Sound, Stack
    <3> QED BY <2>2, <2>3, <3>1 DEF Turn
  <2> QED BY <2>4, <2>5, <2>6
<1> HIDE DEF G
<1>5. 0 \in 0..last
  OBVIOUS
<1>6. last \in G
  <2>1. \A i \in 0..last : i \in G
    BY <1>3, <1>4, <1>5, StepByStep
  <2> QED BY <2>1
<1> QED BY <1>2, <1>6 DEF G
-----------------------------------------------------------------------------
LowInv == outcome = "running" => Low(states, MaxLevels)

LEMMA NewLow ==
    ASSUME MaxLevels \in 1..3, NEW c, NewExecution(c)
    PROVE  LowInv'
<1>1. PICK v : v = Level(User, <<[to |-> c, reply_on |-> "never"]>>)
  OBVIOUS
<1>2. PICK levels : levels = <<v>>
  OBVIOUS
<1>20. Len(levels) = 1 /\ levels[1] = v
  BY <1>2
<1>3. SetState(levels, "Done") = [levels EXCEPT ![1] = WithState(v, "Done")]
  BY <1>20, SetStateIs
<1>4. Len([levels EXCEPT ![1] = WithState(v, "Done")]) = 1
  BY <1>2
<1>5. states' = SetState(levels, "Done")
  BY <1>1, <1>2 DEF NewExecution
<1>6. Len(states') = 1
  BY <1>3, <1>4, <1>5
<1> QED BY <1>6 DEF LowInv, Low

LEMMA SuccessfulLow ==
    ASSUME MaxLevels \in 1..3, MessagesInv, RepliesInv, LowInv, NEW data,
           NEW msgs \in BoundedSeq(Messages, MaxMsgs), RunSucceeds(data, msgs)
    PROVE  LowInv'
<1>1. /\ Stack(states) /\ Asks(states, next) /\ RunningInv /\ Low(states, MaxLevels)
  BY DEF MessagesInv, RepliesInv, LowInv, RunSucceeds, Running
<1>2. PICK n \in Nat : n = Len(states) /\ n > 0
  BY <1>1, SeqIs DEF Stack, Asks
<1>3. PICK levels : levels = Respond(data, msgs)
  OBVIOUS
<1>4. Runner = BankModule => data = NoData
  BY DEF RunSucceeds
<1>5. Responded(levels, n, data, msgs)
  BY <1>1, <1>2, <1>3, <1>4, BooksResponded
<1>6. Low(levels, MaxLevels)
  <2>1. msgs # <<>> => n < MaxLevels
    BY <1>2 DEF RunSucceeds
  <2>2. /\ Len(levels) \in {n, n + 1}
        /\ \A m \in 1..n : Flat(states[m]) => Flat(levels[m])
        /\ Len(levels) > n => Flat(levels[Len(levels)]) /\ msgs # <<>>
    BY <1>5 DEF Responded
  <2>3. n <= MaxLevels /\ \A m \in 1..n : m > 2 => Flat(states[m])
    BY <1>1, <1>2 DEF Low
  <2>4. CASE Len(levels) = n
    BY <2>2, <2>3, <2>4 DEF Low
  <2>5. CASE Len(levels) = n + 1
    <3>1. n < MaxLevels /\ Flat(levels[n + 1])
      BY <2>1, <2>2, <2>5
    <3>2. \A m \in 1..(n + 1) : m \in 1..n \/ m = n + 1
      OBVIOUS
    <3>3. \A m \in 1..(n + 1) : m > 2 => Flat(levels[m])
      BY <2>2, <2>3, <3>1, <3>2
    <3>4. n + 1 <= MaxLevels
      BY <3>1
    <3> QED BY <2>5, <3>3, <3>4 DEF Low
  <2> QED BY <2>2, <2>4, <2>5
<1>7. PICK error : error = FALSE
  OBVIOUS
<1>8. Low(FindNext(levels, error).levels, MaxLevels)
  <2>1. error \in BOOLEAN /\ Stack(levels)
    BY <1>5, <1>7 DEF Responded
  <2> QED BY <1>6, <2>1, SearchLow
<1>9. states' = FindNext(levels, error).levels
  BY <1>3, <1>7 DEF RunSucceeds, Keep
<1> QED BY <1>8, <1>9 DEF LowInv

LEMMA FailedLow ==
    ASSUME MaxLevels \in 1..3, MessagesInv, LowInv, RunFails
    PROVE  LowInv'
<1>1. Stack(states) /\ Low(states, MaxLevels)
  BY DEF MessagesInv, LowInv, RunFails, Running
<1>2. PICK error : error = TRUE
  OBVIOUS
<1>3. Low(FindNext(states, error).levels, MaxLevels)
  <2>1. error \in BOOLEAN
    BY <1>2
  <2> QED BY <1>1, <2>1, SearchLow
<1>4. states' = FindNext(states, error).levels
  BY <1>2 DEF RunFails, Keep
<1> QED BY <1>3, <1>4 DEF LowInv

\* The error is caught at the second level or above.
LEMMA CaughtLow ==
    ASSUME MaxLevels \in 1..3, outcome = "running", LowInv, MessagesInv'
    PROVE  CaughtErrorsAreFlat
<1> SUFFICES ASSUME outcome' = "running", next'.type = "reply"
             PROVE  FlatAbove(states, Len(states'))
  BY DEF CaughtErrorsAreFlat
<1>1. Len(states') > 1 /\ Len(states') \in Nat
  BY SeqIs DEF MessagesInv, Asks, Stack
<1>2. \A m \in 1..Len(states) : m > 2 => Flat(states[m])
  BY DEF LowInv, Low
<1>3. \A m \in 1..Len(states) : m > Len(states') => m > 2
  BY <1>1
<1> QED BY <1>2, <1>3 DEF FlatAbove

LEMMA StepLow ==
    ASSUME MaxLevels \in 1..3, MessagesInv, MessagesInv', RepliesInv, LowInv,
           [MessagesNext]_messageVars
    PROVE  LowInv' /\ [CaughtErrorsAreFlat]_messageVars
<1>1. CASE UNCHANGED messageVars
  BY <1>1 DEF messageVars, LowInv
<1>2. ASSUME NEW c \in Contract, NewExecution(c)
      PROVE  LowInv' /\ CaughtErrorsAreFlat
  <2>1. next'.type = "msg"
    BY <1>2 DEF NewExecution
  <2> QED BY <1>2, <2>1, NewLow DEF CaughtErrorsAreFlat
<1>3. ASSUME NEW data \in Data \cup {NoData},
             NEW msgs \in BoundedSeq(Messages, MaxMsgs), RunSucceeds(data, msgs)
      PROVE  LowInv' /\ CaughtErrorsAreFlat
  BY <1>3, SuccessfulLow, CaughtLow DEF RunSucceeds, Running
<1>4. CASE RunFails
  BY <1>4, FailedLow, CaughtLow DEF RunFails, Running
<1>5. CASE RunAborts
  BY <1>5 DEF RunAborts, LowInv, CaughtErrorsAreFlat
<1> QED BY <1>1, <1>2, <1>3, <1>4, <1>5 DEF MessagesNext

LEMMA ShallowIsFlat ==
    ASSUME MaxLevels \in 1..3
    PROVE  MessagesSpec => [][CaughtErrorsAreFlat]_messageVars
<1>1. MessagesInit => RepliesInv /\ LowInv
  BY DEF MessagesInit, RepliesInv, LowInv
<1>2. MessagesInv /\ MessagesInv' /\ RepliesInv /\ LowInv /\ [MessagesNext]_messageVars
        => RepliesInv' /\ LowInv' /\ [CaughtErrorsAreFlat]_messageVars
  BY StepLow, StepReplies
<1> QED BY <1>1, <1>2, MessagesAlways, PTL DEF MessagesSpec

(* The condition is met, whatever contracts do, while a transaction is     *)
(* nested three deep at most: the root message, what it asks for, and what *)
(* that asks for.                                                          *)
THEOREM ShallowErrorsAreUndone ==
    ASSUME MaxLevels \in 1..3
    PROVE  MessagesSpec => []CaughtErrorIsUndone
BY ShallowIsFlat, CaughtErrorsAreUndone, PTL

(* And the replies carry their results, whatever contracts do, while it is *)
(* nested three deep at most.                                              *)
THEOREM ShallowRepliesCarryTheirResults ==
    ASSUME MaxLevels \in 1..3
    PROVE  MessagesSpec => []ReplyCarriesItsResult
BY ShallowIsFlat, RepliesCarryTheirResults, PTL
-----------------------------------------------------------------------------
(* Walking through the responses.                                          *)

\* f is what is left of `responses' after each of the scopes a + 1 to b was
\* come to, in that order.
Walk(f, responses, open, a, b) ==
    /\ f[a] = responses /\ f[b] = <<>>
    /\ \A p \in a..b : IsSeq(f[p])
    /\ \A p \in a..(b - 1) : /\ f[p] # <<>> /\ IsSeq(Head(f[p]).sent)
                             /\ Head(f[p]).run = open[p + 1]
                             /\ f[p + 1] = Head(f[p]).sent \o Tail(f[p])

Walks(responses, open, a, b) ==
    a \in Nat /\ b \in Nat /\ a <= b /\ \E f : Walk(f, responses, open, a, b)

LEMMA EmptyWalks ==
    ASSUME NEW open, NEW a \in Nat
    PROVE  Walks(<<>>, open, a, a)
<1>1. PICK f : f = [p \in a..a |-> <<>>]
  OBVIOUS
<1>2. \A p \in a..a : f[p] = <<>>
  BY <1>1
<1>3. Walk(f, <<>>, open, a, a)
  <2>1. f[a] = <<>>
    BY <1>2
  <2>2. \A p \in a..a : IsSeq(f[p])
    BY <1>2, EmptyIs
  <2>3. a..(a - 1) = {}
    OBVIOUS
  <2> QED BY <2>1, <2>2, <2>3 DEF Walk
<1> QED BY <1>3 DEF Walks

LEMMA WalksNowhere ==
    ASSUME NEW open, NEW a, NEW b, Walks(<<>>, open, a, b)
    PROVE  b = a
<1>1. PICK f : Walk(f, <<>>, open, a, b)
  BY DEF Walks
<1>2. a \in Nat /\ b \in Nat /\ a <= b
  BY DEF Walks
<1>3. ASSUME b # a
      PROVE  FALSE
  <2>1. a \in a..(b - 1)
    BY <1>2, <1>3
  <2> QED BY <1>1, <2>1 DEF Walk
<1> QED BY <1>3

LEMMA WalksSame ==
    ASSUME NEW responses, NEW open, NEW a, NEW b, Walks(responses, open, a, b),
           NEW other, \A p \in (a + 1)..b : other[p] = open[p]
    PROVE  Walks(responses, other, a, b)
<1>1. PICK f : Walk(f, responses, open, a, b)
  BY DEF Walks
<1>2. \A p \in a..(b - 1) : p + 1 \in (a + 1)..b
  BY DEF Walks
<1>3. Walk(f, responses, other, a, b)
  BY <1>1, <1>2 DEF Walk
<1> QED BY <1>3 DEF Walks

\* With more after it.
LEMMA HeadJoined ==
    ASSUME NEW s, IsSeq(s), s # <<>>, NEW t, IsSeq(t), NEW x, IsSeq(x)
    PROVE  /\ s \o t # <<>> /\ Head(s \o t) = Head(s) /\ IsSeq(s \o t)
           /\ x \o Tail(s \o t) = (x \o Tail(s)) \o t
<1>1. PICK S, T, X : s \in Seq(S) /\ t \in Seq(T) /\ x \in Seq(X)
  BY DEF IsSeq
<1>2. PICK U : U = S \cup T \cup X
  OBVIOUS
<1>3. s \in Seq(U) /\ t \in Seq(U) /\ x \in Seq(U)
  <2>1. S \subseteq U /\ T \subseteq U /\ X \subseteq U
    BY <1>2
  <2> QED BY <1>1, <2>1, SeqMonotonic
<1>4. PICK r : r = Tail(s)
  OBVIOUS
<1>5. PICK n \in Nat, m \in Nat : n = Len(s) /\ n > 0 /\ m = Len(t)
  BY <1>3, EmptySeq
<1>6. r \in Seq(U) /\ Len(r) = n - 1 /\ \A i \in 1..(n - 1) : r[i] = s[i + 1]
  BY <1>3, <1>4, <1>5
<1>7. PICK u : u = s \o t
  OBVIOUS
<1>8. u \in Seq(U) /\ Len(u) = n + m /\ u # <<>> /\ Head(u) = Head(s)
  BY <1>3, <1>5, <1>7
<1>9. Tail(u) = r \o t
  <2>1. PICK v, w : v = Tail(u) /\ w = r \o t
    OBVIOUS
  <2>2. v \in Seq(U) /\ Len(v) = n + m - 1 /\ \A i \in 1..(n + m - 1) : v[i] = u[i + 1]
    BY <1>5, <1>8, <2>1
  <2>3. w \in Seq(U) /\ Len(w) = n + m - 1
    <3>1. w \in Seq(U) /\ Len(w) = Len(r) + Len(t)
      BY <1>3, <1>6, <2>1, ConcatProperties
    <3>2. Len(r) + Len(t) = n + m - 1
      BY <1>5, <1>6
    <3> QED BY <3>1, <3>2
  <2>4. ASSUME NEW i \in 1..(n + m - 1)
        PROVE  v[i] = w[i]
    <3>1. CASE i <= n - 1
      <4>1. w[i] = r[i]
        BY <1>3, <1>6, <2>1, <3>1
      <4>2. u[i + 1] = s[i + 1]
        BY <1>3, <1>5, <1>7, <3>1
      <4> QED BY <1>6, <2>2, <3>1, <4>1, <4>2
    <3>2. CASE ~(i <= n - 1)
      <4>1. w[i] = t[i - (n - 1)]
        <5>1. /\ Len(r) = n - 1 /\ i \in 1..(Len(r) + Len(t))
          BY <1>5, <1>6
        <5>2. w[i] = IF i <= Len(r) THEN r[i] ELSE t[i - Len(r)]
          BY <1>3, <1>6, <2>1, <5>1, ConcatProperties
        <5> QED BY <3>2, <5>1, <5>2
      <4>2. u[i + 1] = t[i + 1 - n]
        BY <1>3, <1>5, <1>7, <3>2
      <4>3. i - (n - 1) = i + 1 - n
        BY <1>5
      <4> QED BY <2>2, <4>1, <4>2, <4>3
    <3> QED BY <3>1, <3>2
  <2> QED BY <2>1, <2>2, <2>3, <2>4, SeqEqual
<1>10. x \o (r \o t) = (x \o r) \o t
  BY <1>3, <1>6, ConcatAssociative
<1> QED BY <1>4, <1>7, <1>8, <1>9, <1>10 DEF IsSeq

LEMMA WalksJoin ==
    ASSUME NEW open, NEW s, NEW t, NEW a, NEW m, NEW b,
           Walks(s, open, a, m), Walks(t, open, m, b)
    PROVE  Walks(s \o t, open, a, b)
<1>1. a \in Nat /\ m \in Nat /\ b \in Nat /\ a <= m /\ m <= b
  BY DEF Walks
<1>2. PICK f, g : Walk(f, s, open, a, m) /\ Walk(g, t, open, m, b)
  BY DEF Walks
<1>3. PICK h : h = [p \in a..b |-> IF p <= m THEN f[p] \o t ELSE g[p]]
  OBVIOUS
<1>4. IsSeq(t)
  <2>1. m \in m..b
    BY <1>1
  <2> QED BY <1>2, <2>1 DEF Walk
<1>5. h[m] = t
  <2>1. h[m] = f[m] \o t /\ f[m] = <<>>
    <3>1. m \in a..b /\ m <= m
      BY <1>1
    <3>2. f[m] = <<>>
      BY <1>2 DEF Walk
    <3> QED BY <1>3, <3>1, <3>2
  <2>2. PICK T : t \in Seq(T)
    BY <1>4 DEF IsSeq
  <2>3. <<>> \o t = t
    BY <2>2, ConcatEmptySeq
  <2> QED BY <2>1, <2>3
<1>6. \A p \in m..b : h[p] = g[p]
  <2>1. g[m] = t
    BY <1>2 DEF Walk
  <2>2. \A p \in m..b : p = m \/ (p \in a..b /\ ~(p <= m))
    BY <1>1
  <2> QED BY <1>3, <1>5, <2>1, <2>2
<1>7. \A p \in a..m : h[p] = f[p] \o t
  BY <1>1, <1>3
<1>8. \A p \in a..b : p \in a..m \/ p \in m..b
  BY <1>1
<1>9. ASSUME NEW p \in a..b
      PROVE  IsSeq(h[p])
  <2>1. CASE p \in a..m
    <3>1. h[p] = f[p] \o t /\ IsSeq(f[p])
      BY <1>2, <1>7, <2>1 DEF Walk
    <3> QED BY <1>4, <3>1, JoinIs
  <2>2. CASE p \in m..b
    BY <1>2, <1>6, <2>2 DEF Walk
  <2> QED BY <1>8, <2>1, <2>2
<1>10. h[a] = s \o t /\ h[b] = <<>>
  <2>1. a \in a..m /\ b \in m..b
    BY <1>1
  <2> QED BY <1>2, <1>6, <1>7, <2>1 DEF Walk
<1>11. ASSUME NEW p \in a..(b - 1)
       PROVE  /\ h[p] # <<>> /\ IsSeq(Head(h[p]).sent)
              /\ Head(h[p]).run = open[p + 1]
              /\ h[p + 1] = Head(h[p]).sent \o Tail(h[p])
  <2>1. CASE p < m
    <3>1. p \in a..(m - 1) /\ p \in a..m /\ p + 1 \in a..m
      BY <1>1, <2>1
    <3>2. PICK l, x : l = f[p] /\ x = Head(l).sent
      OBVIOUS
    <3>3. /\ l # <<>> /\ IsSeq(l) /\ IsSeq(x) /\ Head(l).run = open[p + 1]
          /\ f[p + 1] = x \o Tail(l)
      BY <1>2, <3>1, <3>2 DEF Walk
    <3>4. h[p] = l \o t /\ h[p + 1] = (x \o Tail(l)) \o t
      BY <1>7, <3>1, <3>2, <3>3
    <3>5. /\ l \o t # <<>> /\ Head(l \o t) = Head(l)
          /\ x \o Tail(l \o t) = (x \o Tail(l)) \o t
      BY <1>4, <3>3, HeadJoined
    <3> QED BY <3>2, <3>3, <3>4, <3>5
  <2>2. CASE ~(p < m)
    <3>1. p \in m..(b - 1) /\ p \in m..b /\ p + 1 \in m..b
      BY <1>1, <2>2
    <3> QED BY <1>2, <1>6, <3>1 DEF Walk
  <2> QED BY <2>1, <2>2
<1>12. Walk(h, s \o t, open, a, b)
  BY <1>9, <1>10, <1>11 DEF Walk
<1> QED BY <1>1, <1>12 DEF Walks

\* A response, and those below it.
Visits(response, open, a, b) ==
    /\ a \in Nat /\ IsSeq(response.sent) /\ response.run = open[a + 1]
    /\ Walks(response.sent, open, a + 1, b)

LEMMA VisitsWalk ==
    ASSUME NEW response, NEW open, NEW a, NEW b, Visits(response, open, a, b)
    PROVE  Walks(<<response>>, open, a, b)
<1>1. a \in Nat /\ b \in Nat /\ a + 1 <= b
  BY DEF Visits, Walks
<1>2. PICK sent : sent = response.sent /\ IsSeq(sent)
  BY DEF Visits
<1>3. PICK f : Walk(f, sent, open, a + 1, b)
  BY <1>2 DEF Visits, Walks
<1>4. PICK one : one = <<response>>
  OBVIOUS
<1>5. PICK g : g = [p \in a..b |-> IF p = a THEN one ELSE f[p]]
  OBVIOUS
<1>6. g[a] = one /\ \A p \in (a + 1)..b : g[p] = f[p]
  BY <1>1, <1>5
<1>7. one # <<>> /\ Head(one) = response /\ IsSeq(one) /\ sent \o Tail(one) = sent
  <2>1. one \in Seq({response}) /\ Len(one) = 1 /\ Head(one) = response
    BY <1>4
  <2>2. Tail(one) = <<>>
    BY <1>4
  <2>3. PICK S : sent \in Seq(S)
    BY <1>2 DEF IsSeq
  <2>4. sent \o <<>> = sent
    BY <2>3, ConcatEmptySeq
  <2>5. one # <<>>
    BY <1>4
  <2> QED BY <2>1, <2>2, <2>4, <2>5 DEF IsSeq
<1>8. g[a + 1] = sent /\ g[b] = <<>>
  <2>1. a + 1 \in (a + 1)..b /\ b \in (a + 1)..b
    BY <1>1
  <2> QED BY <1>3, <1>6, <2>1 DEF Walk
<1>9. ASSUME NEW p \in a..b
      PROVE  IsSeq(g[p])
  <2>1. p = a \/ p \in (a + 1)..b
    BY <1>1
  <2> QED BY <1>3, <1>6, <1>7, <2>1 DEF Walk
<1>10. ASSUME NEW p \in a..(b - 1)
       PROVE  /\ g[p] # <<>> /\ IsSeq(Head(g[p]).sent)
              /\ Head(g[p]).run = open[p + 1]
              /\ g[p + 1] = Head(g[p]).sent \o Tail(g[p])
  <2>1. CASE p = a
    BY <1>2, <1>6, <1>7, <1>8, <2>1 DEF Visits
  <2>2. CASE p # a
    <3>1. p \in (a + 1)..(b - 1) /\ p \in (a + 1)..b /\ p + 1 \in (a + 1)..b
      BY <1>1, <2>2
    <3> QED BY <1>3, <1>6, <3>1 DEF Walk
  <2> QED BY <2>1, <2>2
<1>11. Walk(g, one, open, a, b)
  BY <1>6, <1>8, <1>9, <1>10 DEF Walk
<1> QED BY <1>1, <1>4, <1>11 DEF Walks
-----------------------------------------------------------------------------
(* The responses of a level, and where each of them ends.                  *)
Cuts(c, responses, open, a, b) ==
    /\ c \in [0..Len(responses) -> Nat]
    /\ c[0] = a /\ c[Len(responses)] = b
    /\ \A i \in 1..Len(responses) : Visits(responses[i], open, c[i - 1], c[i])

Spans(responses, open, a, b) == \E c : Cuts(c, responses, open, a, b)

LEMMA VisitsMore ==
    ASSUME NEW response, NEW open, NEW a, NEW b, Visits(response, open, a, b)
    PROVE  a \in Nat /\ b \in Nat /\ a < b
BY DEF Visits, Walks

LEMMA CutsGrow ==
    ASSUME NEW responses, NEW n \in Nat, n = Len(responses), NEW open, NEW a, NEW b,
           NEW c, Cuts(c, responses, open, a, b)
    PROVE  \A i, k \in 0..n : i <= k => c[i] <= c[k]
<1> SUFFICES ASSUME NEW i \in 0..n
             PROVE  \A k \in i..n : c[i] <= c[k]
  OBVIOUS
<1>1. \A k \in 0..n : c[k] \in Nat
  BY DEF Cuts
<1> DEFINE G == {k \in 0..n : c[i] <= c[k]}
<1>2. i \in G
  BY <1>1
<1>3. ASSUME NEW k \in 1..n, k > i, k - 1 \in G
      PROVE  k \in G
  <2>1. Visits(responses[k], open, c[k - 1], c[k])
    BY DEF Cuts
  <2>2. c[k - 1] < c[k] /\ c[k - 1] \in Nat /\ c[k] \in Nat
    BY <2>1, VisitsMore
  <2>3. c[i] <= c[k - 1] /\ c[i] \in Nat
    BY <1>1, <1>3
  <2>4. c[i] <= c[k]
    BY <2>2, <2>3
  <2> QED BY <2>4
<1> HIDE DEF G
<1>4. \A k \in i..n : k \in G
  BY <1>2, <1>3, StepByStep
<1> QED BY <1>4 DEF G

LEMMA SpansEnds ==
    ASSUME NEW responses, IsSeq(responses), NEW open, NEW a, NEW b,
           Spans(responses, open, a, b)
    PROVE  a \in Nat /\ b \in Nat /\ a <= b
<1>1. PICK c : Cuts(c, responses, open, a, b)
  BY DEF Spans
<1>2. PICK n \in Nat : n = Len(responses)
  BY SeqIs
<1>3. 0 \in 0..n /\ n \in 0..n /\ 0 <= n
  OBVIOUS
<1>4. c[0] <= c[n]
  BY <1>1, <1>2, <1>3, CutsGrow
<1> QED BY <1>1, <1>2, <1>3, <1>4 DEF Cuts

LEMMA SpansWalk ==
    ASSUME NEW responses, IsSeq(responses), NEW open, NEW a, NEW b,
           Spans(responses, open, a, b)
    PROVE  Walks(responses, open, a, b)
<1>1. PICK c : Cuts(c, responses, open, a, b)
  BY DEF Spans
<1>2. PICK n \in Nat : n = Len(responses)
  BY SeqIs
<1>3. PICK S : responses \in Seq(S)
  BY DEF IsSeq
<1> DEFINE G == {k \in 0..n : Walks(SubSeq(responses, 1, k), open, a, c[k])}
<1>4. 0 \in G
  <2>1. SubSeq(responses, 1, 0) = <<>> /\ c[0] = a /\ c[0] \in Nat
    BY <1>1, <1>2, <1>3 DEF Cuts
  <2>2. Walks(<<>>, open, a, a)
    BY <2>1, EmptyWalks
  <2>3. Walks(SubSeq(responses, 1, 0), open, a, c[0])
    BY <2>1, <2>2
  <2> QED BY <2>3
<1>5. ASSUME NEW k \in 1..n, k > 0, k - 1 \in G
      PROVE  k \in G
  <2>1. PICK s, q : s = SubSeq(responses, 1, k - 1) /\ q = responses[k]
    OBVIOUS
  <2>2. Walks(s, open, a, c[k - 1])
    BY <1>5, <2>1
  <2>3. Walks(<<q>>, open, c[k - 1], c[k])
    <3>1. Visits(q, open, c[k - 1], c[k])
      BY <1>1, <1>2, <2>1 DEF Cuts
    <3> QED BY <3>1, VisitsWalk
  <2>4. SubSeq(responses, 1, k) = s \o <<q>>
    <3>1. PICK t, u : t = SubSeq(responses, 1, k) /\ u = s \o <<q>>
      OBVIOUS
    <3>2. t \in Seq(S) /\ Len(t) = k /\ \A i \in 1..k : t[i] = responses[i]
      BY <1>2, <1>3, <3>1
    <3>3. s \in Seq(S) /\ Len(s) = k - 1 /\ \A i \in 1..(k - 1) : s[i] = responses[i]
      BY <1>2, <1>3, <2>1
    <3>4. <<q>> \in Seq(S) /\ Len(<<q>>) = 1
      BY <1>2, <1>3, <2>1
    <3>5. u \in Seq(S) /\ Len(u) = Len(s) + Len(<<q>>)
          /\ \A i \in 1..(Len(s) + Len(<<q>>)) :
               u[i] = IF i <= Len(s) THEN s[i] ELSE <<q>>[i - Len(s)]
      BY <3>1, <3>3, <3>4, ConcatProperties
    <3>6. Len(u) = k /\ \A i \in 1..k : u[i] = responses[i]
      <4>1. Len(u) = k
        BY <3>3, <3>4, <3>5
      <4>2. ASSUME NEW i \in 1..k
            PROVE  u[i] = responses[i]
        <5>1. CASE i = k
          <6>1. u[i] = <<q>>[i - Len(s)] /\ i - Len(s) = 1
            BY <3>3, <3>4, <3>5, <5>1
          <6> QED BY <2>1, <5>1, <6>1
        <5>2. CASE i # k
          BY <3>3, <3>4, <3>5, <5>2
        <5> QED BY <5>1, <5>2
      <4> QED BY <4>1, <4>2
    <3> QED BY <3>1, <3>2, <3>5, <3>6, SeqEqual
  <2>5. Walks(s \o <<q>>, open, a, c[k])
    BY <2>2, <2>3, WalksJoin
  <2>6. Walks(SubSeq(responses, 1, k), open, a, c[k])
    BY <2>4, <2>5
  <2> QED BY <2>6
<1> HIDE DEF G
<1>6. 0 \in 0..n
  OBVIOUS
<1>7. n \in G
  <2>1. \A k \in 0..n : k \in G
    BY <1>4, <1>5, <1>6, StepByStep
  <2> QED BY <2>1
<1>8. SubSeq(responses, 1, n) = responses
  BY <1>2, <1>3
<1> QED BY <1>1, <1>2, <1>7, <1>8 DEF G, Cuts

LEMMA SpansSame ==
    ASSUME NEW responses, IsSeq(responses), NEW open, NEW a, NEW b,
           Spans(responses, open, a, b), NEW other, \A p \in 1..b : other[p] = open[p]
    PROVE  Spans(responses, other, a, b)
<1>1. PICK c : Cuts(c, responses, open, a, b)
  BY DEF Spans
<1>2. PICK n \in Nat : n = Len(responses)
  BY SeqIs
<1>3. ASSUME NEW i \in 1..n
      PROVE  Visits(responses[i], other, c[i - 1], c[i])
  <2>1. PICK q, k, m : q = responses[i] /\ k = c[i - 1] /\ m = c[i]
    OBVIOUS
  <2>2. Visits(q, open, k, m)
    BY <1>1, <1>2, <2>1 DEF Cuts
  <2>3. k \in Nat /\ m \in Nat /\ k < m /\ b \in Nat
    BY <1>1, <2>2, VisitsMore, SpansEnds
  <2>4. m <= b
    <3>1. i \in 0..n /\ n \in 0..n /\ i <= n
      OBVIOUS
    <3>2. c[i] <= c[n]
      BY <1>1, <1>2, <3>1, CutsGrow
    <3> QED BY <1>1, <1>2, <2>1, <3>2 DEF Cuts
  <2>5. \A p \in (k + 1)..m : other[p] = open[p]
    BY <2>3, <2>4
  <2>6. Walks(q.sent, other, k + 1, m)
    <3>1. \A p \in (k + 1 + 1)..m : other[p] = open[p]
      BY <2>3, <2>5
    <3> QED BY <2>2, <3>1, WalksSame DEF Visits
  <2>7. other[k + 1] = open[k + 1]
    BY <2>3, <2>5
  <2>8. Visits(q, other, k, m)
    BY <2>2, <2>6, <2>7 DEF Visits
  <2> QED BY <2>1, <2>8
<1>4. Cuts(c, responses, other, a, b)
  BY <1>1, <1>2, <1>3 DEF Cuts
<1> QED BY <1>4 DEF Spans

LEMMA SpansAppended ==
    ASSUME NEW responses, IsSeq(responses), NEW open, NEW a, NEW b,
           Spans(responses, open, a, b), NEW response, NEW e, Visits(response, open, b, e),
           NEW t, Appended(t, responses, response)
    PROVE  Spans(t, open, a, e)
<1>1. PICK c : Cuts(c, responses, open, a, b)
  BY DEF Spans
<1>2. PICK n \in Nat : n = Len(responses)
  BY SeqIs
<1>3. PICK g : g = [i \in 0..(n + 1) |-> IF i = n + 1 THEN e ELSE c[i]]
  OBVIOUS
<1>4. e \in Nat /\ c \in [0..n -> Nat] /\ c[0] = a /\ c[n] = b
  BY <1>1, <1>2, VisitsMore DEF Cuts
<1>5. g[n + 1] = e /\ \A i \in 0..n : g[i] = c[i]
  BY <1>3
<1>6. g \in [0..(n + 1) -> Nat]
  BY <1>3, <1>4
<1>7. Len(t) = n + 1 /\ t[n + 1] = response /\ \A i \in 1..n : t[i] = responses[i]
  BY <1>2 DEF Appended
<1>8. ASSUME NEW i \in 1..(n + 1)
      PROVE  Visits(t[i], open, g[i - 1], g[i])
  <2>1. CASE i = n + 1
    <3>1. i - 1 = n /\ n \in 0..n
      BY <2>1
    <3>2. g[i - 1] = b /\ g[i] = e /\ t[i] = response
      BY <1>4, <1>5, <1>7, <2>1, <3>1
    <3> QED BY <3>2
  <2>2. CASE i # n + 1
    <3>1. i \in 1..n /\ i - 1 \in 0..n /\ i \in 0..n
      BY <2>2
    <3> QED BY <1>1, <1>2, <1>5, <1>7, <3>1 DEF Cuts
  <2> QED BY <2>1, <2>2
<1>9. g[0] = a
  <2>1. 0 \in 0..n
    OBVIOUS
  <2> QED BY <1>4, <1>5, <2>1
<1>10. Cuts(g, t, open, a, e)
  BY <1>5, <1>6, <1>7, <1>8, <1>9 DEF Cuts
<1> QED BY <1>10 DEF Spans

\* The last response takes those that follow.
LEMMA SpansMore ==
    ASSUME NEW responses, IsSeq(responses), Len(responses) > 0, NEW open, NEW a, NEW b,
           Spans(responses, open, a, b), NEW more, IsSeq(more), NEW e,
           Walks(more, open, b, e), NEW t, MoreSent(t, responses, more)
    PROVE  Spans(t, open, a, e)
<1>1. PICK c : Cuts(c, responses, open, a, b)
  BY DEF Spans
<1>2. PICK n \in Nat : n = Len(responses) /\ n > 0
  BY SeqIs
<1>3. PICK g : g = [i \in 0..n |-> IF i = n THEN e ELSE c[i]]
  OBVIOUS
<1>4. e \in Nat /\ c \in [0..n -> Nat] /\ c[0] = a /\ c[n] = b
  BY <1>1, <1>2 DEF Cuts, Walks
<1>5. g[n] = e /\ \A i \in 0..(n - 1) : g[i] = c[i]
  BY <1>3
<1>6. g \in [0..n -> Nat]
  BY <1>3, <1>4
<1>7. PICK q, r : q = responses[n] /\ r = t[n]
  OBVIOUS
<1>8. /\ Len(t) = n /\ \A i \in 1..n : i # n => t[i] = responses[i]
      /\ r.sent = q.sent \o more /\ r.run = q.run
  BY <1>2, <1>7 DEF MoreSent
<1>9. PICK k : k = c[n - 1]
  OBVIOUS
<1>10. Visits(q, open, k, b)
  BY <1>1, <1>2, <1>4, <1>7, <1>9 DEF Cuts
<1>11. Visits(r, open, k, e)
  <2>1. PICK sent : sent = q.sent
    OBVIOUS
  <2>2. Walks(sent \o more, open, k + 1, e) /\ IsSeq(sent \o more)
    BY <1>10, <2>1, WalksJoin, JoinIs DEF Visits
  <2> QED BY <1>8, <1>10, <2>1, <2>2 DEF Visits
<1>12. ASSUME NEW i \in 1..n
       PROVE  Visits(t[i], open, g[i - 1], g[i])
  <2>1. i - 1 \in 0..(n - 1) /\ g[i - 1] = c[i - 1]
    BY <1>5
  <2>2. CASE i = n
    BY <1>5, <1>7, <1>9, <1>11, <2>1, <2>2
  <2>3. CASE i # n
    <3>1. i \in 0..(n - 1)
      BY <2>3
    <3> QED BY <1>1, <1>2, <1>5, <1>8, <2>1, <2>3, <3>1 DEF Cuts
  <2> QED BY <2>2, <2>3
<1>13. g[0] = a
  <2>1. 0 \in 0..(n - 1)
    BY <1>2
  <2> QED BY <1>4, <1>5, <2>1
<1>14. Cuts(g, t, open, a, e)
  BY <1>5, <1>6, <1>8, <1>12, <1>13 DEF Cuts
<1> QED BY <1>14 DEF Spans

\* Without the last response, of which there is none below.
LEMMA SpansFront ==
    ASSUME NEW responses, IsSeq(responses), NEW n \in Nat, n = Len(responses), n > 0,
           responses[n].sent = <<>>, NEW open, NEW a, NEW b, Spans(responses, open, a, b)
    PROVE  b > 0 /\ Spans(Front(responses), open, a, b - 1)
<1>1. PICK c : Cuts(c, responses, open, a, b)
  BY DEF Spans
<1>2. PICK t : t = Front(responses)
  OBVIOUS
<1>3. Len(t) = n - 1 /\ \A i \in 1..(n - 1) : t[i] = responses[i]
  BY <1>2, FrontIs
<1>4. c \in [0..n -> Nat] /\ c[0] = a /\ c[n] = b
  BY <1>1 DEF Cuts
<1>5. b = c[n - 1] + 1 /\ c[n - 1] \in Nat
  <2>1. Visits(responses[n], open, c[n - 1], c[n])
    BY <1>1 DEF Cuts
  <2>2. c[n - 1] \in Nat /\ Walks(<<>>, open, c[n - 1] + 1, c[n])
    BY <2>1 DEF Visits
  <2> QED BY <1>4, <2>2, WalksNowhere
<1>6. PICK g : g = [i \in 0..(n - 1) |-> c[i]]
  OBVIOUS
<1>7. g \in [0..(n - 1) -> Nat] /\ \A i \in 0..(n - 1) : g[i] = c[i]
  BY <1>4, <1>6
<1>8. g[0] = a /\ g[n - 1] = b - 1
  <2>1. 0 \in 0..(n - 1) /\ n - 1 \in 0..(n - 1)
    OBVIOUS
  <2> QED BY <1>4, <1>5, <1>7, <2>1
<1>9. ASSUME NEW i \in 1..(n - 1)
      PROVE  Visits(t[i], open, g[i - 1], g[i])
  <2>1. i - 1 \in 0..(n - 1) /\ i \in 0..(n - 1) /\ i \in 1..n
    OBVIOUS
  <2> QED BY <1>1, <1>3, <1>7, <2>1 DEF Cuts
<1>10. Cuts(g, t, open, a, b - 1)
  BY <1>3, <1>7, <1>8, <1>9 DEF Cuts
<1> QED BY <1>2, <1>5, <1>10 DEF Spans

\* No response has others below it.
LEMMA SpansFlat ==
    ASSUME NEW responses, NEW n \in Nat, n = Len(responses),
           \A i \in 1..n : responses[i].sent = <<>>,
           NEW open, NEW a, NEW b, Spans(responses, open, a, b)
    PROVE  b = a + n
<1>1. PICK c : Cuts(c, responses, open, a, b)
  BY DEF Spans
<1>2. c \in [0..n -> Nat] /\ c[0] = a /\ c[n] = b
  BY <1>1 DEF Cuts
<1> DEFINE G == {k \in 0..n : c[k] = a + k}
<1>3. 0 \in G
  BY <1>2
<1>4. ASSUME NEW k \in 1..n, k > 0, k - 1 \in G
      PROVE  k \in G
  <2>1. Visits(responses[k], open, c[k - 1], c[k])
    BY <1>1 DEF Cuts
  <2>2. c[k - 1] \in Nat /\ Walks(<<>>, open, c[k - 1] + 1, c[k])
    BY <2>1 DEF Visits
  <2>3. c[k] = c[k - 1] + 1
    BY <2>2, WalksNowhere
  <2>4. c[k - 1] = a + (k - 1) /\ a \in Nat
    BY <1>2, <1>4
  <2>5. c[k] = a + k
    BY <2>3, <2>4
  <2> QED BY <2>5
<1> HIDE DEF G
<1>5. n \in G
  <2>1. 0 \in 0..n
    OBVIOUS
  <2>2. \A k \in 0..n : k \in G
    BY <1>3, <1>4, <2>1, StepByStep
  <2> QED BY <2>2
<1> QED BY <1>2, <1>5 DEF G
-----------------------------------------------------------------------------
(* The responses of all levels.                                            *)
Bounds(d, levels, open) ==
    /\ d \in [0..Len(levels) -> Nat]
    /\ d[0] = 0 /\ d[Len(levels)] = Len(open)
    /\ \A m \in 1..Len(levels) : Spans(levels[m].responses, open, d[m - 1], d[m])

\* The responses of the levels are those of the open scopes, in their order.
Spanned(levels, open) == \E d : Bounds(d, levels, open)

LEMMA BoundsGrow ==
    ASSUME NEW levels, Counted(levels), NEW n \in Nat, n = Len(levels), NEW open,
           NEW d, Bounds(d, levels, open)
    PROVE  \A m \in 0..n : d[m] <= Len(open)
<1> SUFFICES ASSUME NEW m \in 0..n
             PROVE  d[m] <= d[n]
  BY DEF Bounds
<1>1. \A k \in 0..n : d[k] \in Nat
  BY DEF Bounds
<1> DEFINE G == {k \in 0..n : d[m] <= d[k]}
<1>2. m \in G
  BY <1>1
<1>3. ASSUME NEW k \in 1..n, k > m, k - 1 \in G
      PROVE  k \in G
  <2>1. IsSeq(levels[k].responses) /\ Spans(levels[k].responses, open, d[k - 1], d[k])
    BY DEF Bounds, Counted
  <2>2. d[k - 1] <= d[k] /\ d[k - 1] \in Nat /\ d[k] \in Nat
    BY <2>1, SpansEnds
  <2>3. d[m] <= d[k - 1] /\ d[m] \in Nat
    BY <1>1, <1>3
  <2>4. d[m] <= d[k]
    BY <2>2, <2>3
  <2> QED BY <2>4
<1> HIDE DEF G
<1>4. \A k \in m..n : k \in G
  BY <1>2, <1>3, StepByStep
<1>5. n \in G
  <2>1. n \in m..n
    OBVIOUS
  <2> QED BY <1>4, <2>1
<1> QED BY <1>5 DEF G

LEMMA SpannedSame ==
    ASSUME NEW levels, NEW t, Len(t) = Len(levels),
           \A m \in 1..Len(levels) : t[m].responses = levels[m].responses,
           NEW open, Spanned(levels, open)
    PROVE  Spanned(t, open)
<1>1. PICK d : Bounds(d, levels, open)
  BY DEF Spanned
<1>2. Bounds(d, t, open)
  BY <1>1 DEF Bounds
<1> QED BY <1>2 DEF Spanned

LEMMA SpannedMoved ==
    ASSUME NEW levels, NEW n \in Nat, n = Len(levels), NEW t, TopMoved(t, levels, n),
           NEW open, Spanned(levels, open)
    PROVE  Spanned(t, open)
<1>1. Len(t) = Len(levels)
      /\ \A m \in 1..Len(levels) : t[m].responses = levels[m].responses
  BY DEF TopMoved, SameResults
<1> QED BY <1>1, SpannedSame

LEMMA SpannedSquashed ==
    ASSUME NEW levels, Counted(levels), NEW n \in Nat, n = Len(levels), n > 1,
           Len(levels[n - 1].responses) > 0, NEW t, SquashedInto(t, levels, n),
           NEW open, Spanned(levels, open)
    PROVE  Spanned(t, open)
<1>1. PICK d : Bounds(d, levels, open)
  BY DEF Spanned
<1>2. d \in [0..n -> Nat] /\ d[0] = 0 /\ d[n] = Len(open)
  BY <1>1 DEF Bounds
<1>3. PICK g : g = [m \in 0..(n - 1) |-> IF m = n - 1 THEN d[n] ELSE d[m]]
  OBVIOUS
<1>4. /\ g \in [0..(n - 1) -> Nat] /\ g[n - 1] = Len(open)
      /\ \A m \in 0..(n - 2) : g[m] = d[m]
  BY <1>2, <1>3
<1>5. g[0] = 0
  <2>1. 0 \in 0..(n - 2)
    OBVIOUS
  <2> QED BY <1>2, <1>4, <2>1
<1>6. Len(t) = n - 1 /\ \A m \in 1..(n - 1) : m # n - 1 => t[m] = levels[m]
  BY DEF SquashedInto
<1>7. PICK told, more, now : /\ told = levels[n - 1].responses /\ more = levels[n].responses
                             /\ now = t[n - 1].responses
  OBVIOUS
<1>8. /\ IsSeq(told) /\ IsSeq(more) /\ Len(told) > 0 /\ MoreSent(now, told, more)
      /\ Spans(told, open, d[n - 2], d[n - 1]) /\ Spans(more, open, d[n - 1], d[n])
  <2>1. n - 1 \in 1..n /\ n \in 1..n /\ (n - 1) - 1 = n - 2
    OBVIOUS
  <2>2. IsSeq(told) /\ IsSeq(more)
    BY <1>7, <2>1 DEF Counted
  <2>3. Spans(told, open, d[n - 2], d[n - 1]) /\ Spans(more, open, d[n - 1], d[n])
    BY <1>1, <1>7, <2>1 DEF Bounds
  <2> QED BY <1>7, <2>2, <2>3 DEF SquashedInto
<1>9. Spans(now, open, d[n - 2], d[n])
  <2>1. Walks(more, open, d[n - 1], d[n])
    BY <1>8, SpansWalk
  <2> QED BY <1>8, <2>1, SpansMore
<1>10. ASSUME NEW m \in 1..(n - 1)
       PROVE  Spans(t[m].responses, open, g[m - 1], g[m])
  <2>1. m - 1 \in 0..(n - 2) /\ g[m - 1] = d[m - 1]
    BY <1>4
  <2>2. CASE m = n - 1
    <3>1. m - 1 = n - 2
      BY <2>2
    <3> QED BY <1>2, <1>4, <1>7, <1>9, <2>1, <2>2, <3>1
  <2>3. CASE m # n - 1
    <3>1. m \in 0..(n - 2) /\ m \in 1..n
      BY <2>3
    <3> QED BY <1>1, <1>4, <1>6, <2>1, <2>3, <3>1 DEF Bounds
  <2> QED BY <2>2, <2>3
<1>11. Bounds(g, t, open)
  BY <1>4, <1>5, <1>6, <1>10 DEF Bounds
<1> QED BY <1>11 DEF Spanned

LEMMA SpannedAnswered ==
    ASSUME NEW levels, Counted(levels), NEW n \in Nat, n = Len(levels), n > 0,
           NEW run, NEW t, AnsweredTo(t, levels, n, run), NEW open, IsSeq(open),
           NEW more, more = Append(open, run), Spanned(levels, open)
    PROVE  Spanned(t, more)
<1>1. PICK d : Bounds(d, levels, open)
  BY DEF Spanned
<1>2. PICK size \in Nat : size = Len(open)
  BY SeqIs
<1>3. d \in [0..n -> Nat] /\ d[0] = 0 /\ d[n] = size
  BY <1>1, <1>2 DEF Bounds
<1>4. Len(more) = size + 1 /\ more[size + 1] = run /\ \A p \in 1..size : more[p] = open[p]
  <2>1. Appended(more, open, run)
    BY AppendIs, Zenon
  <2> QED BY <1>2, <2>1 DEF Appended
<1>5. PICK g : g = [m \in 0..n |-> IF m = n THEN size + 1 ELSE d[m]]
  OBVIOUS
<1>6. /\ g \in [0..n -> Nat] /\ g[n] = size + 1
      /\ \A m \in 0..(n - 1) : g[m] = d[m]
  BY <1>3, <1>5
<1>7. g[0] = 0
  <2>1. 0 \in 0..(n - 1)
    OBVIOUS
  <2> QED BY <1>3, <1>6, <2>1
<1>8. ASSUME NEW m \in 1..n
      PROVE  IsSeq(levels[m].responses) /\ Spans(levels[m].responses, more, d[m - 1], d[m])
  <2>1. PICK told, a, b : told = levels[m].responses /\ a = d[m - 1] /\ b = d[m]
    OBVIOUS
  <2>2. IsSeq(told) /\ Spans(told, open, a, b)
    BY <1>1, <2>1 DEF Bounds, Counted
  <2>3. b \in Nat /\ b <= size
    BY <1>1, <1>2, <1>3, <2>1, BoundsGrow
  <2>4. \A p \in 1..b : more[p] = open[p]
    BY <1>4, <2>3
  <2>5. Spans(told, more, a, b)
    BY <2>2, <2>4, SpansSame
  <2> QED BY <2>1, <2>2, <2>5
<1>9. Spans(t[n].responses, more, d[n - 1], size + 1)
  <2>1. PICK address : Appended(t[n].responses, levels[n].responses, Response(run, address))
    BY DEF AnsweredTo
  <2>2. PICK response : response = Response(run, address)
    OBVIOUS
  <2>3. response.run = run /\ response.sent = <<>>
    BY <2>2 DEF Response
  <2>4. Walks(response.sent, more, size + 1, size + 1)
    BY <2>3, EmptyWalks
  <2>5. Visits(response, more, size, size + 1)
    BY <1>4, <2>3, <2>4, EmptyIs DEF Visits
  <2>6. PICK told, now : told = levels[n].responses /\ now = t[n].responses
    OBVIOUS
  <2>7. IsSeq(told) /\ Spans(told, more, d[n - 1], size) /\ Appended(now, told, response)
    BY <1>3, <1>8, <2>1, <2>2, <2>6
  <2> QED BY <2>5, <2>6, <2>7, SpansAppended
<1>10. ASSUME NEW m \in 1..n
       PROVE  Spans(t[m].responses, more, g[m - 1], g[m])
  <2>1. m - 1 \in 0..(n - 1) /\ g[m - 1] = d[m - 1]
    BY <1>6
  <2>2. CASE m = n
    BY <1>6, <1>9, <2>1, <2>2
  <2>3. CASE m # n
    <3>1. m \in 0..(n - 1)
      BY <2>3
    <3> QED BY <1>6, <1>8, <2>1, <2>3, <3>1 DEF AnsweredTo
  <2> QED BY <2>2, <2>3
<1>11. Bounds(g, t, more)
  BY <1>4, <1>6, <1>7, <1>10 DEF Bounds, AnsweredTo
<1> QED BY <1>11 DEF Spanned

LEMMA SpannedPushed ==
    ASSUME NEW levels, IsSeq(levels), NEW v, v.responses = <<>>, NEW t, Appended(t, levels, v),
           NEW open, Spanned(levels, open)
    PROVE  Spanned(t, open)
<1>1. PICK d : Bounds(d, levels, open)
  BY DEF Spanned
<1>2. PICK n \in Nat : n = Len(levels)
  BY SeqIs
<1>3. PICK size \in Nat : size = Len(open)
  <2>1. n \in 0..n
    OBVIOUS
  <2> QED BY <1>1, <1>2, <2>1 DEF Bounds
<1>4. d \in [0..n -> Nat] /\ d[0] = 0 /\ d[n] = size
  BY <1>1, <1>2, <1>3 DEF Bounds
<1>5. PICK g : g = [m \in 0..(n + 1) |-> IF m = n + 1 THEN size ELSE d[m]]
  OBVIOUS
<1>6. /\ g \in [0..(n + 1) -> Nat] /\ g[n + 1] = size
      /\ \A m \in 0..n : g[m] = d[m]
  BY <1>4, <1>5
<1>7. g[0] = 0
  <2>1. 0 \in 0..n
    OBVIOUS
  <2> QED BY <1>4, <1>6, <2>1
<1>8. Len(t) = n + 1 /\ t[n + 1] = v /\ \A m \in 1..n : t[m] = levels[m]
  BY <1>2 DEF Appended
<1>9. Spans(<<>>, open, size, size)
  <2>1. PICK c : c = [i \in 0..0 |-> size]
    OBVIOUS
  <2>2. c \in [0..0 -> Nat] /\ c[0] = size /\ Len(<<>>) = 0
    BY <2>1
  <2>3. Cuts(c, <<>>, open, size, size)
    BY <2>2 DEF Cuts
  <2> QED BY <2>3 DEF Spans
<1>10. ASSUME NEW m \in 1..(n + 1)
       PROVE  Spans(t[m].responses, open, g[m - 1], g[m])
  <2>1. m - 1 \in 0..n /\ g[m - 1] = d[m - 1]
    BY <1>6
  <2>2. CASE m = n + 1
    <3>1. m - 1 = n
      BY <2>2
    <3> QED BY <1>4, <1>6, <1>8, <1>9, <2>1, <2>2, <3>1
  <2>3. CASE m # n + 1
    <3>1. m \in 0..n /\ m \in 1..n
      BY <2>3
    <3> QED BY <1>1, <1>2, <1>6, <1>8, <2>1, <3>1 DEF Bounds
  <2> QED BY <2>2, <2>3
<1>11. Bounds(g, t, open)
  BY <1>3, <1>6, <1>7, <1>8, <1>10 DEF Bounds
<1> QED BY <1>11 DEF Spanned

\* The responses of flat levels end as many scopes on.
LEMMA BoundsFlat ==
    ASSUME NEW levels, Counted(levels), NEW n \in Nat, n = Len(levels), NEW open,
           NEW d, Bounds(d, levels, open), NEW k \in 1..n, FlatAbove(levels, k)
    PROVE  /\ d[n] \in Nat /\ d[k] \in Nat /\ Upto(levels, n) \in Nat /\ Upto(levels, k) \in Nat
           /\ d[n] - d[k] = Upto(levels, n) - Upto(levels, k)
<1>1. \A m \in 0..n : d[m] \in Nat
  BY DEF Bounds
<1>2. \A m \in 1..n : Upto(levels, m) \in Nat
  BY UptoIs
<1> DEFINE G == {m \in 1..n : d[m] - d[k] = Upto(levels, m) - Upto(levels, k)}
<1>3. k \in G
  <2>1. d[k] \in Nat /\ Upto(levels, k) \in Nat
    BY <1>1, <1>2
  <2>2. d[k] - d[k] = Upto(levels, k) - Upto(levels, k)
    BY <2>1
  <2> QED BY <2>2
<1>4. ASSUME NEW m \in 1..n, m > k, m - 1 \in G
      PROVE  m \in G
  <2>1. PICK told : told = levels[m].responses
    OBVIOUS
  <2>2. IsSeq(told) /\ Spans(told, open, d[m - 1], d[m])
        /\ \A i \in 1..Len(told) : told[i].sent = <<>>
    BY <1>4, <2>1 DEF Bounds, Counted, FlatAbove, Flat
  <2>3. PICK size \in Nat : size = Len(told)
    BY <2>2, SeqIs
  <2>4. d[m] = d[m - 1] + size
    BY <2>2, <2>3, SpansFlat
  <2>5. m \in 1..Len(levels)
    OBVIOUS
  <2>6. Upto(levels, m) = Upto(levels, m - 1) + size
    BY <2>1, <2>3, <2>5, UptoIs
  <2>7. d[m - 1] \in Nat /\ Upto(levels, m - 1) \in Nat /\ d[k] \in Nat
        /\ Upto(levels, k) \in Nat
    BY <1>1, <1>2, <1>4
  <2>8. d[m - 1] - d[k] = Upto(levels, m - 1) - Upto(levels, k)
    BY <1>4
  <2>9. d[m] - d[k] = Upto(levels, m) - Upto(levels, k)
    BY <2>4, <2>6, <2>7, <2>8, SMTT(20)
  <2> QED BY <2>9
<1> HIDE DEF G
<1>5. n \in G
  <2>1. k \in 0..n /\ n \in k..n
    OBVIOUS
  <2>2. \A m \in k..n : m \in G
    BY <1>3, <1>4, <2>1, StepByStep
  <2> QED BY <2>1, <2>2
<1> QED BY <1>1, <1>2, <1>5 DEF G

LEMMA SpannedCaught ==
    ASSUME NEW levels, Counted(levels), NEW n \in Nat, n = Len(levels),
           NEW t, NEW k \in 1..n, Caught(t, levels, n, k),
           k < n => /\ FlatAbove(levels, k) /\ LastFlat(levels[k])
                    /\ Len(levels[k].responses) > 0,
           NEW open, Spanned(levels, open), NEW less,
           Len(less) = Len(open) - (Upto(levels, n) - Upto(levels, k)
                                      + (IF k = n THEN 0 ELSE 1)),
           \A p \in 1..Len(less) : less[p] = open[p]
    PROVE  Spanned(t, less)
<1>1. PICK d : Bounds(d, levels, open)
  BY DEF Spanned
<1>2. PICK told, now, a, b : /\ told = levels[k].responses /\ now = t[k].responses
                             /\ a = d[k - 1] /\ b = d[k]
  OBVIOUS
<1>3. IsSeq(told) /\ Spans(told, open, a, b) /\ b \in Nat /\ a \in Nat
  BY <1>1, <1>2 DEF Bounds, Counted
<1>4. PICK e : e = Len(less)
  OBVIOUS
<1>5. e \in Nat /\ Spans(now, open, a, e)
  <2>1. CASE k = n
    <3>1. Upto(levels, n) \in Nat
      BY <2>1, UptoIs
    <3>2. Len(open) = b /\ now = told
      BY <1>1, <1>2, <2>1 DEF Bounds, Caught
    <3>3. e = b
      BY <1>3, <1>4, <2>1, <3>1, <3>2
    <3> QED BY <1>3, <3>2, <3>3
  <2>2. CASE k # n
    <3>1. k < n /\ FlatAbove(levels, k) /\ LastFlat(levels[k])
      BY <2>2
    <3>2. PICK size \in Nat : size = Len(told) /\ size > 0
      BY <1>2, <1>3, <3>1, SeqIs
    <3>3. told[size].sent = <<>>
      BY <1>2, <3>1, <3>2 DEF LastFlat, Last
    <3>4. b > 0 /\ Spans(Front(told), open, a, b - 1)
      BY <1>3, <3>2, <3>3, SpansFront
    <3>5. now = Front(told)
      BY <1>2, <2>2 DEF Caught
    <3>6. /\ Upto(levels, n) \in Nat /\ Upto(levels, k) \in Nat /\ Len(open) \in Nat
          /\ Len(open) - b = Upto(levels, n) - Upto(levels, k)
      <4>1. d[n] = Len(open)
        BY <1>1 DEF Bounds
      <4> QED BY <1>1, <1>2, <3>1, <4>1, BoundsFlat
    <3>7. e = b - 1
      BY <1>3, <1>4, <2>2, <3>6
    <3> QED BY <1>3, <3>4, <3>5, <3>7
  <2> QED BY <2>1, <2>2
<1>6. PICK g : g = [m \in 0..k |-> IF m = k THEN e ELSE d[m]]
  OBVIOUS
<1>7. /\ g \in [0..k -> Nat] /\ g[k] = e
      /\ \A m \in 0..(k - 1) : g[m] = d[m]
  <2>1. \A m \in 0..n : d[m] \in Nat
    BY <1>1 DEF Bounds
  <2>2. \A m \in 0..k : (IF m = k THEN e ELSE d[m]) \in Nat
    BY <1>5, <2>1
  <2> QED BY <1>6, <2>2, SMTT(20)
<1>8. g[0] = 0
  <2>1. 0 \in 0..(k - 1)
    OBVIOUS
  <2> QED BY <1>1, <1>7, <2>1 DEF Bounds
<1>9. Len(t) = k /\ \A m \in 1..k : m # k => t[m] = levels[m]
  BY DEF Caught
<1>10. IsSeq(now)
  BY <1>2, <1>3, FrontIs DEF Caught
<1>11. ASSUME NEW m \in 1..k
       PROVE  IsSeq(t[m].responses) /\ Spans(t[m].responses, open, g[m - 1], g[m])
  <2>1. m - 1 \in 0..(k - 1) /\ g[m - 1] = d[m - 1]
    BY <1>7
  <2>2. CASE m = k
    BY <1>2, <1>5, <1>7, <1>10, <2>1, <2>2
  <2>3. CASE m # k
    <3>1. m \in 0..(k - 1) /\ m \in 1..n
      BY <2>3
    <3> QED BY <1>1, <1>7, <1>9, <2>1, <2>3, <3>1 DEF Bounds, Counted
  <2> QED BY <2>2, <2>3
<1>12. \A m \in 0..k : g[m] <= e
  <2> SUFFICES ASSUME NEW m \in 0..k
               PROVE  g[m] <= g[k]
    BY <1>7
  <2> DEFINE G == {j \in 0..k : g[m] <= g[j]}
  <2>1. m \in G
    BY <1>7
  <2>2. ASSUME NEW j \in 1..k, j > m, j - 1 \in G
        PROVE  j \in G
    <3>1. g[j - 1] <= g[j] /\ g[j - 1] \in Nat /\ g[j] \in Nat
      BY <1>11, SpansEnds
    <3>2. g[m] <= g[j - 1] /\ g[m] \in Nat
      BY <1>7, <2>2
    <3>3. g[m] <= g[j]
      BY <3>1, <3>2
    <3> QED BY <3>3
  <2> HIDE DEF G
  <2>3. \A j \in m..k : j \in G
    <3>1. k \in Nat
      OBVIOUS
    <3> QED BY <2>1, <2>2, <3>1, StepByStep
  <2>4. k \in G
    <3>1. k \in m..k
      OBVIOUS
    <3> QED BY <2>3, <3>1
  <2> QED BY <2>4 DEF G
<1>13. ASSUME NEW m \in 1..k
       PROVE  Spans(t[m].responses, less, g[m - 1], g[m])
  <2>1. PICK s, i, j : s = t[m].responses /\ i = g[m - 1] /\ j = g[m]
    OBVIOUS
  <2>2. IsSeq(s) /\ Spans(s, open, i, j) /\ j \in Nat /\ j <= e
    BY <1>7, <1>11, <1>12, <2>1
  <2>3. \A p \in 1..j : less[p] = open[p]
    BY <1>4, <1>5, <2>2
  <2> QED BY <2>1, <2>2, <2>3, SpansSame
<1>14. Bounds(g, t, less)
  BY <1>4, <1>7, <1>8, <1>9, <1>13 DEF Bounds
<1> QED BY <1>14 DEF Spanned
-----------------------------------------------------------------------------
(* The search after a success leaves the responses where they are.         *)
LEMMA SpannedDone ==
    ASSUME NEW search, Sound(search), ~search.over, Len(search.levels) > 0,
           NEW v, v = search.levels[Len(search.levels)], StateAt(v, v.index) = "Done",
           NEW open, Spanned(search.levels, open)
    PROVE  Spanned(AtDone(search).levels, open)
<1>1. PICK levels : levels = search.levels
  OBVIOUS
<1>2. PICK k \in Nat : k = Len(levels) /\ k > 0 /\ v = levels[k]
  BY <1>1, SeqIs DEF Sound, Stack
<1>3. Stack(levels) /\ StateAt(levels[k], levels[k].index) = "Done"
  BY <1>1, <1>2 DEF Sound
<1>4. PICK t : t = [levels EXCEPT ![k].index = @ + 1]
  OBVIOUS
<1>5. MovesOn(t, levels, k) /\ MovedPast(t, levels, k)
  BY <1>2, <1>3, <1>4, AdvanceIs, AdvanceResults
<1>6. AtDone(search) = IF t[k].index <= Len(t[k].msgs) THEN Resume(search, t)
                       ELSE IF k = 1 THEN Stop(search, t, Nothing)
                                     ELSE Resume(search, SquashLatest(t))
  BY <1>1, <1>2, <1>4 DEF AtDone
<1>7. TopMoved(t, levels, k) /\ Spanned(t, open)
  BY <1>1, <1>2, <1>5, SpannedMoved DEF MovedPast
<1>8. CASE k = 1
  <2>1. Resume(search, t).levels = t /\ Stop(search, t, Nothing).levels = t
    BY DEF Sound, Resume, Stop
  <2> QED BY <1>6, <1>7, <1>8, <2>1
<1>9. CASE k # 1
  <2>1. PICK s : s = SquashLatest(t)
    OBVIOUS
  <2>2. Resume(search, t).levels = t /\ Resume(search, s).levels = s
    BY DEF Sound, Resume
  <2>3. k > 1 /\ Orderly(t)
    BY <1>2, <1>5, <1>9 DEF MovesOn
  <2>4. SquashedInto(s, t, k)
    BY <1>2, <1>3, <1>7, <2>1, <2>3, SquashResults
  <2>5. Len(t[k - 1].responses) > 0
    <3>1. k - 1 \in 1..Len(levels) /\ k - 1 < Len(levels) /\ k - 1 # k /\ k - 1 \in 1..k
      BY <1>2, <2>3
    <3>2. Len(levels[k - 1].responses) > 0
      BY <1>3, <3>1 DEF Stack, Linked
    <3> QED BY <1>7, <3>1, <3>2 DEF TopMoved
  <2>6. Spanned(s, open)
    <3>1. Counted(t) /\ k = Len(t)
      BY <1>7 DEF TopMoved
    <3> QED BY <1>7, <2>3, <2>4, <2>5, <3>1, SpannedSquashed
  <2> QED BY <1>6, <1>7, <1>9, <2>1, <2>2, <2>6
<1> QED BY <1>8, <1>9

LEMMA SpannedShouldReply ==
    ASSUME NEW search, Sound(search), ~search.over, Len(search.levels) > 0,
           search.error = FALSE,
           NEW v, v = search.levels[Len(search.levels)], StateAt(v, v.index) = "ShouldReply",
           NEW open, Spanned(search.levels, open)
    PROVE  Spanned(AtShouldReply(search).levels, open)
<1>1. PICK levels : levels = search.levels
  OBVIOUS
<1>2. PICK k \in Nat : k = Len(levels) /\ k > 0
  BY <1>1, SeqIs DEF Sound, Stack
<1>3. Stack(levels)
  BY <1>1 DEF Sound
<1>4. PICK reply, t : /\ reply = FindReply(levels, search.error)
                      /\ t = SetState(levels, "Replying")
  OBVIOUS
<1>5. Spanned(t, open)
  <2>1. "Replying" \in MsgStates /\ "Replying" # "NotExecuted"
    BY DEF MsgStates
  <2>2. Changed(t, levels, k, "Replying")
    BY <1>2, <1>3, <1>4, <2>1, SetStateResults
  <2> QED BY <1>1, <1>2, <2>2, SpannedMoved DEF Changed
<1>6. \E x : AtShouldReply(search) = [Stop(search, t, reply) EXCEPT !.thrown = x]
  <2>1. PICK found : found = Stop(search, t, reply)
    OBVIOUS
  <2>2. AtShouldReply(search) = [found EXCEPT !.thrown = @ + 0]
    BY <1>1, <1>4, <2>1 DEF AtShouldReply
  <2>3. PICK x : x = found.thrown + 0
    OBVIOUS
  <2>4. [found EXCEPT !.thrown = @ + 0] = [found EXCEPT !.thrown = x]
    BY <2>3
  <2> QED BY <2>1, <2>2, <2>4
<1>7. ASSUME NEW x
      PROVE  [Stop(search, t, reply) EXCEPT !.thrown = x].levels = t
  <2>1. PICK found : found = Stop(search, t, reply)
    OBVIOUS
  <2>2. found.levels = t /\ DOMAIN found = DOMAIN search
    BY <2>1 DEF Sound, Stop
  <2>3. [found EXCEPT !.thrown = x].levels = t
    BY <2>2 DEF Sound
  <2> QED BY <2>1, <2>3
<1> QED BY <1>5, <1>6, <1>7

LEMMA SpannedTurn ==
    ASSUME NEW search, Sound(search), ~search.over, Len(search.levels) > 0,
           search.error = FALSE, NEW open, Spanned(search.levels, open)
    PROVE  Spanned(Turn(search).levels, open)
<1>1. PICK levels, at : levels = search.levels /\ at = Current(Last(levels)).state
  OBVIOUS
<1>2. PICK v : v = levels[Len(levels)]
  OBVIOUS
<1>3. PICK k \in Nat : k = Len(levels) /\ k > 0 /\ v = levels[k] /\ Stack(levels)
  BY <1>1, <1>2, SeqIs DEF Sound, Stack
<1>4. at = StateAt(v, v.index) /\ at \in MsgStates
  <2>1. Underway(v)
    BY <1>3 DEF Stack
  <2> QED BY <1>1, <1>2, <2>1 DEF Current, Last, StateAt, Underway, IsLevel
<1>5. levels # <<>>
  BY <1>1, <1>3, EmptyIs DEF Sound
<1>6. Turn(search) = CASE at = "NotExecuted" -> AtNotExecuted(search)
                       [] at = "ShouldReply" -> AtShouldReply(search)
                       [] at \in {"Done", "Replying"} /\ search.error -> Unwind(search)
                       [] at = "Done" /\ ~search.error -> AtDone(search)
                       [] at = "Replying" /\ ~search.error ->
                            Resume(search, SetState(levels, "Done"))
  BY <1>1, <1>5 DEF Turn
<1>7. ASSUME NEW s \in MsgStates, s # "NotExecuted"
      PROVE  Spanned(SetState(levels, s), open)
  <2>1. Changed(SetState(levels, s), levels, k, s)
    BY <1>3, <1>7, SetStateResults
  <2> QED BY <1>1, <1>3, <2>1, SpannedMoved DEF Changed
<1>8. CASE at = "NotExecuted"
  <2>1. PICK msg, s : /\ msg = Current(Last(levels))
                      /\ s = IF msg.reply_on = "never" THEN "Done" ELSE "ShouldReply"
    OBVIOUS
  <2>2. PICK t, found : /\ t = SetState(levels, s)
                        /\ found = [type |-> "msg", to |-> msg.to, sender |-> Caller(levels)]
    OBVIOUS
  <2>3. AtNotExecuted(search) = Stop(search, t, found)
    BY <1>1, <2>1, <2>2 DEF AtNotExecuted
  <2>4. Stop(search, t, found).levels = t
    BY DEF Sound, Stop
  <2>5. Spanned(t, open)
    BY <1>7, <2>1, <2>2 DEF MsgStates
  <2> QED BY <1>6, <1>8, <2>3, <2>4, <2>5
<1>9. CASE at = "ShouldReply"
  BY <1>1, <1>2, <1>4, <1>6, <1>9, SpannedShouldReply
<1>10. CASE at = "Done"
  BY <1>1, <1>2, <1>4, <1>6, <1>10, SpannedDone
<1>11. CASE at = "Replying"
  <2>1. PICK t : t = SetState(levels, "Done")
    OBVIOUS
  <2>2. Turn(search) = Resume(search, t)
    BY <1>6, <1>11, <2>1
  <2>3. Resume(search, t).levels = t
    BY DEF Sound, Resume
  <2>4. Spanned(t, open)
    BY <1>7, <2>1 DEF MsgStates
  <2> QED BY <2>2, <2>3, <2>4
<1> QED BY <1>4, <1>8, <1>9, <1>10, <1>11 DEF MsgStates

\* The error of a search stays what it was told.
LEMMA TurnError ==
    ASSUME NEW search, Sound(search), ~search.over, Len(search.levels) > 0
    PROVE  Turn(search).error = search.error
<1>1. \A levels, found : /\ Resume(search, levels).error = search.error
                         /\ Stop(search, levels, found).error = search.error
  BY DEF Sound, Resume, Stop
<1>2. ASSUME NEW levels, NEW found, NEW x
      PROVE  [Stop(search, levels, found) EXCEPT !.thrown = x].error = search.error
  <2>1. PICK s : s = Stop(search, levels, found)
    OBVIOUS
  <2>2. s.error = search.error /\ DOMAIN s = DOMAIN search
    BY <2>1 DEF Sound, Stop
  <2>3. [s EXCEPT !.thrown = x].error = search.error
    BY <2>2 DEF Sound
  <2> QED BY <2>1, <2>3
<1>3. Unwind(search).error = search.error
  BY DEF Sound, Unwind
<1>4. AtNotExecuted(search).error = search.error
  BY <1>1 DEF AtNotExecuted
<1>5. AtDone(search).error = search.error
  BY <1>1 DEF AtDone
<1>6. AtShouldReply(search).error = search.error
  BY <1>2, <1>3 DEF AtShouldReply
<1>7. PICK levels, at : levels = search.levels /\ at = Current(Last(levels)).state
  OBVIOUS
<1>8. at \in MsgStates
  <2>1. Underway(levels[Len(levels)])
    BY <1>7, SeqIs DEF Sound, Stack
  <2> QED BY <1>7, <2>1 DEF Current, Last, Underway, IsLevel
<1>9. levels # <<>> /\ search.error \in BOOLEAN
  BY <1>7, EmptyIs DEF Sound
<1>10. Turn(search) = CASE at = "NotExecuted" -> AtNotExecuted(search)
                       [] at = "ShouldReply" -> AtShouldReply(search)
                       [] at \in {"Done", "Replying"} /\ search.error -> Unwind(search)
                       [] at = "Done" /\ ~search.error -> AtDone(search)
                       [] at = "Replying" /\ ~search.error ->
                            Resume(search, SetState(levels, "Done"))
  BY <1>7, <1>9 DEF Turn
<1>11. Turn(search) \in {AtNotExecuted(search), AtShouldReply(search), Unwind(search),
                         AtDone(search), Resume(search, SetState(levels, "Done"))}
  BY <1>8, <1>9, <1>10 DEF MsgStates
<1> QED BY <1>1, <1>3, <1>4, <1>5, <1>6, <1>11

LEMMA SearchSpanned ==
    ASSUME NEW levels, Stack(levels), NEW error \in BOOLEAN, error = FALSE,
           NEW open, Spanned(levels, open)
    PROVE  Spanned(FindNext(levels, error).levels, open)
<1>1. PICK last \in Nat : last = Turns(levels)
  BY SeqIs DEF Turns, Stack
<1>2. PICK turn : /\ IsLoop(last, levels, error, turn)
                  /\ FindNext(levels, error) = turn[last]
  <2>1. PICK f : f = (CHOOSE turn : IsLoop(last, levels, error, turn))
    OBVIOUS
  <2>2. IsLoop(last, levels, error, f)
    BY <2>1, LoopExists
  <2>3. FindNext(levels, error) = f[last]
    BY <1>1, <2>1, LoopIsChosen
  <2> QED BY <2>2, <2>3
<1> DEFINE G == {k \in 0..last : /\ Sound(turn[k]) /\ turn[k].error = error
                                 /\ Spanned(turn[k].levels, open)}
<1>3. 0 \in G
  <2>1. PICK s : s = Search(levels, error)
    OBVIOUS
  <2>2. turn[0] = s
    BY <1>2, <2>1 DEF IsLoop
  <2>3. /\ DOMAIN s = {"levels", "error", "start", "next", "thrown", "over"}
        /\ s.levels = levels /\ s.error = error /\ s.over = FALSE /\ s.next = Nothing
    BY <2>1 DEF Search
  <2>4. Sound(s)
    BY <2>3, StackIsOrderly DEF Sound
  <2> QED BY <2>2, <2>3, <2>4
<1>4. ASSUME NEW i \in 1..last, i > 0, i - 1 \in G
      PROVE  i \in G
  <2>1. PICK s, t : s = turn[i - 1] /\ t = turn[i]
    OBVIOUS
  <2>2. Sound(s) /\ s.error = error /\ Spanned(s.levels, open)
    BY <1>4, <2>1
  <2> SUFFICES Sound(t) /\ t.error = error /\ Spanned(t.levels, open)
    BY <2>1
  <2>3. t = Turn(s)
    <3>1. turn[i] = IF i = 0 THEN Search(levels, error) ELSE Turn(turn[i - 1])
      BY <1>2 DEF IsLoop
    <3> QED BY <1>4, <2>1, <3>1
  <2>4. CASE s.over
    BY <2>2, <2>3, <2>4 DEF Turn
  <2>5. CASE ~s.over /\ Len(s.levels) > 0
    BY <2>2, <2>3, <2>5, TurnIs, TurnError, SpannedTurn DEF Progress
  <2>6. CASE ~s.over /\ ~(Len(s.levels) > 0)
    <3>1. s.levels = <<>>
      BY <2>2, <2>6, NonEmpty DEF Sound, Stack
    <3> QED BY <2>2, <2>3, <3>1 DEF Turn
  <2> QED BY <2>4, <2>5, <2>6
<1> HIDE DEF G
<1>5. 0 \in 0..last
  OBVIOUS
<1>6. last \in G
  <2>1. \A i \in 0..last : i \in G
    BY <1>3, <1>4, <1>5, StepByStep
  <2> QED BY <2>1
<1> QED BY <1>2, <1>6 DEF G
-----------------------------------------------------------------------------
LEMMA SpansEmpty ==
    ASSUME NEW open, NEW a \in Nat
    PROVE  Spans(<<>>, open, a, a)
<1>1. PICK c : c = [i \in 0..0 |-> a]
  OBVIOUS
<1>2. c \in [0..0 -> Nat] /\ c[0] = a /\ Len(<<>>) = 0
  BY <1>1
<1>3. Cuts(c, <<>>, open, a, a)
  BY <1>2 DEF Cuts
<1> QED BY <1>3 DEF Spans

\* Nothing has run: there is no level, or one without a response.
LEMMA SpannedNothing ==
    ASSUME NEW t, Len(t) \in {0, 1}, Len(t) = 1 => t[1].responses = <<>>
    PROVE  Spanned(t, <<>>)
<1>1. PICK n \in Nat : n = Len(t)
  OBVIOUS
<1>2. PICK d : d = [m \in 0..n |-> 0]
  OBVIOUS
<1>3. d \in [0..n -> Nat] /\ d[0] = 0 /\ d[n] = 0 /\ Len(<<>>) = 0
  BY <1>1, <1>2
<1>4. ASSUME NEW m \in 1..n
      PROVE  Spans(t[m].responses, <<>>, d[m - 1], d[m])
  <2>1. m = 1 /\ t[m].responses = <<>> /\ d[m - 1] = 0 /\ d[m] = 0
    BY <1>1, <1>2
  <2>2. 0 \in Nat
    OBVIOUS
  <2>3. Spans(<<>>, <<>>, 0, 0)
    BY <2>2, SpansEmpty
  <2> QED BY <2>1, <2>3
<1>5. Bounds(d, t, <<>>)
  BY <1>1, <1>3, <1>4 DEF Bounds
<1> QED BY <1>5 DEF Spanned

\* The responses that are kept.
ResponsesInv ==
    /\ runs \in Nat /\ IsSeq(open_scopes) /\ Len(open_scopes) <= runs
    /\ outcome \in {"running", "committed"} => Spanned(states, open_scopes)

LEMMA InitResponses == MessagesInit => ResponsesInv
<1> SUFFICES ASSUME MessagesInit
             PROVE  ResponsesInv
  OBVIOUS
<1>1. states = <<>> /\ open_scopes = <<>> /\ runs = 0
  BY DEF MessagesInit
<1>2. Spanned(<<>>, <<>>)
  BY EmptyIs, SpannedNothing
<1> QED BY <1>1, <1>2, EmptyIs DEF ResponsesInv

LEMMA NewResponses ==
    ASSUME NEW c, NewExecution(c)
    PROVE  ResponsesInv'
<1>1. PICK msgs : msgs = <<[to |-> c, reply_on |-> "never"]>>
  OBVIOUS
<1>2. PICK v, w : v = Level(User, msgs) /\ w = WithState(v, "Done")
  OBVIOUS
<1>3. Underway(v) /\ v.responses = <<>>
  <2>1. msgs \in Seq({msgs[1]}) /\ Len(msgs) = 1
    BY <1>1
  <2>2. IsSeq(msgs) /\ Len(msgs) > 0
    BY <2>1 DEF IsSeq
  <2> QED BY <1>2, <2>2, LevelIs, LevelResults
<1>4. w.responses = <<>>
  <2>1. "Done" \in MsgStates
    BY DEF MsgStates
  <2> QED BY <1>2, <1>3, <2>1, WithStateIs
<1>5. PICK levels : levels = <<v>>
  OBVIOUS
<1>6. Len(levels) = 1 /\ levels[1] = v
  BY <1>5
<1>7. SetState(levels, "Done") = [levels EXCEPT ![1] = w]
  BY <1>2, <1>6, SetStateIs
<1>8. Len([levels EXCEPT ![1] = w]) = 1 /\ [levels EXCEPT ![1] = w][1] = w
  BY <1>5
<1>9. states' = SetState(levels, "Done") /\ open_scopes' = <<>> /\ runs' = 0
  BY <1>1, <1>2, <1>5 DEF NewExecution
<1>10. Spanned(states', <<>>)
  <2>1. PICK t : t = states'
    OBVIOUS
  <2>2. Len(t) = 1 /\ t[1].responses = <<>>
    BY <1>4, <1>7, <1>8, <1>9, <2>1
  <2> QED BY <2>1, <2>2, SpannedNothing
<1> QED BY <1>9, <1>10, EmptyIs DEF ResponsesInv

LEMMA SpannedResponded ==
    ASSUME NEW n \in Nat, n = Len(states), Stack(states), Asks(states, next),
           IsSeq(open_scopes), Spanned(states, open_scopes),
           NEW data, NEW msgs \in BoundedSeq(Messages, MaxMsgs)
    PROVE  Spanned(Respond(data, msgs), ScopePushed)
<1>1. n > 0 /\ Started(states[n])
  BY DEF Asks
<1>2. PICK kept, t : kept = KeepData(data) /\ t = Answered(kept, runs + 1, Runner)
  OBVIOUS
<1>3. OtherData(kept, states, n)
  BY <1>2, KeepDataIs
<1>4. Stack(t) /\ AnsweredTo(t, states, n, runs + 1)
  BY <1>1, <1>2, <1>3, AnsweredResults
<1>5. t = Answer(kept)
  <2>1. DOMAIN kept = 1..n /\ n \in 1..n /\ Len(kept) = n
    BY <1>1, <1>3, SeqIs DEF Stack, OtherData
  <2>2. {"msgs", "responses"} \subseteq DOMAIN kept[n]
    BY <1>3, <2>1 DEF OtherData, Stack, Underway, IsLevel
  <2> QED BY <1>2, <2>1, <2>2 DEF Answer, Answered, WithResponse
<1>6. PICK v, levels, more :
        v = Level(Runner, msgs) /\ levels = Respond(data, msgs) /\ more = ScopePushed
  OBVIOUS
<1>7. levels = IF msgs = <<>> THEN t ELSE Append(t, v)
  BY <1>2, <1>5, <1>6 DEF Respond, Ask
<1>8. Spanned(t, more)
  <2>1. PICK run : run = runs + 1
    OBVIOUS
  <2>2. Counted(states)
    BY StackIsOrderly, StackCounted
  <2>3. more = Append(open_scopes, run) /\ AnsweredTo(t, states, n, run)
    BY <1>4, <1>6, <2>1 DEF ScopePushed
  <2> QED BY <1>1, <2>2, <2>3, SpannedAnswered
<1>9. CASE msgs # <<>>
  <2>1. v.responses = <<>>
    BY <1>6 DEF Level
  <2>2. IsSeq(t)
    BY <1>4 DEF Stack
  <2>3. Appended(Append(t, v), t, v)
    BY <2>2, AppendIs, Zenon
  <2>4. Spanned(Append(t, v), more)
    BY <1>8, <2>1, <2>2, <2>3, SpannedPushed
  <2> QED BY <1>6, <1>7, <1>9, <2>4
<1> QED BY <1>6, <1>7, <1>8, <1>9

LEMMA SuccessfulResponses ==
    ASSUME MessagesInv, ResponsesInv, NEW data, NEW msgs \in BoundedSeq(Messages, MaxMsgs),
           RunSucceeds(data, msgs)
    PROVE  ResponsesInv'
<1>1. /\ Stack(states) /\ Asks(states, next) /\ IsSeq(open_scopes)
      /\ Spanned(states, open_scopes)
  BY DEF MessagesInv, ResponsesInv, RunSucceeds, Running
<1>2. PICK n \in Nat : n = Len(states)
  BY <1>1, SeqIs DEF Stack
<1>3. PICK levels, error : levels = Respond(data, msgs) /\ error = FALSE
  OBVIOUS
<1>4. Stack(levels) /\ Spanned(levels, ScopePushed)
  BY <1>1, <1>2, <1>3, RespondIs, SpannedResponded
<1>5. error \in BOOLEAN
  BY <1>3
<1>6. Spanned(FindNext(levels, error).levels, ScopePushed)
  BY <1>3, <1>4, <1>5, SearchSpanned
<1>7. /\ states' = FindNext(levels, error).levels /\ open_scopes' = ScopePushed
      /\ runs' = runs + 1
  BY <1>3 DEF RunSucceeds, Keep
<1>8. Spanned(states', open_scopes')
  BY <1>6, <1>7
<1>9. IsSeq(ScopePushed) /\ Len(ScopePushed) = Len(open_scopes) + 1
  <2>1. Appended(Append(open_scopes, runs + 1), open_scopes, runs + 1)
    BY <1>1, AppendIs, Zenon
  <2> QED BY <2>1 DEF Appended, ScopePushed
<1>10. runs \in Nat /\ Len(open_scopes) \in Nat /\ Len(open_scopes) <= runs
  BY <1>1, SeqIs DEF ResponsesInv
<1>11. runs + 1 \in Nat /\ Len(ScopePushed) <= runs + 1
  BY <1>9, <1>10
<1> QED BY <1>7, <1>8, <1>9, <1>11 DEF ResponsesInv

LEMMA FailedResponses ==
    ASSUME MessagesInv, RunningInv, ResponsesInv, RunFails,
           outcome' = "running" /\ next'.type = "reply" /\ next'.error
             => FlatAbove(states, Len(states'))
    PROVE  ResponsesInv'
<1>1. /\ Running /\ Stack(states) /\ Asks(states, next) /\ runs \in Nat
      /\ IsSeq(open_scopes) /\ Len(open_scopes) <= runs /\ Spanned(states, open_scopes)
  BY DEF MessagesInv, RunFails, Running, ResponsesInv
<1>2. runs' = runs + 1
  BY DEF RunFails, Keep
<1>3. PICK size \in Nat : size = Len(open_scopes) /\ size <= runs
  BY <1>1, SeqIs
<1>4. CASE next' = Nothing
  <2>1. open_scopes' = <<>> /\ outcome' = "failed"
    BY <1>4 DEF RunFails, Keep
  <2>2. 0 <= runs + 1 /\ runs + 1 \in Nat
    BY <1>1
  <2> QED BY <1>2, <2>1, <2>2, EmptyIs DEF ResponsesInv
<1>5. CASE next' # Nothing
  <2>1. PICK n \in Nat : n = Len(states) /\ n > 0
    BY <1>1, SeqIs DEF Stack, Asks
  <2>2. PICK error, found : error = TRUE /\ found = FindNext(states, error)
    OBVIOUS
  <2>3. error \in BOOLEAN
    BY <2>2
  <2>4. /\ states' = found.levels /\ next' = found.next /\ outcome' = "running"
        /\ open_scopes' = ScopesLeft(found.thrown + 1)
    BY <1>5, <2>2 DEF RunFails, Keep
  <2>5. Sound(found) /\ (found.over \/ Len(found.levels) = 0)
    BY <1>1, <2>2, <2>3, SearchEnds
  <2>6. Stack(found.levels) /\ Asks(found.levels, found.next) /\ found.over
        /\ found.next # Nothing
    BY <1>5, <2>4, <2>5 DEF Sound, Asks
  <2>7. PICK t : t = found.levels /\ Len(t) \in Nat
    BY <2>6, SeqIs DEF Stack
  <2>8. PICK k \in Nat : k = Len(t)
    BY <2>7
  <2>9. Shape(found, n, error)
    <3>1. Len(states) <= n + 1 /\ ~(Len(states) > n)
      BY <2>1
    <3> QED BY <1>1, <2>2, <2>3, <3>1, SearchShape
  <2>10. Undone(found, states, n)
    <3>1. Started(states[n])
      BY <1>1, <2>1 DEF Asks
    <3> QED BY <1>1, <2>1, <2>2, <3>1, SearchUndone
  <2>11. /\ found.next.type = "reply" /\ Caught(t, states, n, k)
         /\ found.thrown = Upto(states, n) - Upto(states, k) + (IF k = n THEN 0 ELSE 1)
    BY <2>6, <2>7, <2>8, <2>10 DEF Undone
  <2>12. found.next.error = TRUE
    BY <2>2, <2>6, <2>9, <2>11 DEF Shape
  <2>13. k \in 1..n /\ Waiting(states[k]) /\ FlatAbove(states, k)
    BY <2>4, <2>7, <2>8, <2>11, <2>12 DEF Caught
  <2>14. PICK thrown, left : thrown = found.thrown /\ left = Began[k].scopes
    OBVIOUS
  <2>15. /\ Len(ScopePushed) = size + 1
         /\ Len(ScopePushed) - (thrown + 1) = left
         /\ left \in 0..size
    BY <1>1, <1>3, <2>1, <2>11, <2>13, <2>14, ScopesCaught
  <2>16. PICK less : less = SubSeq(ScopePushed, 1, left)
    OBVIOUS
  <2>17. open_scopes' = less
    BY <2>4, <2>14, <2>15, <2>16 DEF ScopesLeft
  <2>18. IsSeq(less) /\ Len(less) = left /\ \A i \in 1..left : less[i] = open_scopes[i]
    <3>1. Appended(Append(open_scopes, runs + 1), open_scopes, runs + 1)
      BY <1>1, AppendIs, Zenon
    <3>2. IsSeq(ScopePushed) /\ \A i \in 1..size : ScopePushed[i] = open_scopes[i]
      BY <1>3, <3>1 DEF Appended, ScopePushed
    <3>3. left \in 0..Len(ScopePushed)
      BY <2>15
    <3>4. IsSeq(less) /\ Len(less) = left /\ \A i \in 1..left : less[i] = ScopePushed[i]
      BY <2>16, <3>2, <3>3, PrefixIs
    <3>5. \A i \in 1..left : i \in 1..size
      BY <2>15
    <3> QED BY <3>2, <3>4, <3>5
  <2>19. thrown = Upto(states, n) - Upto(states, k) + (IF k = n THEN 0 ELSE 1)
    BY <2>11, <2>14
  <2>20. Counted(states)
    BY <1>1, StackIsOrderly, StackCounted
  <2>21. thrown \in Int
    <3>1. Upto(states, n) \in Nat /\ Upto(states, k) \in Nat
      <4>1. n \in 1..Len(states) /\ k \in 1..Len(states)
        BY <2>1, <2>13
      <4> QED BY <2>20, <4>1, UptoIs
    <3> QED BY <2>19, <3>1
  <2>22. Len(less) = Len(open_scopes) - thrown
    BY <1>3, <2>15, <2>18, <2>21
  <2>23. k < n => /\ FlatAbove(states, k) /\ LastFlat(states[k])
                  /\ Len(states[k].responses) > 0
    <3> SUFFICES ASSUME k < n
                 PROVE  LastFlat(states[k]) /\ Len(states[k].responses) > 0
      BY <2>13
    <3>1. k \in 1..Len(states) /\ k < Len(states)
      BY <2>1, <2>13
    <3>2. LastFlat(states[k])
      BY <3>1 DEF RunningInv, Books
    <3> QED BY <1>1, <3>1, <3>2 DEF Stack, Linked
  <2>24. Spanned(t, less)
    <3>1. PICK levels, open : levels = states /\ open = open_scopes
      OBVIOUS
    <3>2. /\ Counted(levels) /\ n = Len(levels) /\ Caught(t, levels, n, k)
          /\ Spanned(levels, open)
      BY <1>1, <2>1, <2>11, <2>20, <3>1
    <3>3. Len(less) = Len(open) - (Upto(levels, n) - Upto(levels, k)
                                     + (IF k = n THEN 0 ELSE 1))
      BY <2>19, <2>22, <3>1
    <3>4. \A i \in 1..Len(less) : less[i] = open[i]
      BY <2>18, <3>1
    <3>5. k < n => /\ FlatAbove(levels, k) /\ LastFlat(levels[k])
                   /\ Len(levels[k].responses) > 0
      BY <2>23, <3>1
    <3> QED BY <2>13, <3>2, <3>3, <3>4, <3>5, SpannedCaught
  <2>25. runs + 1 \in Nat /\ Len(less) <= runs + 1
    BY <1>1, <1>3, <2>15, <2>18
  <2> QED BY <1>2, <2>4, <2>7, <2>17, <2>18, <2>24, <2>25 DEF ResponsesInv
<1> QED BY <1>4, <1>5

LEMMA StepResponses ==
    ASSUME MessagesInv, RepliesInv, ResponsesInv, [MessagesNext]_messageVars,
           [CaughtErrorsAreFlat]_messageVars
    PROVE  ResponsesInv'
<1>1. CASE UNCHANGED messageVars
  BY <1>1 DEF messageVars, ResponsesInv
<1>2. CASE MessagesNext /\ CaughtErrorsAreFlat
  <2>1. ASSUME NEW c \in Contract, NewExecution(c)
        PROVE  ResponsesInv'
    BY <2>1, NewResponses
  <2>2. ASSUME NEW data \in Data \cup {NoData},
               NEW msgs \in BoundedSeq(Messages, MaxMsgs), RunSucceeds(data, msgs)
        PROVE  ResponsesInv'
    BY <2>2, SuccessfulResponses
  <2>3. CASE RunFails
    <3>1. RunningInv
      BY <2>3 DEF RepliesInv, RunFails, Running
    <3> QED BY <1>2, <2>3, <3>1, FailedResponses DEF CaughtErrorsAreFlat
  <2>4. CASE RunAborts
    <3>1. open_scopes' = <<>> /\ runs' = runs + 1 /\ outcome' = "failed"
      BY <2>4 DEF RunAborts
    <3>2. runs + 1 \in Nat /\ 0 <= runs + 1
      BY DEF ResponsesInv
    <3> QED BY <3>1, <3>2, EmptyIs DEF ResponsesInv
  <2> QED BY <1>2, <2>1, <2>2, <2>3, <2>4 DEF MessagesNext
<1>3. ~(UNCHANGED messageVars) => MessagesNext /\ CaughtErrorsAreFlat
  OBVIOUS
<1> QED BY <1>1, <1>2, <1>3
-----------------------------------------------------------------------------
(* What an iterator gives out.                                             *)
IsIter(n, responses, after) ==
    after = [calls \in 0..n |-> IF calls = 0 THEN NewIter(responses)
                                             ELSE IterNext(after[calls - 1])]

LEMMA IterIsChosen ==
    ASSUME NEW responses
    PROVE  Iter(responses) = (CHOOSE after : IsIter(runs, responses, after))[runs].seen
BY DEF Iter, IsIter

LEMMA IterExists ==
    ASSUME NEW n \in Nat, NEW responses
    PROVE  \E after : IsIter(n, responses, after)
<1> DEFINE G == {k \in 0..n : \E after : IsIter(k, responses, after)}
<1>1. 0 \in G
  <2>1. PICK f : f = [k \in 0..0 |-> NewIter(responses)]
    OBVIOUS
  <2>2. f = [k \in 0..0 |-> IF k = 0 THEN NewIter(responses) ELSE IterNext(f[k - 1])]
    BY <2>1
  <2> QED BY <2>2 DEF IsIter
<1>2. ASSUME NEW i \in 1..n, i > 0, i - 1 \in G
      PROVE  i \in G
  <2>1. PICK f : IsIter(i - 1, responses, f)
    BY <1>2
  <2>2. PICK g : g = [k \in 0..i |-> IF k = i THEN IterNext(f[i - 1]) ELSE f[k]]
    OBVIOUS
  <2>3. ASSUME NEW k \in 0..i
        PROVE  g[k] = IF k = 0 THEN NewIter(responses) ELSE IterNext(g[k - 1])
    <3>1. CASE k = 0
      <4>1. f[0] = NewIter(responses)
        BY <2>1 DEF IsIter
      <4> QED BY <2>2, <3>1, <4>1
    <3>2. CASE k # 0 /\ k # i
      <4>1. k \in 0..(i - 1) /\ k - 1 \in 0..i /\ k - 1 # i
        BY <3>2
      <4>2. f[k] = IterNext(f[k - 1])
        BY <2>1, <3>2, <4>1 DEF IsIter
      <4>3. g[k] = f[k] /\ g[k - 1] = f[k - 1]
        BY <2>2, <3>2, <4>1
      <4> QED BY <3>2, <4>2, <4>3
    <3>3. CASE k = i
      <4>1. k - 1 \in 0..i /\ k - 1 # i /\ k # 0
        BY <3>3
      <4>2. g[k - 1] = f[i - 1] /\ g[k] = IterNext(f[i - 1])
        BY <2>2, <3>3, <4>1
      <4> QED BY <4>1, <4>2
    <3> QED BY <3>1, <3>2, <3>3
  <2>4. g = [k \in 0..i |-> g[k]]
    BY <2>2
  <2>5. IsIter(i, responses, g)
    BY <2>3, <2>4 DEF IsIter
  <2> QED BY <2>5
<1> HIDE DEF G
<1>3. 0 \in 0..n
  OBVIOUS
<1>4. \A i \in 0..n : i \in G
  BY <1>1, <1>2, <1>3, StepByStep
<1>5. n \in G
  BY <1>4
<1> QED BY <1>5 DEF G

\* An iterator that has come to p of the scopes after a.
At(iter, f, open, a, p) == iter.left = f[p] /\ iter.seen = SubSeq(open, a + 1, p)

LEMMA NextVisit ==
    ASSUME NEW open, IsSeq(open), NEW responses, NEW a \in Nat, NEW b \in 0..Len(open),
           NEW f, Walk(f, responses, open, a, b), NEW p \in a..b,
           NEW iter, At(iter, f, open, a, p)
    PROVE  IF p = b THEN IterNext(iter) = iter
                    ELSE p + 1 \in a..b /\ At(IterNext(iter), f, open, a, p + 1)
<1>1. CASE p = b
  <2>1. iter.left = <<>>
    BY <1>1 DEF At, Walk
  <2> QED BY <1>1, <2>1 DEF IterNext, Visit
<1>2. CASE p # b
  <2>1. PICK size \in Nat : size = Len(open)
    BY SeqIs
  <2>2. p \in a..(b - 1) /\ p + 1 \in a..b /\ p \in Nat /\ p + 1 <= size
    BY <1>2, <2>1
  <2>3. PICK l, sent : l = f[p] /\ sent = Head(l).sent
    OBVIOUS
  <2>4. l # <<>> /\ Head(l).run = open[p + 1] /\ f[p + 1] = sent \o Tail(l)
    BY <2>2, <2>3 DEF Walk
  <2>5. PICK seen : seen = SubSeq(open, a + 1, p)
    OBVIOUS
  <2>6. iter.left = l /\ iter.seen = seen
    BY <2>3, <2>5 DEF At
  <2>7. IterNext(iter) = [left |-> sent \o Tail(l), seen |-> Append(seen, open[p + 1])]
    BY <2>3, <2>4, <2>6 DEF IterNext, Visit
  <2>8. Append(seen, open[p + 1]) = SubSeq(open, a + 1, p + 1)
    <3>1. PICK S : open \in Seq(S)
      BY DEF IsSeq
    <3>2. PICK x : x = open[p + 1]
      OBVIOUS
    <3>3. seen \in Seq(S) /\ x \in S
      BY <2>1, <2>2, <2>5, <3>1, <3>2
    <3>4. SubSeq(open, a + 1, p + 1) = SubSeq(open, a + 1, p) \o <<x>>
      <4>1. a + 1 \in 1..Len(open) /\ p + 1 \in (a + 1)..Len(open) /\ (p + 1) - 1 = p
        BY <2>1, <2>2
      <4>2. SubSeq(open, a + 1, p + 1) = SubSeq(open, a + 1, (p + 1) - 1) \o <<open[p + 1]>>
        BY <3>1, <4>1, SubSeqRecursiveSecond
      <4> QED BY <3>2, <4>1, <4>2
    <3>5. Append(seen, x) = seen \o <<x>>
      BY <3>3, AppendIsConcat
    <3> QED BY <2>5, <3>2, <3>4, <3>5
  <2> QED BY <1>2, <2>2, <2>4, <2>7, <2>8, SMTT(20) DEF At
<1> QED BY <1>1, <1>2

\* An iterator gives out the scopes that its responses are of.
LEMMA IterIs ==
    ASSUME NEW n \in Nat, n = runs, NEW open, IsSeq(open), Len(open) <= n,
           NEW responses, NEW a, NEW b \in 0..Len(open), Walks(responses, open, a, b)
    PROVE  Iter(responses) = SubSeq(open, a + 1, b)
<1>1. a \in Nat /\ a <= b /\ b \in Nat /\ b <= n
  BY SeqIs DEF Walks
<1>2. PICK f : Walk(f, responses, open, a, b)
  BY DEF Walks
<1>3. PICK after : IsIter(n, responses, after) /\ Iter(responses) = after[n].seen
  <2>1. PICK g : g = (CHOOSE after : IsIter(n, responses, after))
    OBVIOUS
  <2>2. IsIter(n, responses, g)
    BY <2>1, IterExists
  <2>3. Iter(responses) = g[n].seen
    BY <2>1, IterIsChosen
  <2> QED BY <2>2, <2>3
<1> DEFINE G == {k \in 0..n : \E p \in a..b : /\ p = a + k \/ (p = b /\ b <= a + k)
                                              /\ At(after[k], f, open, a, p)}
<1>4. 0 \in G
  <2>1. after[0] = NewIter(responses)
    BY <1>3 DEF IsIter
  <2>2. f[a] = responses /\ SubSeq(open, a + 1, a) = <<>>
    BY <1>1, <1>2, SubSeqEmpty DEF Walk
  <2>3. At(after[0], f, open, a, a)
    <3>1. after[0].left = responses /\ after[0].seen = <<>>
      BY <2>1 DEF NewIter
    <3> QED BY <2>2, <3>1 DEF At
  <2>4. a \in a..b /\ a = a + 0
    BY <1>1
  <2> QED BY <2>3, <2>4
<1>5. ASSUME NEW k \in 1..n, k > 0, k - 1 \in G
      PROVE  k \in G
  <2>1. PICK p \in a..b : /\ p = a + (k - 1) \/ (p = b /\ b <= a + (k - 1))
                          /\ At(after[k - 1], f, open, a, p)
    BY <1>5
  <2>2. PICK iter, more : iter = after[k - 1] /\ more = after[k]
    OBVIOUS
  <2>3. more = IterNext(iter)
    <3>1. after[k] = IF k = 0 THEN NewIter(responses) ELSE IterNext(after[k - 1])
      BY <1>3 DEF IsIter
    <3> QED BY <1>5, <2>2, <3>1
  <2>4. IF p = b THEN more = iter
                 ELSE p + 1 \in a..b /\ At(more, f, open, a, p + 1)
    <3>1. a \in Nat /\ At(iter, f, open, a, p)
      BY <1>1, <2>1, <2>2
    <3>2. IF p = b THEN IterNext(iter) = iter
                   ELSE p + 1 \in a..b /\ At(IterNext(iter), f, open, a, p + 1)
      BY <1>2, <3>1, NextVisit, Zenon
    <3> QED BY <2>3, <3>2, Zenon
  <2>5. CASE p = b
    <3>1. b <= a + k
      BY <1>1, <2>1, <2>5
    <3> QED BY <2>1, <2>2, <2>4, <2>5, <3>1
  <2>6. CASE p # b
    <3>1. p + 1 = a + k
      BY <1>1, <2>1, <2>6
    <3> QED BY <2>2, <2>4, <2>6, <3>1
  <2> QED BY <2>5, <2>6
<1> HIDE DEF G
<1>6. n \in G
  <2>1. 0 \in 0..n
    OBVIOUS
  <2>2. \A k \in 0..n : k \in G
    BY <1>4, <1>5, <2>1, StepByStep
  <2> QED BY <2>2
<1>7. PICK p \in a..b : /\ p = a + n \/ (p = b /\ b <= a + n)
                        /\ At(after[n], f, open, a, p)
  BY <1>6 DEF G
<1>8. p = b
  BY <1>1, <1>7
<1> QED BY <1>3, <1>7, <1>8 DEF At

LEMMA ResponsesIterated ==
    ASSUME MessagesInv, ResponsesInv
    PROVE  IterationFollowsExecution
<1> SUFFICES ASSUME outcome \in {"running", "committed"}
             PROVE  FlattenSeq([m \in DOMAIN states |-> Iter(states[m].responses)])
                      = open_scopes
  BY DEF IterationFollowsExecution
<1>1. PICK levels, open : levels = states /\ open = open_scopes
  OBVIOUS
<1>2. /\ Counted(levels) /\ IsSeq(open) /\ runs \in Nat /\ Len(open) <= runs
      /\ Spanned(levels, open)
  BY <1>1, StackCounted DEF MessagesInv, ResponsesInv
<1>3. PICK n \in Nat, size \in Nat : n = Len(levels) /\ DOMAIN levels = 1..n
                                     /\ size = Len(open)
  BY <1>2, SeqIs DEF Counted
<1>4. PICK d : Bounds(d, levels, open)
  BY <1>2 DEF Spanned
<1>5. d \in [0..n -> Nat] /\ d[0] = 0 /\ d[n] = size
  BY <1>3, <1>4 DEF Bounds
<1>6. PICK S : open \in Seq(S)
  BY <1>2 DEF IsSeq
<1>7. ASSUME NEW m \in 1..n
      PROVE  /\ Iter(levels[m].responses) = SubSeq(open, d[m - 1] + 1, d[m])
             /\ d[m - 1] \in Nat /\ d[m - 1] <= d[m] /\ d[m] <= size
  <2>1. PICK told, a, b : told = levels[m].responses /\ a = d[m - 1] /\ b = d[m]
    OBVIOUS
  <2>2. IsSeq(told) /\ Spans(told, open, a, b)
    BY <1>2, <1>3, <1>4, <2>1 DEF Bounds, Counted
  <2>3. Walks(told, open, a, b) /\ a \in Nat /\ b \in Nat /\ a <= b
    BY <2>2, SpansWalk, SpansEnds
  <2>4. b <= size
    BY <1>2, <1>3, <1>4, <2>1, BoundsGrow
  <2>5. Iter(told) = SubSeq(open, a + 1, b)
    <3>1. b \in 0..Len(open)
      BY <1>3, <2>3, <2>4
    <3> QED BY <1>2, <2>3, <3>1, IterIs
  <2> QED BY <2>1, <2>3, <2>4, <2>5
<1>8. PICK seqs : seqs = [m \in DOMAIN levels |-> Iter(levels[m].responses)]
  OBVIOUS
<1>9. Len(seqs) = n /\ \A m \in 1..n : seqs[m] = SubSeq(open, d[m - 1] + 1, d[m])
  <2>1. PICK T : T = {Iter(levels[m].responses) : m \in 1..n}
    OBVIOUS
  <2>2. seqs \in [1..n -> T]
    BY <1>3, <1>8, <2>1
  <2> QED BY <1>3, <1>7, <1>8, <2>2
<1>10. CASE n = 0
  <2>1. FlattenSeq(seqs) = seqs
    BY <1>9, <1>10 DEF FlattenSeq
  <2>2. seqs = <<>> /\ open = <<>>
    <3>1. seqs = <<>>
      BY <1>3, <1>8, <1>10
    <3>2. size = 0
      BY <1>5, <1>10
    <3> QED BY <1>3, <1>6, <3>1, <3>2, EmptySeq
  <2> QED BY <1>1, <1>8, <2>1, <2>2
<1>11. CASE n # 0
  <2>1. PICK f : IsFlatten(n, seqs, f) /\ FlattenSeq(seqs) = f[n]
    <3>1. PICK f : f = (CHOOSE g : IsFlatten(n, seqs, g))
      OBVIOUS
    <3>2. IsFlatten(n, seqs, f)
      BY <1>11, <3>1, FlattenExists
    <3>3. FlattenSeq(seqs) = f[n]
      <4>1. Len(seqs) # 0
        BY <1>9, <1>11
      <4>2. FlattenSeq(seqs) = (CHOOSE g : IsFlatten(Len(seqs), seqs, g))[Len(seqs)]
        BY <4>1, FlattenIsChosen
      <4> QED BY <1>9, <3>1, <4>2
    <3> QED BY <3>2, <3>3
  <2> DEFINE G == {m \in 1..n : f[m] = SubSeq(open, 1, d[m])}
  <2>2. 1 \in G
    <3>1. 1 \in 1..n
      BY <1>11
    <3>2. f[1] = seqs[1]
      BY <2>1, <3>1 DEF IsFlatten
    <3>3. seqs[1] = SubSeq(open, d[1 - 1] + 1, d[1]) /\ 1 - 1 = 0 /\ 0 + 1 = 1
      BY <1>9, <3>1
    <3> QED BY <1>5, <3>1, <3>2, <3>3
  <2>3. ASSUME NEW m \in 1..n, m > 1, m - 1 \in G
        PROVE  m \in G
    <3>1. PICK a, b : a = d[m - 1] /\ b = d[m]
      OBVIOUS
    <3>2. f[m] = f[m - 1] \o seqs[m]
      <4>1. f[m] = IF m = 1 THEN seqs[m] ELSE f[m - 1] \o seqs[m]
        BY <2>1 DEF IsFlatten
      <4>2. m # 1
        BY <2>3
      <4> QED BY <4>1, <4>2, Zenon
    <3>3. f[m - 1] = SubSeq(open, 1, a) /\ seqs[m] = SubSeq(open, a + 1, b)
      BY <1>9, <2>3, <3>1
    <3>4. a \in Nat /\ b \in Nat /\ a <= b /\ b <= size
      BY <1>5, <1>7, <3>1
    <3>5. SubSeq(open, 1, a) \o SubSeq(open, a + 1, b) = SubSeq(open, 1, b)
      <4>1. /\ 1 \in 1..(Len(open) + 1) /\ a \in (1 - 1)..Len(open)
            /\ b \in a..Len(open)
        BY <1>3, <3>4
      <4> QED BY <1>6, <4>1, ConcatAdjacentSubSeq
    <3>6. f[m] = SubSeq(open, 1, d[m])
      BY <3>1, <3>2, <3>3, <3>5
    <3> QED BY <3>6
  <2> HIDE DEF G
  <2>4. n \in G
    <3>1. 1 \in 0..n /\ n \in 1..n
      BY <1>11
    <3>2. \A m \in 1..n : m \in G
      BY <2>2, <2>3, <3>1, StepByStep
    <3> QED BY <3>1, <3>2
  <2>5. f[n] = SubSeq(open, 1, size)
    BY <1>5, <2>4 DEF G
  <2>6. SubSeq(open, 1, size) = open
    BY <1>3, <1>6, SubSeqFull
  <2> QED BY <1>1, <1>8, <2>1, <2>5, <2>6
<1> QED BY <1>10, <1>11

(* Under the same condition the responses that are kept, while a           *)
(* transaction runs and once it is committed, are those of the runs whose  *)
(* effects are kept, and the iterator of response.rs, which takes what a   *)
(* response has sent before what follows it, visits them in the order they *)
(* ran in, through every level that was squashed or given up.              *)
THEOREM IterationsFollowExecution ==
    MessagesSpec /\ [][CaughtErrorsAreFlat]_messageVars => []IterationFollowsExecution
<1>1. MessagesInit => ResponsesInv
  BY InitResponses
<1>2. MessagesInv /\ RepliesInv /\ ResponsesInv /\ [MessagesNext]_messageVars
        /\ [CaughtErrorsAreFlat]_messageVars => ResponsesInv'
  BY StepResponses
<1>3. MessagesInv /\ ResponsesInv => IterationFollowsExecution
  BY ResponsesIterated
<1> QED BY <1>1, <1>2, <1>3, RepliesAlways, PTL DEF MessagesSpec

(* So it does, whatever contracts do, while a transaction is nested three  *)
(* deep at most.                                                           *)
THEOREM ShallowIterationsFollowExecution ==
    ASSUME MaxLevels \in 1..3
    PROVE  MessagesSpec => []IterationFollowsExecution
BY ShallowIsFlat, IterationsFollowExecution, PTL
=============================================================================
