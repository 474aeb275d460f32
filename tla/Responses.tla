------------------------------ MODULE Responses ------------------------------
(***************************************************************************)
(* Walking through the responses of a transaction (Iter in                 *)
(* crates/fadroma-ensemble/src/response.rs), whose tree SubMessages builds.*)
(***************************************************************************)
EXTENDS SubMessages

\* The iterator: the responses that it has left, its stack and the rest of
\* those it was made for, and the runs whose responses it has given out.
NewIter(responses) == [left |-> responses, seen |-> <<>>]

Visit(iter, sent) ==
    IF iter.left = <<>> THEN iter
    ELSE [left |-> sent \o Tail(iter.left), seen |-> Append(iter.seen, Head(iter.left).run)]

IterNextUnreversed(iter) == Visit(iter, Reverse(Head(iter.left).sent))

\* Iter::next: what a response has sent goes onto the stack, the first of it
\* on top, above what is left of the responses.
IterNext(iter) == Visit(iter, Head(iter.left).sent)

\* All that an iterator gives out.  No more calls than there were runs come to
\* a response, as every response is that of a run.
Iter(responses) ==
    LET after[calls \in 0..runs] ==
            IF calls = 0 THEN NewIter(responses) ELSE IterNext(after[calls - 1])
    IN  after[runs].seen
-----------------------------------------------------------------------------
(* The responses that are kept are those of the runs whose effects are     *)
(* kept, and iterating over them visits these in the order they ran in     *)
(* ("in **order of execution**", response.rs), squashed levels included.   *)
IterationFollowsExecution ==
    outcome \in {"running", "committed"} =>
        FlattenSeq([n \in DOMAIN states |-> Iter(states[n].responses)]) = open_scopes
=============================================================================
