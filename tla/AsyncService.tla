----------------------------- MODULE AsyncService -----------------------------
(***************************************************************************)
(* What an asynchronous request service promises its callers: a request    *)
(* is submitted at most once, and requests complete one at a time, each    *)
(* once, in the order they were submitted.                                 *)
(***************************************************************************)
EXTENDS Naturals, Sequences

CONSTANT Requests
VARIABLES submitted, completed
vars == <<submitted, completed>>

Init == submitted = <<>> /\ completed = <<>>

Submit(r) ==
  /\ \A i \in 1..Len(submitted) : submitted[i] # r
  /\ submitted' = Append(submitted, r)
  /\ UNCHANGED completed

Complete ==
  /\ Len(completed) < Len(submitted)
  /\ completed' = Append(completed, submitted[Len(completed) + 1])
  /\ UNCHANGED submitted

Next == Complete \/ \E r \in Requests : Submit(r)
Spec == Init /\ [][Next]_vars
===============================================================================
