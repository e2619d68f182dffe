------------------------------- MODULE WorkPool -------------------------------
(***************************************************************************)
(* What a pool of threads promises: a work is submitted once, works are    *)
(* started in the order they were submitted, each once, no more of them at *)
(* a time than the pool has threads, and a started work finishes once.     *)
(***************************************************************************)
EXTENDS Naturals, Sequences, FiniteSets, Functions

CONSTANTS Works, Size
VARIABLES submitted, started, finished
vars == <<submitted, started, finished>>

Running == Range(started) \ finished

Init == submitted = <<>> /\ started = <<>> /\ finished = {}

Submit(r) ==
  /\ r \notin Range(submitted)
  /\ submitted' = Append(submitted, r)
  /\ UNCHANGED <<started, finished>>

Start ==
  /\ Len(started) < Len(submitted)
  /\ Cardinality(Running) < Size
  /\ started' = Append(started, submitted[Len(started) + 1])
  /\ UNCHANGED <<submitted, finished>>

Finish(r) ==
  /\ r \in Running
  /\ finished' = finished \cup {r}
  /\ UNCHANGED <<submitted, started>>

Next == Start \/ \E r \in Works : Submit(r) \/ Finish(r)
Spec == Init /\ [][Next]_vars
===============================================================================
