----------------------------- MODULE TaskService -----------------------------
(***************************************************************************)
(* What the server promises the clients about their tasks: a query that    *)
(* was accepted is executed at most once, its task becomes COMPLETED only  *)
(* after that, and never goes back to PENDING; the service remembers       *)
(* Capacity tasks and forgets one, for ever, only to make room for a new   *)
(* one.  Once it has begun to forget, a task may be marked completed by    *)
(* the late result of the one it replaced, before it has been executed.    *)
(***************************************************************************)
EXTENDS Integers, FiniteSets

CONSTANTS MaxTasks, Capacity

VARIABLES state, runs

vars == <<state, runs>>

Tasks == 1 .. MaxTasks

Known    == { g \in Tasks : state[g] # "none" }
Retained == { g \in Tasks : state[g] \in {"PENDING", "COMPLETED"} }

Init ==
  /\ state = [g \in Tasks |-> "none"]
  /\ runs  = [g \in Tasks |-> 0]

(* Tasks are registered in order; a full service forgets exactly one, and   *)
(* none of the Capacity - 1 newest, the new one included.                   *)
Register(g) ==
  /\ Known = 1 .. g - 1
  /\ \/ /\ Cardinality(Retained) < Capacity
        /\ state' = [state EXCEPT ![g] = "PENDING"]
     \/ /\ Cardinality(Retained) = Capacity
        /\ \E f \in Retained : f <= g - Capacity + 1 /\
             state' = [state EXCEPT ![f] = "forgotten", ![g] = "PENDING"]
  /\ UNCHANGED runs

Execute(g) ==
  /\ g \in Known /\ runs[g] = 0
  /\ runs' = [runs EXCEPT ![g] = 1]
  /\ UNCHANGED state

Complete(g) ==
  /\ state[g] = "PENDING"
  /\ runs[g] = 1 \/ Cardinality(Known) > Capacity
  /\ state' = [state EXCEPT ![g] = "COMPLETED"]
  /\ UNCHANGED runs

Next == \E g \in Tasks : Register(g) \/ Execute(g) \/ Complete(g)

Spec == Init /\ [][Next]_vars
=============================================================================
