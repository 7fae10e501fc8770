----------------------------- MODULE SessionMap -----------------------------
(***************************************************************************)
(* What the session array promises (AsyncManager.cpp:135-174): the current *)
(* database of each session, assigned at one moment of each call unless    *)
(* the worker dies or there is no room, as long as no two calls get in     *)
(* each other's way.                                                       *)
(***************************************************************************)
EXTENDS Integers, FiniteSets

CONSTANTS Workers, Tokens, NoToken, Databases, NoDb,
          Capacity  \* sessions there is room for

VARIABLES
  value,    \* the database of each session
  pending,  \* the assignment each worker is busy with
  lost,     \* assignments that were broken off, of which each may cost room
  spoiled   \* whether two calls got in each other's way

vars == <<value, pending, lost, spoiled>>

Nothing == [token |-> NoToken, db |-> NoDb]

Init ==
  /\ value = [t \in Tokens |-> NoDb]
  /\ pending = [w \in Workers |-> Nothing]
  /\ lost = 0 /\ spoiled = FALSE

Begin(w) ==
  /\ pending[w] = Nothing
  /\ \E t \in Tokens, d \in Databases :
       /\ \A v \in Workers : pending[v].token # t
       /\ pending' = [pending EXCEPT ![w] = [token |-> t, db |-> d]]
  /\ UNCHANGED <<value, lost, spoiled>>

Assign(w) ==
  /\ pending[w] # Nothing
  /\ value' = [value EXCEPT ![pending[w].token] = pending[w].db]
  /\ pending' = [pending EXCEPT ![w] = Nothing]
  /\ UNCHANGED <<lost, spoiled>>

Others(w) == {v \in Workers \ {w} : pending[v] # Nothing}

Refuse(w) ==
  /\ pending[w] # Nothing /\ value[pending[w].token] = NoDb
  /\ Cardinality({t \in Tokens : value[t] # NoDb}) + lost
       + Cardinality(Others(w)) >= Capacity
  /\ pending' = [pending EXCEPT ![w] = Nothing]
  /\ UNCHANGED <<value, lost, spoiled>>

BreakOff(w) ==
  /\ pending[w] # Nothing
  /\ pending' = [pending EXCEPT ![w] = Nothing] /\ lost' = lost + 1
  /\ UNCHANGED <<value, spoiled>>

Spoil == spoiled'

Next == Spoil \/ \E w \in Workers : Begin(w) \/ Assign(w) \/ Refuse(w) \/ BreakOff(w)

Spec == Init /\ [][Next]_vars
=============================================================================
