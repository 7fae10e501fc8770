------------------------------ MODULE Sessions ------------------------------
(***************************************************************************)
(* The session array in shared memory, AsyncManager::set_session_db and    *)
(* get_session_db, as the worker processes run them: slot by slot, with no *)
(* lock.  A text is copied in two halves, and a half-copied one is equal   *)
(* to no token.  Nothing ever frees a slot: close_session has no caller.   *)
(***************************************************************************)
EXTENDS Integers, FiniteSets

CONSTANTS
  Workers,
  Tokens, NoToken,  \* session tokens, and the empty one of a fresh slot
  Databases, NoDb,  \* names, and the empty one
  MaxSessions,      \* MAX_SESSIONS
  MaxDeaths         \* bound: workers that die inside a call

ASSUME SessionsAssumption ==
  /\ IsFiniteSet(Workers)
  /\ MaxSessions \in Nat
  /\ NoToken \notin Tokens
  /\ NoDb \notin Databases

VARIABLES
  is_active, session_token, current_db,  \* the fields of the slots
  pc,       \* per worker: where it is
  call,     \* the token and the database it was called with
  at,       \* the slot its loop is at
  result,   \* what get_session_db returned, in halves
  during,   \* history: the databases the session had since that get began
  asked,    \* history: the databases each token was ever set to
  clashed,  \* history: whether two calls got in each other's way
  broken,   \* history: tokens whose writer died between the halves
  deaths    \* workers that died inside a call

slots   == <<is_active, session_token, current_db>>
history == <<during, asked, clashed, broken, deaths>>
vars    == <<slots, pc, call, at, result, history>>

Slots == 1 .. MaxSessions
Texts(S) == [1 .. 2 -> S]
Text(x)  == [half \in 1 .. 2 |-> x]

Searching == {"free", "claim"}
Setting   == {"find", "token1", "token2", "db1", "db2"} \cup Searching

(* strncmp of a slot's token with a call's.                                 *)
Has(i, t) == is_active[i] /\ session_token[i] = Text(t)

(* The database a token has: an assignment counts once it is complete.      *)
First(t) == CHOOSE i \in Slots : Has(i, t) /\ \A j \in 1 .. i - 1 : ~Has(j, t)
Value(t) == IF \E i \in Slots : Has(i, t) THEN current_db[First(t)][2] ELSE NoDb

(* Calls that no lock keeps apart: two for one token, or two that both look *)
(* for a free slot.                                                         *)
Clash == \E v, w \in Workers :
           /\ v # w /\ {pc[v], pc[w]} \subseteq Setting
           /\ \/ call[v].token = call[w].token
              \/ {pc[v], pc[w]} \subseteq Searching

Moves(w, where) ==
  /\ pc' = [pc EXCEPT ![w] = where]
  /\ clashed' = (clashed \/ Clash')
  /\ during' = [v \in Workers |->
       IF pc'[v] = "get" \/ pc[v] = "get"
       THEN during[v] \cup {Value(call[v].token)'} ELSE {}]

-----------------------------------------------------------------------------
(* set_session_db.  A worker calls it with a token that is not empty and    *)
(* the name of a database.  Bug variant: the search starts at slot 2.       *)
BugBeginSet(w) ==
  /\ pc[w] = "idle"
  /\ \E t \in Tokens, d \in Databases :
       /\ call' = [call EXCEPT ![w] = [token |-> t, db |-> d]]
       /\ asked' = [asked EXCEPT ![t] = @ \cup {d}]
  /\ at' = [at EXCEPT ![w] = 2]
  /\ UNCHANGED <<slots, result, broken, deaths>>
  /\ Moves(w, "find")
BeginSet(w) ==
  /\ pc[w] = "idle"
  /\ \E t \in Tokens, d \in Databases :
       /\ call' = [call EXCEPT ![w] = [token |-> t, db |-> d]]
       /\ asked' = [asked EXCEPT ![t] = @ \cup {d}]
  /\ at' = [at EXCEPT ![w] = 1]
  /\ UNCHANGED <<slots, result, broken, deaths>>
  /\ Moves(w, "find")

(* Bug variant: any slot in use is taken for the session's.                 *)
BugFindSlot(w) ==
  /\ pc[w] = "find" /\ at[w] <= MaxSessions
  /\ at' = [at EXCEPT ![w] = IF is_active[@] THEN @ ELSE @ + 1]
  /\ UNCHANGED <<slots, call, result, asked, broken, deaths>>
  /\ Moves(w, IF is_active[at[w]] THEN "db1" ELSE "find")
FindSlot(w) ==
  /\ pc[w] = "find" /\ at[w] <= MaxSessions
  /\ at' = [at EXCEPT ![w] = IF Has(@, call[w].token) THEN @ ELSE @ + 1]
  /\ UNCHANGED <<slots, call, result, asked, broken, deaths>>
  /\ Moves(w, IF Has(at[w], call[w].token) THEN "db1" ELSE "find")

(* Bug variant: the next loop starts before the first slot.                 *)
BugRestart(w) ==
  /\ pc[w] = "find" /\ at[w] > MaxSessions
  /\ at' = [at EXCEPT ![w] = 0]
  /\ UNCHANGED <<slots, call, result, asked, broken, deaths>>
  /\ Moves(w, "free")
NotFound(w) ==
  /\ pc[w] = "find" /\ at[w] > MaxSessions
  /\ at' = [at EXCEPT ![w] = 1]
  /\ UNCHANGED <<slots, call, result, asked, broken, deaths>>
  /\ Moves(w, "free")

(* Bug variant: a slot is claimed without a look at its flag.               *)
BugFindFree(w) ==
  /\ pc[w] = "free" /\ at[w] <= MaxSessions
  /\ UNCHANGED <<slots, call, at, result, asked, broken, deaths>>
  /\ Moves(w, "claim")
FindFree(w) ==
  /\ pc[w] = "free" /\ at[w] <= MaxSessions
  /\ at' = [at EXCEPT ![w] = IF is_active[@] THEN @ + 1 ELSE @]
  /\ UNCHANGED <<slots, call, result, asked, broken, deaths>>
  /\ Moves(w, IF is_active[at[w]] THEN "free" ELSE "claim")

(* The array is full: the call returns and has done nothing.                *)
NoFreeSlot(w) ==
  /\ pc[w] = "free" /\ at[w] > MaxSessions
  /\ UNCHANGED <<slots, call, at, result, asked, broken, deaths>>
  /\ Moves(w, "idle")

Claim(w) ==
  /\ pc[w] = "claim"
  /\ is_active' = [is_active EXCEPT ![at[w]] = TRUE]
  /\ UNCHANGED <<session_token, current_db, call, at, result, asked, broken,
                 deaths>>
  /\ Moves(w, "token1")

WriteToken(w, half) ==
  /\ pc[w] = (IF half = 1 THEN "token1" ELSE "token2")
  /\ session_token' = [session_token EXCEPT ![at[w]][half] = call[w].token]
  /\ UNCHANGED <<is_active, current_db, call, at, result, asked, broken, deaths>>
  /\ Moves(w, IF half = 1 THEN "token2" ELSE "db1")

WriteDb(w, half) ==
  /\ pc[w] = (IF half = 1 THEN "db1" ELSE "db2")
  /\ current_db' = [current_db EXCEPT ![at[w]][half] = call[w].db]
  /\ broken' = IF half = 2 THEN broken \ {call[w].token} ELSE broken
  /\ UNCHANGED <<is_active, session_token, call, at, result, asked, deaths>>
  /\ Moves(w, IF half = 1 THEN "db2" ELSE "idle")

-----------------------------------------------------------------------------
(* get_session_db.                                                          *)
BeginGet(w) ==
  /\ pc[w] = "idle"
  /\ \E t \in Tokens :
       /\ call' = [call EXCEPT ![w] = [token |-> t, db |-> NoDb]]
       /\ during' = [during EXCEPT ![w] = {Value(t)}]
  /\ at' = [at EXCEPT ![w] = 1]
  /\ pc' = [pc EXCEPT ![w] = "get"]
  /\ UNCHANGED <<slots, result, asked, clashed, broken, deaths>>

Return(w, text) ==
  /\ result' = [result EXCEPT ![w] = text]
  /\ UNCHANGED <<slots, call, at, asked, broken, deaths>>
  /\ Moves(w, "got")

(* Bug variant: the slot before.                                            *)
BugGetFound(w) ==
  /\ pc[w] = "get" /\ at[w] <= MaxSessions /\ Has(at[w], call[w].token)
  /\ Return(w, current_db[IF at[w] > 1 THEN at[w] - 1 ELSE at[w]])
GetFound(w) ==
  /\ pc[w] = "get" /\ at[w] <= MaxSessions /\ Has(at[w], call[w].token)
  /\ Return(w, current_db[at[w]])

GetNext(w) ==
  /\ pc[w] = "get" /\ at[w] <= MaxSessions /\ ~Has(at[w], call[w].token)
  /\ at' = [at EXCEPT ![w] = @ + 1]
  /\ UNCHANGED <<slots, call, result, asked, broken, deaths>>
  /\ Moves(w, "get")

GetNothing(w) ==
  /\ pc[w] = "get" /\ at[w] > MaxSessions
  /\ Return(w, Text(NoDb))

Got(w) ==
  /\ pc[w] = "got"
  /\ result' = [result EXCEPT ![w] = Text(NoDb)]
  /\ UNCHANGED <<slots, call, at, asked, broken, deaths>>
  /\ Moves(w, "idle")

-----------------------------------------------------------------------------
(* The worker is killed inside a call; a new one takes its place.           *)
Dies(w) ==
  /\ pc[w] \in Setting /\ deaths < MaxDeaths
  /\ broken' = IF pc[w] = "db2" THEN broken \cup {call[w].token} ELSE broken
  /\ deaths' = deaths + 1
  /\ UNCHANGED <<slots, call, at, result, asked>>
  /\ Moves(w, "idle")

(* The constructor of AsyncManager zeroes the shared memory.                *)
Init ==
  /\ is_active = [i \in Slots |-> FALSE]
  /\ session_token = [i \in Slots |-> Text(NoToken)]
  /\ current_db = [i \in Slots |-> Text(NoDb)]
  /\ pc = [w \in Workers |-> "idle"]
  /\ call = [w \in Workers |-> [token |-> NoToken, db |-> NoDb]]
  /\ at = [w \in Workers |-> 1]
  /\ result = [w \in Workers |-> Text(NoDb)]
  /\ during = [w \in Workers |-> {}]
  /\ asked = [t \in Tokens |-> {}]
  /\ clashed = FALSE /\ broken = {} /\ deaths = 0

SetStep(w) == \/ BeginSet(w) \/ FindSlot(w) \/ NotFound(w) \/ FindFree(w)
              \/ NoFreeSlot(w) \/ Claim(w)
              \/ \E half \in 1 .. 2 : WriteToken(w, half) \/ WriteDb(w, half)
GetStep(w) == BeginGet(w) \/ GetFound(w) \/ GetNext(w) \/ GetNothing(w) \/ Got(w)

Next == \E w \in Workers : SetStep(w) \/ GetStep(w) \/ Dies(w)

Spec == Init /\ [][Next]_vars
=============================================================================
