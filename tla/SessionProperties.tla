------------------------- MODULE SessionProperties --------------------------
(***************************************************************************)
(* What the session array keeps without a lock, up to the first time two   *)
(* calls get in each other's way, and what is lost from then on.           *)
(***************************************************************************)
EXTENDS Sessions

DbName == Databases \cup {NoDb}

(* A worker is at a slot where its call can be, and every text is one that  *)
(* was assigned, or two halves of such.                                     *)
TypeOK ==
  /\ is_active \in [Slots -> BOOLEAN]
  /\ session_token \in [Slots -> Texts(Tokens \cup {NoToken})]
  /\ current_db \in [Slots -> Texts(DbName)]
  /\ pc \in [Workers -> {"idle", "get", "got"} \cup Setting]
  /\ call \in [Workers -> [token : Tokens \cup {NoToken}, db : DbName]]
  /\ \A w \in Workers :
       /\ pc[w] \in Setting => call[w].token \in Tokens /\ call[w].db \in Databases
       /\ pc[w] \in Setting \ {"find", "free"} => at[w] \in Slots
  /\ at \in [Workers -> Nat \ {0}]
  /\ result \in [Workers -> Texts(DbName)]
  /\ clashed \in BOOLEAN
  /\ asked \in [Tokens -> SUBSET Databases]

-----------------------------------------------------------------------------
(* Until calls clash, a session has one slot, although the search and the   *)
(* insertion of set_session_db are two loops (AsyncManager.cpp:140-160).    *)
UniqueSlots ==
  ~clashed => \A t \in Tokens, i, j \in Slots : Has(i, t) /\ Has(j, t) => i = j

(* Until calls clash, the database in a session's slot is, half by half,    *)
(* one that was set for this very token (AsyncManager.cpp:143-146, 154-158).*)
OwnDatabase ==
  ~clashed => \A t \in Tokens, i \in Slots, half \in 1 .. 2 :
    Has(i, t) => current_db[i][half] \in asked[t] \cup {NoDb}

(* A worker that looks a session up gets a database the session had while   *)
(* it was looking, or half of one only while another worker was writing it  *)
(* or after that worker was killed there (AsyncManager.cpp:167-172).        *)
GetsAreCurrent ==
  [][\A w \in Workers :
       pc[w] = "get" /\ pc'[w] = "got" /\ ~clashed =>
         LET t == call[w].token IN
         IF result'[w][1] = result'[w][2]
         THEN result'[w][1] \in during[w]
         ELSE \/ t \in broken
              \/ \E v \in Workers : pc[v] = "db2" /\ call[v].token = t]_vars

(* The array does what SessionMap promises: an assignment takes effect when *)
(* the second half of the name is written, and is dropped only if there is  *)
(* no room (AsyncManager.cpp:135-161).                                      *)
Pending(w) ==
  IF pc[w] \in Setting THEN call[w] ELSE [token |-> NoToken, db |-> NoDb]

Map == INSTANCE SessionMap WITH
         Capacity <- MaxSessions,
         value <- [t \in Tokens |-> Value(t)],
         pending <- [w \in Workers |-> Pending(w)],
         lost <- deaths, spoiled <- clashed

ImplementsMap == Map!Spec

=============================================================================
