---------------------------- MODULE SessionProofs ----------------------------
(***************************************************************************)
(* For any number of workers, sessions and slots: until two calls clash, a *)
(* session has one slot, which holds a database set for that session; a    *)
(* lookup returns what the session had while it was looking; and the array *)
(* implements SessionMap.                                                  *)
(***************************************************************************)
EXTENDS SessionProperties, TLAPS, FiniteSetTheorems

-----------------------------------------------------------------------------
(* The inductive invariant.  Its parts describe the array and the place of  *)
(* each call while no calls clash.                                          *)

OneSlot == \A t \in Tokens, i, j \in Slots : Has(i, t) /\ Has(j, t) => i = j

OwnDb == \A t \in Tokens, i \in Slots, half \in 1 .. 2 :
           Has(i, t) => current_db[i][half] \in asked[t] \cup {NoDb}

(* A slot that is not in use is empty, and one without a token has no       *)
(* database.                                                                *)
Fresh == \A i \in Slots :
  /\ ~is_active[i] => session_token[i] = Text(NoToken)
  /\ (\A t \in Tokens : ~Has(i, t)) => current_db[i] = Text(NoDb)

Filling == {"token1", "token2"}

(* No two workers fill one slot.                                            *)
Apart == \A v, w \in Workers :
  v # w /\ pc[v] \in Filling /\ pc[w] \in Filling => at[v] # at[w]

Place(w) ==
  LET t == call[w].token IN
  /\ pc[w] \in Setting => call[w].db \in asked[t]
  /\ pc[w] = "find" => \A i \in Slots : i < at[w] => ~Has(i, t)
  /\ pc[w] \in Searching \cup Filling => \A i \in Slots : ~Has(i, t)
  /\ pc[w] = "claim" => ~is_active[at[w]]
  /\ pc[w] \in Filling => /\ is_active[at[w]]
                          /\ session_token[at[w]][2] = NoToken
  /\ pc[w] = "token2" => session_token[at[w]][1] = t
  /\ pc[w] \in {"db1", "db2"} => Has(at[w], t)

Safe == /\ OneSlot /\ OwnDb /\ Fresh /\ Apart
        /\ \A w \in Workers : Place(w)

IInv == TypeOK /\ (~clashed => ~Clash /\ Safe)

-----------------------------------------------------------------------------
(* A text is a token exactly if both its halves are.                        *)
LEMMA WholeText ==
  ASSUME NEW S, NEW x \in Texts(S), NEW y
  PROVE  x = Text(y) <=> x[1] = y /\ x[2] = y
BY DEF Texts, Text

(* A text of a set's members is one of its texts.                           *)
LEMMA TextType ==
  ASSUME NEW S, NEW y \in S
  PROVE  Text(y) \in Texts(S)
BY DEF Texts, Text

(* A slot with a token has no other one.                                    *)
LEMMA OneToken ==
  ASSUME TypeOK, NEW i \in Slots, NEW t \in Tokens, NEW u \in Tokens,
         Has(i, t), Has(i, u)
  PROVE  t = u
BY DEF Has, Text

(* Moves keeps the types of what it changes, and no clash has occurred      *)
(* after it only if there was none before and there is none now.            *)
LEMMA MovesFrame ==
  ASSUME TypeOK, NEW w \in Workers, NEW where, Moves(w, where),
         where \in {"idle", "get", "got"} \cup Setting
  PROVE  /\ pc' \in [Workers -> {"idle", "get", "got"} \cup Setting]
         /\ pc'[w] = where
         /\ \A v \in Workers \ {w} : pc'[v] = pc[v]
         /\ clashed' \in BOOLEAN
         /\ ~clashed' => ~clashed /\ ~Clash'
<1>1. pc' = [pc EXCEPT ![w] = where] /\ pc \in [Workers -> {"idle", "get", "got"} \cup Setting]
  BY DEF Moves, TypeOK
<1>2. clashed' = (clashed \/ Clash')
  BY DEF Moves
<1>3. clashed' \in BOOLEAN
  BY <1>2, Zenon
<1> QED BY <1>1, <1>2, <1>3

(* A step that leaves the array alone keeps the invariant if the worker     *)
(* that takes it is in its new place.                                       *)
LEMMA ArrayUnchanged ==
  ASSUME TypeOK, Safe, UNCHANGED slots, NEW w \in Workers,
         pc'[w] \notin Filling,
         \A v \in Workers \ {w} :
           pc'[v] = pc[v] /\ call'[v] = call[v] /\ at'[v] = at[v],
         \A t \in Tokens : asked[t] \subseteq asked'[t],
         TypeOK', Place(w)'
  PROVE  Safe'
<1>1. \A i, t : Has(i, t)' <=> Has(i, t)
  BY DEF Has, slots
<1>2. OneSlot' /\ OwnDb' /\ Fresh'
  BY <1>1 DEF Safe, OneSlot, OwnDb, Fresh, slots
<1>3. Apart'
  BY DEF Safe, Apart
<1>4. ASSUME NEW v \in Workers \ {w} PROVE Place(v)'
  <2>1. pc[v] \in Setting => call[v].token \in Tokens
    BY DEF TypeOK
  <2> QED BY <1>1, <2>1 DEF Safe, Place, slots
<1> QED BY <1>2, <1>3, <1>4 DEF Safe

-----------------------------------------------------------------------------
LEMMA InitIInv == Init => IInv
<1> SUFFICES ASSUME Init PROVE IInv
  OBVIOUS
<1>1. Text(NoToken) \in Texts(Tokens \cup {NoToken}) /\ Text(NoDb) \in Texts(DbName)
  BY TextType DEF DbName
<1>2. \A w \in Workers : pc[w] = "idle"
  BY DEF Init
<1>3. TypeOK
  <2>1. pc \in [Workers -> {"idle", "get", "got"} \cup Setting]
    BY DEF Init
  <2>2. call \in [Workers -> [token : Tokens \cup {NoToken}, db : DbName]]
    BY DEF Init, DbName
  <2>3. "idle" \notin Setting
    BY DEF Setting, Searching
  <2>4. /\ session_token \in [Slots -> Texts(Tokens \cup {NoToken})]
        /\ current_db \in [Slots -> Texts(DbName)]
        /\ result \in [Workers -> Texts(DbName)]
    BY <1>1 DEF Init
  <2>6. at \in [Workers -> Nat \ {0}] /\ asked \in [Tokens -> SUBSET Databases]
    BY DEF Init
  <2>7. is_active \in [Slots -> BOOLEAN] /\ clashed \in BOOLEAN
    BY Zenon DEF Init
  <2>5. \A w \in Workers : pc[w] \notin Setting
    BY <1>2, <2>3
  <2> QED BY <2>1, <2>2, <2>4, <2>5, <2>6, <2>7 DEF TypeOK
<1>4. \A i \in Slots : \A t : ~Has(i, t)
  BY DEF Init, Has
<1>5. Safe
  <2>1. \A w \in Workers : Place(w)
    BY <1>2 DEF Place, Setting, Searching, Filling
  <2> QED BY <1>2, <1>4, <2>1 DEF Init, Safe, OneSlot, OwnDb, Fresh, Apart, Filling
<1>6. ~Clash
  BY <1>2 DEF Clash, Setting, Searching
<1> QED BY <1>3, <1>5, <1>6 DEF IInv

-----------------------------------------------------------------------------
(* set_session_db's two searches.                                           *)

LEMMA BeginSetStep ==
  ASSUME IInv, NEW w \in Workers, BeginSet(w)
  PROVE  IInv'
<1> USE DEF IInv
<1>1. PICK t \in Tokens, d \in Databases :
        /\ call' = [call EXCEPT ![w] = [token |-> t, db |-> d]]
        /\ asked' = [asked EXCEPT ![t] = @ \cup {d}]
  BY DEF BeginSet
<1>2. Moves(w, "find") /\ at' = [at EXCEPT ![w] = 1]
      /\ UNCHANGED <<slots, result>>
  BY DEF BeginSet
<1>3. "find" \in Setting \ Filling
  BY DEF Setting, Searching, Filling
<1>4. /\ pc' \in [Workers -> {"idle", "get", "got"} \cup Setting]
      /\ pc'[w] = "find"
      /\ \A v \in Workers \ {w} : pc'[v] = pc[v]
      /\ clashed' \in BOOLEAN
      /\ ~clashed' => ~clashed /\ ~Clash'
  BY <1>2, <1>3, MovesFrame
<1>5. /\ call'[w] = [token |-> t, db |-> d] /\ at'[w] = 1
      /\ \A v \in Workers \ {w} : call'[v] = call[v] /\ at'[v] = at[v]
      /\ d \in asked'[t] /\ \A u \in Tokens : asked[u] \subseteq asked'[u]
  BY <1>1, <1>2 DEF TypeOK
<1>6. TypeOK'
  <2>1. /\ call' \in [Workers -> [token : Tokens \cup {NoToken}, db : DbName]]
        /\ at' \in [Workers -> Nat \ {0}]
        /\ asked' \in [Tokens -> SUBSET Databases]
    BY <1>1, <1>2 DEF TypeOK, DbName
  <2>2. \A v \in Workers :
          /\ pc'[v] \in Setting => call'[v].token \in Tokens /\ call'[v].db \in Databases
          /\ pc'[v] \in Setting \ {"find", "free"} => at'[v] \in Slots
    BY <1>4, <1>5 DEF TypeOK
  <2>3. UNCHANGED <<is_active, session_token, current_db, result>>
    BY <1>2 DEF slots
  <2> QED BY <1>4, <2>1, <2>2, <2>3 DEF TypeOK
<1>7. ASSUME ~clashed' PROVE Safe'
  <2>1. Place(w)'
    BY <1>3, <1>4, <1>5 DEF Place, Searching, Filling, Slots
  <2> QED BY <1>2, <1>3, <1>4, <1>5, <1>6, <1>7, <2>1, ArrayUnchanged
<1> QED BY <1>4, <1>6, <1>7

(* The steps that change only where a call is.                              *)
Steps(w, where) ==
  /\ Moves(w, where)
  /\ UNCHANGED <<slots, call, asked>>
  /\ \A v \in Workers \ {w} : at'[v] = at[v]
  /\ at' \in [Workers -> Nat \ {0}]
  /\ result' \in [Workers -> Texts(DbName)]

LEMMA StepsKeep ==
  ASSUME IInv, NEW w \in Workers, NEW where, Steps(w, where),
         where \in {"idle", "get", "got"} \cup Setting, where \notin Filling,
         where \in Setting => pc[w] \in Setting,
         where \in Setting \ {"find", "free"} => at'[w] \in Slots,
         ~clashed /\ Safe => Place(w)'
  PROVE  IInv'
<1> USE DEF IInv
<1>1. /\ pc' \in [Workers -> {"idle", "get", "got"} \cup Setting]
      /\ pc'[w] = where
      /\ \A v \in Workers \ {w} : pc'[v] = pc[v]
      /\ clashed' \in BOOLEAN
      /\ ~clashed' => ~clashed /\ ~Clash'
  BY MovesFrame DEF Steps
<1>2. TypeOK'
  BY <1>1 DEF TypeOK, Steps, slots
<1>3. ASSUME ~clashed' PROVE Safe'
  BY <1>1, <1>2, <1>3, ArrayUnchanged DEF Steps
<1> QED BY <1>1, <1>2, <1>3

LEMMA FindSlotStep ==
  ASSUME IInv, NEW w \in Workers, FindSlot(w)
  PROVE  IInv'
<1> DEFINE where == IF Has(at[w], call[w].token) THEN "db1" ELSE "find"
<1>1. at[w] \in Slots
  BY SessionsAssumption DEF FindSlot, IInv, TypeOK, Slots
<1>2. Steps(w, where)
  BY SessionsAssumption DEF FindSlot, Steps, IInv, TypeOK
<1>3. at'[w] = IF Has(at[w], call[w].token) THEN at[w] ELSE at[w] + 1
  BY DEF FindSlot, IInv, TypeOK
<1>4. pc'[w] = where
  BY DEF FindSlot, Moves, IInv, TypeOK
<1>5. ASSUME ~clashed, Safe PROVE Place(w)'
  <2>1. Place(w) /\ pc[w] = "find"
    BY <1>5 DEF Safe, FindSlot
  <2>2. \A i, t : Has(i, t)' <=> Has(i, t)
    BY <1>2 DEF Has, Steps, slots
  <2>3. call'[w] = call[w] /\ asked' = asked
    BY <1>2 DEF Steps
  <2>4. ASSUME where = "find", NEW i \in Slots, i < at'[w]
        PROVE  ~Has(i, call[w].token)
    <3>1. i < at[w] \/ i = at[w]
      BY <1>1, <1>3, <2>4 DEF Slots
    <3> QED BY <2>1, <2>4, <3>1 DEF Place
  <2> QED BY <1>3, <1>4, <2>1, <2>2, <2>3, <2>4 DEF Place, Setting, Searching, Filling
<1> HIDE DEF where
<1>6. where \in {"db1", "find"}
  BY DEF where
<1> QED BY <1>1, <1>2, <1>3, <1>5, <1>6, StepsKeep DEF FindSlot, Setting, Searching, Filling, where

LEMMA NotFoundStep ==
  ASSUME IInv, NEW w \in Workers, NotFound(w)
  PROVE  IInv'
<1>1. Steps(w, "free") /\ at'[w] = 1 /\ pc'[w] = "free"
  BY DEF NotFound, Steps, Moves, IInv, TypeOK
<1>2. ASSUME ~clashed, Safe PROVE Place(w)'
  <2>1. Place(w) /\ pc[w] = "find" /\ \A i \in Slots : i < at[w]
    BY <1>2, SessionsAssumption DEF Safe, NotFound, IInv, TypeOK, Slots
  <2>2. \A i, t : Has(i, t)' <=> Has(i, t)
    BY <1>1 DEF Has, Steps, slots
  <2> QED BY <1>1, <2>1, <2>2 DEF Place, Steps, Setting, Searching, Filling
<1> QED BY <1>1, <1>2, StepsKeep DEF NotFound, Setting, Searching, Filling

LEMMA FindFreeStep ==
  ASSUME IInv, NEW w \in Workers, FindFree(w)
  PROVE  IInv'
<1> DEFINE where == IF is_active[at[w]] THEN "free" ELSE "claim"
<1>1. at[w] \in Slots
  BY SessionsAssumption DEF FindFree, IInv, TypeOK, Slots
<1>2. Steps(w, where)
  BY SessionsAssumption DEF FindFree, Steps, IInv, TypeOK
<1>3. at'[w] = (IF is_active[at[w]] THEN at[w] + 1 ELSE at[w]) /\ pc'[w] = where
  BY DEF FindFree, Moves, IInv, TypeOK
<1>4. ASSUME ~clashed, Safe PROVE Place(w)'
  <2>1. Place(w) /\ pc[w] = "free"
    BY <1>4 DEF Safe, FindFree
  <2>2. \A i, t : Has(i, t)' <=> Has(i, t)
    BY <1>2 DEF Has, Steps, slots
  <2>3. call'[w] = call[w] /\ asked' = asked /\ is_active' = is_active
    BY <1>2 DEF Steps, slots
  <2> QED BY <1>3, <2>1, <2>2, <2>3 DEF Place, Setting, Searching, Filling
<1> HIDE DEF where
<1>5. where \in {"free", "claim"}
  BY DEF where
<1> QED BY <1>1, <1>2, <1>3, <1>4, <1>5, StepsKeep DEF FindFree, Setting, Searching, Filling, where

(* The steps after which no assignment is under way, and those of           *)
(* get_session_db.                                                          *)
LEMMA OutsideSteps ==
  ASSUME IInv, NEW w \in Workers, NEW where \in {"idle", "get", "got"},
         Steps(w, where)
  PROVE  IInv'
<1>1. where \notin Setting /\ where \notin Filling
  BY DEF Setting, Searching, Filling
<1>2. pc'[w] = where
  BY DEF Steps, Moves, IInv, TypeOK
<1>3. Place(w)'
  BY <1>1, <1>2 DEF Place, Setting, Searching, Filling
<1> QED BY <1>1, <1>3, StepsKeep

LEMMA BeginGetStep ==
  ASSUME IInv, NEW w \in Workers, BeginGet(w)
  PROVE  IInv'
<1> USE DEF IInv
<1>1. PICK t \in Tokens : call' = [call EXCEPT ![w] = [token |-> t, db |-> NoDb]]
  BY DEF BeginGet
<1>2. /\ pc'[w] = "get" /\ "get" \notin Setting /\ "get" \notin Filling
      /\ \A v \in Workers \ {w} :
           pc'[v] = pc[v] /\ call'[v] = call[v] /\ at'[v] = at[v]
  BY <1>1 DEF BeginGet, TypeOK, Setting, Searching, Filling
<1>3. TypeOK'
  <2>1. /\ call' \in [Workers -> [token : Tokens \cup {NoToken}, db : DbName]]
        /\ at' \in [Workers -> Nat \ {0}]
        /\ pc' \in [Workers -> {"idle", "get", "got"} \cup Setting]
    BY <1>1 DEF BeginGet, TypeOK, DbName
  <2> QED BY <1>2, <2>1 DEF BeginGet, TypeOK, slots
<1>4. ASSUME ~Clash PROVE ~Clash'
  BY <1>2, <1>4 DEF Clash
<1>5. ASSUME Safe PROVE Safe'
  <2>1. Place(w)'
    BY <1>2 DEF Place, Setting, Searching, Filling
  <2>2. UNCHANGED slots /\ asked' = asked
    BY DEF BeginGet
  <2> QED BY <1>2, <1>3, <1>5, <2>1, <2>2, ArrayUnchanged
<1> QED BY <1>3, <1>4, <1>5 DEF BeginGet

LEMMA ReturnStep ==
  ASSUME IInv, NEW w \in Workers, NEW text \in Texts(DbName), Return(w, text)
  PROVE  IInv'
<1>1. Steps(w, "got")
  BY DEF Return, Steps, IInv, TypeOK
<1> QED BY <1>1, OutsideSteps

LEMMA GetSteps ==
  ASSUME IInv, NEW w \in Workers, GetStep(w)
  PROVE  IInv'
<1>1. CASE BeginGet(w)
  BY <1>1, BeginGetStep
<1>2. CASE GetFound(w)
  <2>1. current_db[at[w]] \in Texts(DbName)
    BY <1>2, SessionsAssumption DEF GetFound, IInv, TypeOK, Slots
  <2> QED BY <1>2, <2>1, ReturnStep DEF GetFound
<1>3. CASE GetNext(w)
  <2>1. Steps(w, "get")
    BY <1>3 DEF GetNext, Steps, IInv, TypeOK
  <2> QED BY <2>1, OutsideSteps
<1>4. CASE GetNothing(w)
  BY <1>4, TextType, ReturnStep DEF GetNothing, DbName
<1>5. CASE Got(w)
  <2>1. Steps(w, "idle")
    BY <1>5, TextType DEF Got, Steps, IInv, TypeOK, DbName
  <2> QED BY <2>1, OutsideSteps
<1> QED BY <1>1, <1>2, <1>3, <1>4, <1>5 DEF GetStep
LEMMA BrokenOff ==
  ASSUME IInv, NEW w \in Workers, NoFreeSlot(w) \/ Dies(w)
  PROVE  IInv'
<1>1. Steps(w, "idle")
  BY DEF NoFreeSlot, Dies, Steps, IInv, TypeOK
<1> QED BY <1>1, OutsideSteps

-----------------------------------------------------------------------------
(* The steps that write the array.                                          *)

LEMMA ClaimStep ==
  ASSUME IInv, NEW w \in Workers, Claim(w)
  PROVE  IInv'
<1> USE DEF IInv
<1> DEFINE n == at[w]
<1>1. /\ n \in Slots /\ pc[w] = "claim"
      /\ is_active' = [is_active EXCEPT ![n] = TRUE]
      /\ UNCHANGED <<session_token, current_db, call, at, result, asked>>
      /\ Moves(w, "token1")
  BY DEF Claim, TypeOK, Setting, Searching
<1> HIDE DEF n
<1>2. /\ pc' \in [Workers -> {"idle", "get", "got"} \cup Setting]
      /\ pc'[w] = "token1"
      /\ \A v \in Workers \ {w} : pc'[v] = pc[v]
      /\ clashed' \in BOOLEAN
      /\ ~clashed' => ~clashed /\ ~Clash'
  BY <1>1, MovesFrame DEF Setting
<1>3. TypeOK'
  <2>1. is_active' \in [Slots -> BOOLEAN]
    BY <1>1, Zenon DEF TypeOK
  <2>2. \A v \in Workers :
          /\ pc'[v] \in Setting => call[v].token \in Tokens /\ call[v].db \in Databases
          /\ pc'[v] \in Setting \ {"find", "free"} => at[v] \in Slots
    BY <1>1, <1>2 DEF TypeOK, Setting, Searching
  <2> QED BY <1>1, <1>2, <2>1, <2>2 DEF TypeOK
<1>4. ASSUME ~clashed' PROVE Safe'
  <2>1. Safe /\ Place(w) /\ ~Clash
    BY <1>2, <1>4 DEF Safe
  <2>2. ~is_active[n] /\ session_token[n] = Text(NoToken)
    BY <1>1, <2>1 DEF Safe, Fresh, Place, n
  <2>3. \A i \in Slots, t \in Tokens : Has(i, t)' <=> Has(i, t)
    <3>1. \A t \in Tokens : Text(t) # Text(NoToken)
      BY SessionsAssumption DEF Text
    <3> QED BY <1>1, <2>2, <3>1 DEF Has, TypeOK
  <2>4. OneSlot' /\ OwnDb' /\ Fresh'
    BY <1>1, <2>1, <2>3 DEF Safe, OneSlot, OwnDb, Fresh, TypeOK
  <2>5. ASSUME NEW v \in Workers, pc[v] \in Filling, v # w
        PROVE  at[v] # n
    BY <2>1, <2>2, <2>5 DEF Safe, Place
  <2>6. Apart'
    BY <1>1, <1>2, <2>1, <2>5 DEF Safe, Apart, n
  <2>7. Place(w)'
    <3>1. call[w].token \in Tokens
      BY <1>1 DEF TypeOK, Setting, Searching
    <3>2. session_token[n][2] = NoToken
      BY <2>2 DEF Text
    <3> QED BY <1>1, <1>2, <2>1, <2>3, <3>1, <3>2
            DEF Place, Setting, Searching, Filling, n, TypeOK
  <2>8. ASSUME NEW v \in Workers \ {w} PROVE Place(v)'
    <3>1. Place(v) /\ pc'[v] = pc[v]
      BY <1>2, <2>1, <2>8 DEF Safe
    <3>2. pc[v] \in Setting => call[v].token \in Tokens
      BY DEF TypeOK
    <3>3. pc[v] # "claim"
      BY <1>1, <2>1, <2>8 DEF Clash, Setting, Searching
    <3>4. pc[v] \in Setting \ {"find", "free"} => at[v] \in Slots
      BY DEF TypeOK
    <3>5. pc[v] \in Filling => is_active'[at[v]]
      BY <1>1, <3>1, <3>4 DEF Place, TypeOK, Filling, Setting
    <3>6. pc[v] \in {"db1", "db2"} => Has(at[v], call[v].token)'
      BY <1>1, <2>3, <3>1, <3>2, <3>4 DEF Place, Setting
    <3> QED BY <1>1, <2>3, <3>1, <3>2, <3>3, <3>5, <3>6
            DEF Place, Setting, Searching, Filling
  <2> QED BY <2>4, <2>6, <2>7, <2>8 DEF Safe
<1> QED BY <1>2, <1>3, <1>4
LEMMA WriteTokenStep ==
  ASSUME IInv, NEW w \in Workers, NEW half \in 1 .. 2, WriteToken(w, half)
  PROVE  IInv'
<1> USE DEF IInv
<1> DEFINE n == at[w]
           t == call[w].token
           where == IF half = 1 THEN "token2" ELSE "db1"
<1>1. /\ n \in Slots /\ t \in Tokens
      /\ pc[w] = IF half = 1 THEN "token1" ELSE "token2"
      /\ session_token' = [session_token EXCEPT ![n][half] = t]
      /\ UNCHANGED <<is_active, current_db, call, at, result, asked>>
      /\ Moves(w, where)
  BY DEF WriteToken, TypeOK, Setting, Searching
<1>2. session_token[n] \in Texts(Tokens \cup {NoToken})
  BY <1>1 DEF TypeOK
<1>3. where \in Setting
  BY DEF Setting
<1> HIDE DEF n, t, where
<1>4. /\ pc' \in [Workers -> {"idle", "get", "got"} \cup Setting]
      /\ pc'[w] = where
      /\ \A v \in Workers \ {w} : pc'[v] = pc[v]
      /\ clashed' \in BOOLEAN
      /\ ~clashed' => ~clashed /\ ~Clash'
  BY <1>1, <1>3, MovesFrame
<1>5. /\ session_token' \in [Slots -> Texts(Tokens \cup {NoToken})]
      /\ \A i \in Slots \ {n} : session_token'[i] = session_token[i]
      /\ session_token'[n][half] = t
      /\ \A h \in 1 .. 2 : h # half => session_token'[n][h] = session_token[n][h]
  <2>1. session_token \in [Slots -> Texts(Tokens \cup {NoToken})]
    BY DEF TypeOK
  <2>2. [session_token[n] EXCEPT ![half] = t] \in Texts(Tokens \cup {NoToken})
    BY <1>1, <1>2 DEF Texts
  <2> QED BY <1>1, <1>2, <2>1, <2>2 DEF Texts
<1>6. TypeOK'
  <2>1. \A v \in Workers :
          /\ pc'[v] \in Setting => call[v].token \in Tokens /\ call[v].db \in Databases
          /\ pc'[v] \in Setting \ {"find", "free"} => at[v] \in Slots
    BY <1>1, <1>4 DEF TypeOK, Setting, Searching
  <2> QED BY <1>1, <1>4, <1>5, <2>1 DEF TypeOK
<1>7. ASSUME ~clashed' PROVE Safe'
  <2>1. Safe /\ Place(w) /\ ~Clash
    BY <1>4, <1>7 DEF Safe
  <2>2. /\ is_active[n] /\ session_token[n][2] = NoToken
        /\ half = 2 => session_token[n][1] = t
        /\ \A i \in Slots : ~Has(i, t)
    BY <1>1, <2>1 DEF Place, Filling, n, t
  <2>3. \A u \in Tokens : ~Has(n, u)
    BY <2>2, SessionsAssumption DEF Has, Text
  <2>4. \A i \in Slots, u \in Tokens : i = n => (Has(i, u)' <=> half = 2 /\ u = t)
    <3> SUFFICES ASSUME NEW u \in Tokens
                 PROVE  is_active'[n] /\ session_token'[n] = Text(u) <=> half = 2 /\ u = t
      BY DEF Has
    <3>1. session_token'[n] \in Texts(Tokens \cup {NoToken})
      BY <1>1, <1>5
    <3>2. session_token'[n] = Text(u)
            <=> session_token'[n][1] = u /\ session_token'[n][2] = u
      BY <3>1, WholeText
    <3>3. CASE half = 1
      <4>1. session_token'[n][2] = NoToken
        BY <1>5, <2>2, <3>3
      <4> QED BY <3>2, <3>3, <4>1, SessionsAssumption
    <3>4. CASE half = 2
      <4>1. session_token'[n][1] = t /\ session_token'[n][2] = t
        BY <1>5, <2>2, <3>4
      <4> QED BY <1>1, <2>2, <3>2, <3>4, <4>1
    <3> QED BY <3>3, <3>4
  <2>5. \A i \in Slots \ {n}, u \in Tokens : Has(i, u)' <=> Has(i, u)
    BY <1>1, <1>5 DEF Has
  <2>6. current_db[n] = Text(NoDb)
    BY <1>1, <2>1, <2>3 DEF Safe, Fresh
  <2>7. OneSlot'
    BY <1>1, <2>1, <2>2, <2>4, <2>5 DEF Safe, OneSlot
  <2>8. OwnDb'
    BY <1>1, <2>1, <2>4, <2>5, <2>6 DEF Safe, OwnDb, Text
  <2>9. Fresh'
    BY <1>1, <1>5, <2>1, <2>2, <2>5, <2>6 DEF Safe, Fresh
  <2>10. Apart'
    BY <1>1, <1>4, <2>1 DEF Safe, Apart, Filling, where
  <2>11. Place(w)'
    <3>1. call[w].db \in asked[t]
      BY <1>1, <2>1 DEF Place, Setting, t
    <3>2. CASE half = 1
      BY <1>1, <1>4, <1>5, <2>2, <2>4, <2>5, <3>1, <3>2
         DEF Place, Setting, Searching, Filling, where, n, t
    <3>3. CASE half = 2
      BY <1>1, <1>4, <2>4, <3>1, <3>3
         DEF Place, Setting, Searching, Filling, where, n, t
    <3> QED BY <3>2, <3>3
  <2>12. ASSUME NEW v \in Workers \ {w} PROVE Place(v)'
    <3>1. Place(v) /\ pc'[v] = pc[v]
      BY <1>4, <2>1, <2>12 DEF Safe
    <3>2. /\ pc[v] \in Setting => call[v].token \in Tokens
          /\ pc[v] \in Setting \ {"find", "free"} => at[v] \in Slots
      BY DEF TypeOK
    <3>3. pc[v] \in Setting => call[v].token # t
      BY <1>1, <2>1, <2>12 DEF Clash, Setting, t
    <3>4. \A i \in Slots : pc[v] \in Setting =>
            (Has(i, call[v].token)' <=> Has(i, call[v].token))
      BY <1>1, <2>3, <2>4, <2>5, <3>2, <3>3
    <3>5. pc[v] \in Filling => at[v] # n
      BY <1>1, <2>1, <2>12 DEF Safe, Apart, Filling, n
    <3>6. pc[v] \in Filling => session_token'[at[v]] = session_token[at[v]]
      BY <1>5, <3>2, <3>5 DEF Filling, Setting
    <3>7. pc[v] \in {"db1", "db2"} => Has(at[v], call[v].token)'
      BY <1>1, <3>1, <3>2, <3>4 DEF Place, Setting
    <3> QED BY <1>1, <3>1, <3>4, <3>6, <3>7
            DEF Place, Setting, Searching, Filling
  <2> QED BY <2>7, <2>8, <2>9, <2>10, <2>11, <2>12 DEF Safe
<1> QED BY <1>4, <1>6, <1>7

LEMMA WriteDbStep ==
  ASSUME IInv, NEW w \in Workers, NEW half \in 1 .. 2, WriteDb(w, half)
  PROVE  IInv'
<1> USE DEF IInv
<1> DEFINE n == at[w]
           t == call[w].token
           d == call[w].db
           where == IF half = 1 THEN "db2" ELSE "idle"
<1>1. /\ n \in Slots /\ t \in Tokens /\ d \in Databases
      /\ pc[w] = IF half = 1 THEN "db1" ELSE "db2"
      /\ current_db' = [current_db EXCEPT ![n][half] = d]
      /\ UNCHANGED <<is_active, session_token, call, at, result, asked>>
      /\ Moves(w, where)
  BY DEF WriteDb, TypeOK, Setting, Searching
<1>2. where \in {"idle"} \cup Setting /\ where \notin Filling
  BY DEF Setting, Searching, Filling
<1> HIDE DEF n, t, d, where
<1>3. /\ pc' \in [Workers -> {"idle", "get", "got"} \cup Setting]
      /\ pc'[w] = where
      /\ \A v \in Workers \ {w} : pc'[v] = pc[v]
      /\ clashed' \in BOOLEAN
      /\ ~clashed' => ~clashed /\ ~Clash'
  BY <1>1, <1>2, MovesFrame
<1>4. /\ current_db' \in [Slots -> Texts(DbName)]
      /\ \A i \in Slots \ {n} : current_db'[i] = current_db[i]
      /\ current_db'[n][half] = d
      /\ \A h \in 1 .. 2 : h # half => current_db'[n][h] = current_db[n][h]
  <2>1. current_db \in [Slots -> Texts(DbName)] /\ current_db[n] \in Texts(DbName)
    BY <1>1 DEF TypeOK
  <2>2. [current_db[n] EXCEPT ![half] = d] \in Texts(DbName)
    BY <1>1, <2>1 DEF Texts, DbName
  <2> QED BY <1>1, <2>1, <2>2 DEF Texts
<1>5. TypeOK'
  <2>1. \A v \in Workers :
          /\ pc'[v] \in Setting => call[v].token \in Tokens /\ call[v].db \in Databases
          /\ pc'[v] \in Setting \ {"find", "free"} => at[v] \in Slots
    BY <1>1, <1>3 DEF TypeOK, Setting, Searching
  <2> QED BY <1>1, <1>3, <1>4, <2>1 DEF TypeOK
<1>6. ASSUME ~clashed' PROVE Safe'
  <2>1. Safe /\ Place(w)
    BY <1>3, <1>6 DEF Safe
  <2>2. Has(n, t) /\ d \in asked[t]
    BY <1>1, <2>1 DEF Place, Setting, n, t, d
  <2>3. \A i, u : Has(i, u)' <=> Has(i, u)
    BY <1>1 DEF Has
  <2>4. OneSlot' /\ Fresh'
    BY <1>1, <1>4, <2>1, <2>2, <2>3 DEF Safe, OneSlot, Fresh
  <2>5. OwnDb'
    <3> SUFFICES ASSUME NEW u \in Tokens, NEW i \in Slots, NEW h \in 1 .. 2,
                        Has(i, u)
                 PROVE  current_db'[i][h] \in asked[u] \cup {NoDb}
      BY <1>1, <2>3 DEF OwnDb
    <3>1. current_db[i][h] \in asked[u] \cup {NoDb}
      BY <2>1 DEF Safe, OwnDb
    <3>2. CASE i = n /\ h = half
      BY <1>1, <1>4, <2>2, <3>2, OneToken
    <3>3. CASE i # n \/ h # half
      BY <1>1, <1>4, <3>1, <3>3
    <3> QED BY <3>2, <3>3
  <2>6. Apart'
    BY <1>1, <1>2, <1>3, <2>1 DEF Safe, Apart
  <2>7. Place(w)'
    BY <1>1, <1>3, <2>2, <2>3 DEF Place, Setting, Searching, Filling, where, n, t, d
  <2>8. ASSUME NEW v \in Workers \ {w} PROVE Place(v)'
    BY <1>1, <1>3, <2>1, <2>3, <2>8 DEF Safe, Place
  <2> QED BY <2>4, <2>5, <2>6, <2>7, <2>8 DEF Safe
<1> QED BY <1>3, <1>5, <1>6

-----------------------------------------------------------------------------
LEMMA NextIInv == IInv /\ [Next]_vars => IInv'
<1>1. ASSUME IInv, Next PROVE IInv'
  <2>1. PICK w \in Workers : SetStep(w) \/ GetStep(w) \/ Dies(w)
    BY <1>1 DEF Next
  <2>2. CASE SetStep(w)
    BY <1>1, <2>2, BeginSetStep, FindSlotStep, NotFoundStep, FindFreeStep,
       BrokenOff, ClaimStep, WriteTokenStep, WriteDbStep DEF SetStep
  <2> QED BY <1>1, <2>1, <2>2, GetSteps, BrokenOff
<1>2. ASSUME IInv, UNCHANGED vars PROVE IInv'
  <2>1. UNCHANGED <<is_active, session_token, current_db, pc, call, at, result,
                    asked, clashed>>
    BY <1>2 DEF vars, slots, history
  <2>2. \A i, t : Has(i, t)' <=> Has(i, t)
    BY <2>1 DEF Has
  <2>3. TypeOK'
    BY <1>2, <2>1 DEF IInv, TypeOK
  <2>4. Clash' <=> Clash
    BY <2>1 DEF Clash
  <2>5. Safe => OneSlot' /\ OwnDb' /\ Fresh' /\ Apart'
    BY <2>1, <2>2 DEF Safe, OneSlot, OwnDb, Fresh, Apart
  <2>6. Safe => \A w \in Workers : Place(w)'
    BY <2>1, <2>2 DEF Safe, Place
  <2> QED BY <1>2, <2>1, <2>3, <2>4, <2>5, <2>6 DEF IInv, Safe
<1> QED BY <1>1, <1>2

THEOREM Invariance == Spec => []IInv
BY InitIInv, NextIInv, PTL DEF Spec

(* Every field of the array and of a call keeps its type.                   *)
THEOREM SessionsTypeCorrect == Spec => []TypeOK
<1>1. IInv => TypeOK
  BY DEF IInv
<1> QED BY <1>1, Invariance, PTL

(* Until calls clash, no session has two slots.                             *)
THEOREM UniqueSlotsCorrect == Spec => []UniqueSlots
<1>1. IInv => UniqueSlots
  BY DEF IInv, Safe, OneSlot, UniqueSlots
<1> QED BY <1>1, Invariance, PTL

(* Until calls clash, a session's slot holds a database set for it.         *)
THEOREM OwnDatabaseCorrect == Spec => []OwnDatabase
<1>1. IInv => OwnDatabase
  BY DEF IInv, Safe, OwnDb, OwnDatabase
<1> QED BY <1>1, Invariance, PTL

-----------------------------------------------------------------------------
(***************************************************************************)
(* What a worker gets that looks up the database of a session.             *)
(***************************************************************************)

(* A search has seen every value since it began, and one that has passed    *)
(* the place where its token could be had none to see at some time.         *)
Watching(w) ==
  pc[w] = "get" =>
    /\ call[w].token \in Tokens
    /\ Value(call[w].token) \in during[w]
    /\ NoDb \in during[w]
         \/ \E i \in Slots : i >= at[w] /\ Has(i, call[w].token)

(* Only a call that is still in between, or that broke off there, leaves    *)
(* the halves of a name different.                                          *)
Halves ==
  /\ \A w \in Workers : pc[w] = "db2" => current_db[at[w]][1] = call[w].db
  /\ \A t \in Tokens, i \in Slots :
       Has(i, t) /\ current_db[i][1] # current_db[i][2] =>
         t \in broken \/ \E v \in Workers : pc[v] = "db2" /\ call[v].token = t

GetInv ==
  /\ IInv
  /\ during = [w \in Workers |-> during[w]]
  /\ ~clashed => Halves /\ \A w \in Workers : Watching(w)

Step(w) == SetStep(w) \/ GetStep(w) \/ Dies(w)

(* A slot keeps its token.                                                  *)
LEMMA HasGrows ==
  ASSUME IInv, ~clashed, NEW w \in Workers, Step(w),
         NEW i \in Slots, NEW t \in Tokens, Has(i, t)
  PROVE  Has(i, t)'
<1>1. CASE Claim(w)
  BY <1>1 DEF Claim, Has, IInv, TypeOK
<1>2. ASSUME NEW half \in 1 .. 2, WriteToken(w, half) PROVE Has(i, t)'
  <2>1. session_token[at[w]][2] = NoToken /\ session_token[i][2] # NoToken
    BY <1>2, SessionsAssumption
       DEF WriteToken, IInv, Safe, Place, Filling, Has, Text
  <2> QED BY <1>2, <2>1 DEF WriteToken, Has, IInv, TypeOK
<1>3. CASE UNCHANGED <<is_active, session_token>>
  BY <1>3 DEF Has
<1> QED BY <1>1, <1>2, <1>3 DEF Step, SetStep, GetStep, slots, Dies, BeginSet,
           FindSlot, NotFound, FindFree, NoFreeSlot, WriteDb, BeginGet,
           GetFound, GetNext, GetNothing, Got, Return

(* The value of a token is that of its slot.                                *)
LEMMA ValueOfSlot ==
  ASSUME OneSlot, NEW t \in Tokens, NEW i \in Slots, Has(i, t)
  PROVE  Value(t) = current_db[i][2]
<1>1. \A j \in Slots : Has(j, t) => j = i
  BY DEF OneSlot
<1>2. \A j \in 1 .. i - 1 : j \in Slots /\ j # i
  BY SessionsAssumption DEF Slots
<1>3. First(t) = i
  BY <1>1, <1>2 DEF First
<1> QED BY <1>3 DEF Value

(* As long as the array stays, so do all values.                            *)
LEMMA ValueStays ==
  ASSUME NEW t, UNCHANGED slots
  PROVE  Value(t)' = Value(t)
BY DEF Value, First, Has, slots

(* A token without a slot has no value.                                     *)
LEMMA NoValue ==
  ASSUME NEW t, \A i \in Slots : ~Has(i, t)
  PROVE  Value(t) = NoDb
BY DEF Value

-----------------------------------------------------------------------------
(* A step of one worker leaves the calls of others where they are.          *)
LEMMA OthersStay ==
  ASSUME IInv, NEW w \in Workers, Step(w), NEW v \in Workers \ {w}
  PROVE  call'[v] = call[v] /\ at'[v] = at[v]
<1> USE DEF IInv, TypeOK
<1>1. CASE BeginSet(w)
  BY <1>1 DEF BeginSet
<1>2. CASE BeginGet(w)
  BY <1>2 DEF BeginGet
<1>3. CASE FindSlot(w) \/ NotFound(w) \/ FindFree(w) \/ NoFreeSlot(w)
  BY <1>3 DEF FindSlot, NotFound, FindFree, NoFreeSlot
<1>4. CASE Claim(w) \/ Dies(w)
  BY <1>4 DEF Claim, Dies
<1>5. ASSUME NEW half \in 1 .. 2, WriteToken(w, half) \/ WriteDb(w, half)
      PROVE  call' = call /\ at' = at
  BY <1>5 DEF WriteToken, WriteDb
<1>6. CASE GetFound(w) \/ GetNext(w) \/ GetNothing(w) \/ Got(w)
  BY <1>6 DEF GetFound, GetNext, GetNothing, Got, Return
<1> QED BY <1>1, <1>2, <1>3, <1>4, <1>5, <1>6 DEF Step, SetStep, GetStep

(* A step leaves a search where it is, unless it is the search's own, and   *)
(* adds what the session has then to what it has seen.                      *)
LEMMA SearchSees ==
  ASSUME IInv, NEW w \in Workers, Step(w), ~BeginGet(w),
         NEW v \in Workers, pc'[v] = "get"
  PROVE  /\ pc[v] = "get" /\ call'[v] = call[v]
         /\ during'[v] = during[v] \cup {Value(call[v].token)'}
         /\ at'[v] = at[v] \/ (v = w /\ GetNext(w))
<1>1. PICK where : Moves(w, where) /\ (where = "get" => GetNext(w))
  <2>1. CASE SetStep(w)
    BY <2>1 DEF SetStep, BeginSet, FindSlot, NotFound, FindFree, NoFreeSlot,
         Claim, WriteToken, WriteDb
  <2>2. CASE GetStep(w)
    BY <2>2 DEF GetStep, GetFound, GetNext, GetNothing, Got, Return
  <2>3. CASE Dies(w)
    BY <2>3 DEF Dies
  <2> QED BY <2>1, <2>2, <2>3 DEF Step
<1>2. v = w => GetNext(w)
  BY <1>1 DEF Moves, IInv, TypeOK
<1>3. pc[v] = "get"
  BY <1>1, <1>2 DEF Moves, GetNext, IInv, TypeOK
<1>4. during'[v] = during[v] \cup {Value(call[v].token)'}
  BY <1>1, <1>3 DEF Moves
<1>5. CASE v = w
  BY <1>2, <1>3, <1>4, <1>5 DEF GetNext
<1>6. CASE v # w
  BY <1>3, <1>4, <1>6, OthersStay
<1> QED BY <1>5, <1>6

(* A search goes on past slots that are not its session's.                  *)
LEMMA WatchingKept ==
  ASSUME GetInv, NEW w \in Workers, Step(w), ~BeginGet(w), ~clashed, ~clashed',
         NEW v \in Workers
  PROVE  Watching(v)'
<1> SUFFICES ASSUME pc'[v] = "get" PROVE Watching(v)'
  BY DEF Watching
<1>1. /\ pc[v] = "get" /\ call'[v] = call[v]
      /\ during'[v] = during[v] \cup {Value(call[v].token)'}
      /\ at'[v] = at[v] \/ (v = w /\ GetNext(w))
  BY SearchSees DEF GetInv
<1>2. PICK t \in Tokens : t = call[v].token
  BY <1>1 DEF GetInv, Watching
<1>3. NoDb \in during[v] \/ \E i \in Slots : i >= at[v] /\ Has(i, t)
  BY <1>1, <1>2 DEF GetInv, Watching
<1>4. ASSUME NEW i \in Slots, i >= at[v], Has(i, t)
      PROVE  i >= at'[v] /\ Has(i, t)'
  <2>1. Has(i, t)'
    BY <1>4, HasGrows DEF GetInv
  <2>2. CASE at'[v] = at[v]
    BY <1>4, <2>1, <2>2
  <2>3. CASE v = w /\ GetNext(w)
    <3>1. at'[v] = at[v] + 1 /\ i # at[v]
      BY <1>2, <1>4, <2>3 DEF GetNext, GetInv, IInv, TypeOK
    <3>2. at[v] \in Nat /\ i \in Nat
      BY SessionsAssumption DEF GetInv, IInv, TypeOK, Slots
    <3> QED BY <1>4, <2>1, <3>1, <3>2
  <2> QED BY <1>1, <2>2, <2>3
<1>5. NoDb \in during'[v] \/ \E i \in Slots : i >= at'[v] /\ Has(i, t)'
  BY <1>1, <1>3, <1>4
<1> QED BY <1>1, <1>2, <1>5 DEF Watching

(* A new search sees what the session has.                                  *)
LEMMA WatchingBegins ==
  ASSUME GetInv, NEW w \in Workers, BeginGet(w), ~clashed, NEW v \in Workers
  PROVE  Watching(v)'
<1>1. PICK t \in Tokens :
        /\ call' = [call EXCEPT ![w] = [token |-> t, db |-> NoDb]]
        /\ during' = [during EXCEPT ![w] = {Value(t)}]
  BY DEF BeginGet
<1>2. \A i, u : Has(i, u)' <=> Has(i, u)
  BY DEF BeginGet, Has, slots
<1>3. CASE v = w
  <2>1. /\ call'[w].token = t /\ during'[w] = {Value(t)} /\ at'[w] = 1
    BY <1>1 DEF BeginGet, GetInv, IInv, TypeOK
  <2>2. \A i \in Slots : i >= 1
    BY DEF Slots
  <2>3. Value(t) = NoDb \/ \E i \in Slots : Has(i, t)
    BY NoValue
  <2>4. NoDb \in during'[w] \/ \E i \in Slots : i >= at'[w] /\ Has(i, t)'
    BY <1>2, <2>1, <2>2, <2>3
  <2>5. Value(call[w].token)' = Value(t)
    BY <1>2, <2>1 DEF Value, First, BeginGet, slots
  <2> QED BY <1>3, <2>1, <2>4, <2>5 DEF Watching
<1>4. CASE v # w
  <2>1. pc'[v] = pc[v] /\ call'[v] = call[v] /\ at'[v] = at[v] /\ during'[v] = during[v]
    BY <1>1, <1>4 DEF BeginGet, GetInv, IInv, TypeOK
  <2>2. Watching(v)
    BY DEF GetInv
  <2>3. PICK u : u = call[v].token
    OBVIOUS
  <2>4. Value(u)' = Value(u)
    BY ValueStays DEF BeginGet
  <2> QED BY <1>2, <2>1, <2>2, <2>3, <2>4 DEF Watching
<1> QED BY <1>3, <1>4

-----------------------------------------------------------------------------
(* The steps that write no name.                                            *)
LEMMA HalvesStay ==
  ASSUME GetInv, NEW w \in Workers, Step(w), ~clashed,
         UNCHANGED <<slots, broken>>, pc[w] # "db2", pc'[w] # "db2",
         \A v \in Workers \ {w} : pc'[v] = pc[v]
  PROVE  Halves'
<1>1. \A i, t : Has(i, t)' <=> Has(i, t)
  BY DEF Has, slots
<1>2. \A v \in Workers \ {w} : call'[v] = call[v] /\ at'[v] = at[v]
  BY OthersStay DEF GetInv
<1>3. Halves
  BY DEF GetInv
<1> QED BY <1>1, <1>2, <1>3 DEF Halves, slots

(* A claimed slot has no token whose halves could differ.                   *)
LEMMA HalvesClaim ==
  ASSUME GetInv, NEW w \in Workers, Claim(w), ~clashed
  PROVE  Halves'
<1>1. /\ at[w] \in Slots /\ pc[w] = "claim"
      /\ pc'[w] = "token1" /\ \A v \in Workers \ {w} : pc'[v] = pc[v]
  BY DEF Claim, Moves, GetInv, IInv, TypeOK, Setting, Searching
<1>2. session_token[at[w]] = Text(NoToken)
  BY <1>1 DEF GetInv, IInv, Safe, Fresh, Place
<1>3. \A t \in Tokens : Text(t) # Text(NoToken)
  BY SessionsAssumption DEF Text
<1>4. \A i \in Slots, t \in Tokens : Has(i, t)' <=> Has(i, t)
  BY <1>2, <1>3 DEF Claim, Has, GetInv, IInv, TypeOK
<1>5. Halves
  BY DEF GetInv
<1> QED BY <1>1, <1>4, <1>5 DEF Claim, Halves

(* A token is written into a slot whose name is empty.                      *)
LEMMA HalvesWriteToken ==
  ASSUME GetInv, NEW w \in Workers, NEW half \in 1 .. 2, WriteToken(w, half),
         ~clashed
  PROVE  Halves'
<1>1. /\ at[w] \in Slots /\ pc[w] \in Filling
      /\ pc'[w] # "db2" /\ \A v \in Workers \ {w} : pc'[v] = pc[v]
  BY DEF WriteToken, Moves, GetInv, IInv, TypeOK, Setting, Searching, Filling
<1>2. session_token[at[w]][2] = NoToken
  BY <1>1 DEF GetInv, IInv, Safe, Place
<1>3. \A t \in Tokens : ~Has(at[w], t)
  BY <1>2, SessionsAssumption DEF Has, Text
<1>4. current_db[at[w]][1] = current_db[at[w]][2]
  BY <1>1, <1>3 DEF GetInv, IInv, Safe, Fresh, Text
<1>5. \A t : \A i \in Slots \ {at[w]} : Has(i, t)' <=> Has(i, t)
  BY <1>1 DEF WriteToken, Has, GetInv, IInv, TypeOK
<1>6. Halves
  BY DEF GetInv
<1> QED BY <1>1, <1>4, <1>5, <1>6 DEF WriteToken, Halves, Filling

(* The first half makes the halves differ, the second makes them equal.     *)
LEMMA HalvesWriteDb ==
  ASSUME GetInv, NEW w \in Workers, NEW half \in 1 .. 2, WriteDb(w, half),
         ~clashed
  PROVE  Halves'
<1> DEFINE n == at[w]
           t == call[w].token
           d == call[w].db
<1>1. /\ n \in Slots /\ t \in Tokens
      /\ pc[w] = IF half = 1 THEN "db1" ELSE "db2"
      /\ pc'[w] = IF half = 1 THEN "db2" ELSE "idle"
      /\ \A v \in Workers \ {w} : pc'[v] = pc[v]
      /\ UNCHANGED <<is_active, session_token, call, at>>
      /\ broken' = IF half = 2 THEN broken \ {t} ELSE broken
  BY DEF WriteDb, Moves, GetInv, IInv, TypeOK, Setting, Searching
<1>2. /\ current_db'[n][half] = d
      /\ \A h \in 1 .. 2 : h # half => current_db'[n][h] = current_db[n][h]
      /\ \A i \in Slots \ {n} : current_db'[i] = current_db[i]
  BY <1>1 DEF WriteDb, GetInv, IInv, TypeOK, Texts
<1>3. \A i, u : Has(i, u)' <=> Has(i, u)
  BY <1>1 DEF Has
<1>4. Has(n, t)
  BY <1>1 DEF GetInv, IInv, Safe, Place
<1>5. Halves
  BY DEF GetInv
<1> HIDE DEF n, t, d
<1>6. ASSUME NEW v \in Workers \ {w}, pc[v] = "db2"
      PROVE  at[v] \in Slots \ {n} /\ call[v].token # t
  <2>1. call[v].token # t
    BY <1>1, <1>6 DEF GetInv, IInv, Clash, Setting, t
  <2>2. at[v] \in Slots /\ call[v].token \in Tokens /\ Has(at[v], call[v].token)
    BY <1>6 DEF GetInv, IInv, TypeOK, Setting, Searching, Safe, Place
  <2> QED BY <1>1, <1>4, <2>1, <2>2, OneToken DEF GetInv, IInv
<1>7. ASSUME NEW v \in Workers, pc'[v] = "db2"
      PROVE  current_db'[at'[v]][1] = call'[v].db
  <2>1. CASE v = w
    BY <1>1, <1>2, <1>7, <2>1 DEF n, d
  <2>2. CASE v # w
    BY <1>1, <1>2, <1>5, <1>6, <1>7, <2>2 DEF Halves
  <2> QED BY <2>1, <2>2
<1>8. ASSUME NEW u \in Tokens, NEW i \in Slots, Has(i, u)',
             current_db'[i][1] # current_db'[i][2]
      PROVE  u \in broken' \/ \E v \in Workers : pc'[v] = "db2" /\ call'[v].token = u
  <2>1. Has(i, u)
    BY <1>3, <1>8
  <2>2. CASE i = n
    <3>1. u = t
      BY <1>1, <1>4, <2>1, <2>2, OneToken DEF GetInv, IInv
    <3>2. half = 1
      BY <1>1, <1>2, <1>5, <1>8, <2>2 DEF Halves, n, d
    <3> QED BY <1>1, <3>1, <3>2 DEF t
  <2>3. CASE i # n
    <3>1. u # t
      BY <1>1, <1>4, <2>1, <2>3 DEF GetInv, IInv, Safe, OneSlot
    <3>2. u \in broken \/ \E v \in Workers : pc[v] = "db2" /\ call[v].token = u
      BY <1>2, <1>5, <1>8, <2>1, <2>3 DEF Halves
    <3> QED BY <1>1, <3>1, <3>2 DEF t
  <2> QED BY <2>2, <2>3
<1> QED BY <1>7, <1>8 DEF Halves

(* A writer that dies between the halves breaks its token.                  *)
LEMMA HalvesDies ==
  ASSUME GetInv, NEW w \in Workers, Dies(w), ~clashed
  PROVE  Halves'
<1>1. /\ pc'[w] = "idle" /\ \A v \in Workers \ {w} : pc'[v] = pc[v]
      /\ UNCHANGED <<slots, call, at>>
      /\ broken' = IF pc[w] = "db2" THEN broken \cup {call[w].token} ELSE broken
  BY DEF Dies, Moves, GetInv, IInv, TypeOK
<1>2. \A i, t : Has(i, t)' <=> Has(i, t)
  BY <1>1 DEF Has, slots
<1>3. Halves
  BY DEF GetInv
<1> QED BY <1>1, <1>2, <1>3 DEF Halves, slots

(* All steps together.                                                      *)
LEMMA HalvesKept ==
  ASSUME GetInv, NEW w \in Workers, Step(w), ~clashed
  PROVE  Halves'
<1> USE DEF Moves
<1>1. CASE BeginSet(w) \/ FindSlot(w) \/ NotFound(w) \/ FindFree(w) \/ NoFreeSlot(w)
  <2>1. /\ UNCHANGED <<slots, broken>> /\ pc[w] # "db2" /\ pc'[w] # "db2"
        /\ \A v \in Workers \ {w} : pc'[v] = pc[v]
    BY <1>1 DEF BeginSet, FindSlot, NotFound, FindFree, NoFreeSlot,
         GetInv, IInv, TypeOK
  <2> QED BY <2>1, HalvesStay
<1>2. CASE GetStep(w)
  <2>1. /\ UNCHANGED <<slots, broken>> /\ pc[w] # "db2" /\ pc'[w] # "db2"
        /\ \A v \in Workers \ {w} : pc'[v] = pc[v]
    BY <1>2 DEF GetStep, BeginGet, GetFound, GetNext, GetNothing, Got, Return,
         GetInv, IInv, TypeOK
  <2> QED BY <2>1, HalvesStay
<1> QED BY <1>1, <1>2, HalvesClaim, HalvesWriteToken, HalvesWriteDb, HalvesDies
        DEF Step, SetStep

-----------------------------------------------------------------------------
(* Nobody searches and the array is empty at first.                         *)
LEMMA GetInit == Init => GetInv
<1> SUFFICES ASSUME Init PROVE GetInv
  OBVIOUS
<1>1. IInv
  BY InitIInv
<1>2. \A w \in Workers : pc[w] = "idle"
  BY DEF Init
<1>3. \A i \in Slots : \A t : ~Has(i, t)
  BY DEF Init, Has
<1>4. during = [w \in Workers |-> during[w]]
  BY DEF Init
<1> QED BY <1>1, <1>2, <1>3, <1>4 DEF GetInv, Halves, Watching

(* The invariant is inductive.                                              *)
LEMMA GetInvNext == GetInv /\ [Next]_vars => GetInv'
<1>1. ASSUME GetInv, Next PROVE GetInv'
  <2>1. PICK w \in Workers : Step(w)
    BY <1>1 DEF Next, Step
  <2>2. IInv'
    BY <1>1, NextIInv DEF GetInv
  <2>3. during' = [v \in Workers |-> during'[v]]
    <3>1. CASE BeginGet(w)
      BY <1>1, <3>1 DEF BeginGet, GetInv
    <3>2. CASE ~BeginGet(w)
      <4>1. \E where : Moves(w, where)
        BY <2>1, <3>2 DEF Step, SetStep, GetStep, BeginSet, FindSlot, NotFound,
           FindFree, NoFreeSlot, Claim, WriteToken, WriteDb, GetFound, GetNext,
           GetNothing, Got, Return, Dies
      <4> QED BY <4>1 DEF Moves
    <3> QED BY <3>1, <3>2
  <2>4. ASSUME ~clashed' PROVE ~clashed
    BY <2>1, <2>4 DEF Step, SetStep, GetStep, BeginSet, FindSlot, NotFound,
       FindFree, NoFreeSlot, Claim, WriteToken, WriteDb, BeginGet, GetFound,
       GetNext, GetNothing, Got, Return, Dies, Moves
  <2>5. ASSUME ~clashed', NEW v \in Workers PROVE Watching(v)'
    BY <1>1, <2>1, <2>4, <2>5, WatchingKept, WatchingBegins
  <2>6. ~clashed' => Halves'
    BY <1>1, <2>1, <2>4, HalvesKept
  <2> QED BY <2>2, <2>3, <2>5, <2>6 DEF GetInv
<1>2. ASSUME GetInv, UNCHANGED vars PROVE GetInv'
  <2>1. IInv'
    BY <1>2, NextIInv DEF GetInv
  <2>2. UNCHANGED <<is_active, session_token, current_db, slots, pc, call, at,
                    during, clashed, broken>>
    BY <1>2 DEF vars, slots, history
  <2>3. \A i, t : Has(i, t)' <=> Has(i, t)
    BY <2>2 DEF Has
  <2>4. Halves => Halves'
    BY <2>2, <2>3 DEF Halves
  <2>5. ASSUME NEW w \in Workers, Watching(w) PROVE Watching(w)'
    <3>1. PICK t : t = call[w].token
      OBVIOUS
    <3>2. Value(t)' = Value(t)
      BY <2>2, ValueStays
    <3> QED BY <2>2, <2>3, <2>5, <3>1, <3>2 DEF Watching
  <2> QED BY <1>2, <2>1, <2>2, <2>4, <2>5 DEF GetInv
<1> QED BY <1>1, <1>2

(* What searches have seen, and where halves differ, at all times           *)
(* (get_session_db and set_session_db, AsyncManager.cpp:135-174).           *)
THEOREM GetInvariance == Spec => []GetInv
BY GetInit, GetInvNext, PTL DEF Spec

(* A worker gets a database the session had while it looked, or half of one *)
(* that was being written or whose writer was killed.                       *)
THEOREM GetsCorrect == Spec => GetsAreCurrent
<1>1. ASSUME GetInv, NEW w \in Workers, Next, pc[w] = "get", pc'[w] = "got",
             ~clashed
      PROVE  LET t == call[w].token IN
             IF result'[w][1] = result'[w][2]
             THEN result'[w][1] \in during[w]
             ELSE \/ t \in broken
                  \/ \E v \in Workers : pc[v] = "db2" /\ call[v].token = t
  <2> DEFINE t == call[w].token
  <2>1. GetFound(w) \/ GetNothing(w)
    <3>1. PICK u \in Workers : Step(u)
      BY <1>1 DEF Next, Step
    <3>2. u = w
      BY <1>1, <3>1 DEF Step, SetStep, GetStep, BeginSet, FindSlot, NotFound,
         FindFree, NoFreeSlot, Claim, WriteToken, WriteDb, BeginGet, GetFound,
         GetNext, GetNothing, Got, Return, Dies, Moves, GetInv, IInv, TypeOK
    <3> QED BY <1>1, <3>1, <3>2 DEF Step, SetStep, GetStep, BeginSet, FindSlot,
         NotFound, FindFree, NoFreeSlot, Claim, WriteToken, WriteDb, BeginGet,
         GetNext, Got, Dies, Moves, Setting, Searching, GetInv, IInv, TypeOK
  <2>2. t \in Tokens /\ Value(t) \in during[w] /\ Halves
        /\ (NoDb \in during[w] \/ \E i \in Slots : i >= at[w] /\ Has(i, t))
    BY <1>1 DEF GetInv, Watching
  <2>3. CASE GetFound(w)
    <3>1. at[w] \in Slots /\ Has(at[w], t) /\ result'[w] = current_db[at[w]]
      BY <1>1, <2>3, SessionsAssumption
         DEF GetFound, Return, GetInv, IInv, TypeOK, Slots
    <3>2. Value(t) = current_db[at[w]][2]
      BY <1>1, <2>2, <3>1, ValueOfSlot DEF GetInv, IInv, Safe
    <3> QED BY <2>2, <3>1, <3>2 DEF Halves
  <2>4. CASE GetNothing(w)
    <3>1. result'[w] = Text(NoDb) /\ \A i \in Slots : ~(i >= at[w])
      BY <1>1, <2>4, SessionsAssumption
         DEF GetNothing, Return, GetInv, IInv, TypeOK, Slots
    <3> QED BY <2>2, <3>1 DEF Text
  <2> QED BY <2>1, <2>3, <2>4
<1>2. GetInv /\ [Next]_vars =>
        [\A w \in Workers :
           pc[w] = "get" /\ pc'[w] = "got" /\ ~clashed =>
             LET t == call[w].token IN
             IF result'[w][1] = result'[w][2]
             THEN result'[w][1] \in during[w]
             ELSE \/ t \in broken
                  \/ \E v \in Workers : pc[v] = "db2" /\ call[v].token = t]_vars
  BY <1>1
<1> QED BY <1>2, GetInvariance, PTL DEF Spec, GetsAreCurrent

-----------------------------------------------------------------------------
(***************************************************************************)
(* What the array has no room for is counted, slot by slot, which makes it *)
(* an implementation of SessionMap.                                        *)
(***************************************************************************)

(* A slot is finished once its session has a database.  Slots in use that   *)
(* are not are being written, or were left by a worker that died.           *)
Writing == {"token1", "token2", "db1", "db2"}

Finished(i) == \E t \in Tokens : Has(i, t) /\ current_db[i][2] # NoDb
Unfinished == {i \in Slots : is_active[i] /\ ~Finished(i)}
Writers == {w \in Workers : pc[w] \in Writing /\ at[w] \in Unfinished}

AllInUse(w) ==
  pc[w] = "free" => \A i \in Slots : i < at[w] => is_active[i]

Counted == Cardinality(Unfinished) <= deaths + Cardinality(Writers)

MapInv ==
  /\ IInv
  /\ deaths \in Nat
  /\ ~clashed => Counted /\ \A w \in Workers : AllInUse(w)

(* The sets that are counted are finite, now and after a step.              *)
LEMMA SetsFinite ==
  /\ IsFiniteSet(Unfinished) /\ Cardinality(Unfinished) \in Nat
  /\ IsFiniteSet(Writers) /\ Cardinality(Writers) \in Nat
<1>1. IsFiniteSet(Slots)
  BY SessionsAssumption, FS_Interval DEF Slots
<1>2. Unfinished \in SUBSET Slots /\ Writers \in SUBSET Workers
  BY DEF Unfinished, Writers
<1>3. IsFiniteSet(Unfinished) /\ IsFiniteSet(Writers)
  BY <1>1, <1>2, FS_Subset, SessionsAssumption
<1> QED BY <1>3, FS_CardinalityType

LEMMA SetsFiniteNext ==
  /\ IsFiniteSet(Unfinished') /\ Cardinality(Unfinished') \in Nat
  /\ IsFiniteSet(Writers') /\ Cardinality(Writers') \in Nat
<1>1. IsFiniteSet(Slots)
  BY SessionsAssumption, FS_Interval DEF Slots
<1>2. Unfinished' \in SUBSET Slots /\ Writers' \in SUBSET Workers
  BY DEF Unfinished, Writers
<1>3. IsFiniteSet(Unfinished') /\ IsFiniteSet(Writers')
  BY <1>1, <1>2, FS_Subset, SessionsAssumption
<1> QED BY <1>3, FS_CardinalityType

-----------------------------------------------------------------------------
(* What the steps do to the array, as far as the map can tell.              *)

(* The steps that write nothing.                                            *)
LEMMA QuietStep ==
  ASSUME IInv, NEW w \in Workers,
         \/ BeginSet(w) \/ FindSlot(w) \/ NotFound(w) \/ FindFree(w)
         \/ NoFreeSlot(w) \/ GetStep(w)
  PROVE  /\ UNCHANGED <<slots, deaths>> /\ pc[w] \notin Writing
         /\ \A v \in Workers \ {w} : pc'[v] = pc[v]
<1> USE DEF Moves, IInv, TypeOK, Writing
<1>1. CASE BeginSet(w) \/ FindSlot(w) \/ NotFound(w) \/ FindFree(w) \/ NoFreeSlot(w)
  BY <1>1 DEF BeginSet, FindSlot, NotFound, FindFree, NoFreeSlot
<1>2. CASE GetStep(w)
  BY <1>2 DEF GetStep, BeginGet, GetFound, GetNext, GetNothing, Got, Return
<1> QED BY <1>1, <1>2

(* A claim takes a free slot into use and gives it to no token yet.         *)
LEMMA ClaimEffect ==
  ASSUME IInv, NEW w \in Workers, Claim(w), ~clashed
  PROVE  /\ at[w] \in Slots /\ pc[w] = "claim" /\ pc'[w] = "token1"
         /\ \A v \in Workers \ {w} : pc'[v] = pc[v]
         /\ UNCHANGED <<current_db, call, at, deaths>>
         /\ ~is_active[at[w]] /\ is_active' = [is_active EXCEPT ![at[w]] = TRUE]
         /\ \A i \in Slots, t \in Tokens : Has(i, t)' <=> Has(i, t)
         /\ \A t \in Tokens : ~Has(at[w], t)
<1>1. /\ at[w] \in Slots /\ pc[w] = "claim" /\ pc'[w] = "token1"
      /\ \A v \in Workers \ {w} : pc'[v] = pc[v]
      /\ is_active' = [is_active EXCEPT ![at[w]] = TRUE]
      /\ UNCHANGED <<session_token, current_db, call, at, deaths>>
  BY DEF Claim, Moves, IInv, TypeOK, Setting, Searching
<1>2. ~is_active[at[w]] /\ session_token[at[w]] = Text(NoToken)
  BY <1>1 DEF IInv, Safe, Fresh, Place
<1>3. \A t \in Tokens : Text(t) # Text(NoToken)
  BY SessionsAssumption DEF Text
<1>4. \A i \in Slots, t \in Tokens : Has(i, t)' <=> Has(i, t)
  BY <1>1, <1>2, <1>3 DEF Has, IInv, TypeOK
<1> QED BY <1>1, <1>2, <1>4 DEF Has

(* A token is written into a slot of no session, which has no name.         *)
LEMMA WriteTokenEffect ==
  ASSUME IInv, NEW w \in Workers, NEW half \in 1 .. 2, WriteToken(w, half), ~clashed
  PROVE  /\ at[w] \in Slots /\ call[w].token \in Tokens
         /\ pc[w] \in Filling /\ pc'[w] \in {"token2", "db1"}
         /\ \A v \in Workers \ {w} : pc'[v] = pc[v]
         /\ UNCHANGED <<is_active, current_db, call, at, deaths>>
         /\ \A t \in Tokens : ~Has(at[w], t)
         /\ \A i \in Slots : ~Has(i, call[w].token)
         /\ current_db[at[w]] = Text(NoDb)
         /\ \A i \in Slots \ {at[w]}, t \in Tokens : Has(i, t)' <=> Has(i, t)
         /\ \A t \in Tokens : Has(at[w], t)' => t = call[w].token
<1>1. /\ at[w] \in Slots /\ call[w].token \in Tokens
      /\ pc[w] \in Filling /\ pc'[w] \in {"token2", "db1"}
      /\ \A v \in Workers \ {w} : pc'[v] = pc[v]
      /\ UNCHANGED <<is_active, current_db, call, at, deaths>>
      /\ session_token' = [session_token EXCEPT ![at[w]][half] = call[w].token]
  BY DEF WriteToken, Moves, IInv, TypeOK, Setting, Searching, Filling
<1>2. /\ session_token[at[w]][2] = NoToken
      /\ \A i \in Slots : ~Has(i, call[w].token)
  BY <1>1 DEF IInv, Safe, Place
<1>3. \A t \in Tokens : ~Has(at[w], t)
  BY <1>2, SessionsAssumption DEF Has, Text
<1>4. current_db[at[w]] = Text(NoDb)
  BY <1>1, <1>3 DEF IInv, Safe, Fresh
<1>5. \A i \in Slots \ {at[w]}, t \in Tokens : Has(i, t)' <=> Has(i, t)
  BY <1>1 DEF Has, IInv, TypeOK
<1>6. session_token'[at[w]][half] = call[w].token
  BY <1>1 DEF IInv, TypeOK, Texts
<1>7. \A t \in Tokens : Has(at[w], t)' => t = call[w].token
  BY <1>1, <1>6 DEF Has, Text
<1> QED BY <1>1, <1>2, <1>3, <1>4, <1>5, <1>7

(* Only the second half of a name is what a session's value is.             *)
LEMMA WriteDbEffect ==
  ASSUME IInv, NEW w \in Workers, NEW half \in 1 .. 2, WriteDb(w, half), ~clashed
  PROVE  /\ at[w] \in Slots /\ call[w].token \in Tokens /\ call[w].db \in Databases
         /\ pc[w] = IF half = 1 THEN "db1" ELSE "db2"
         /\ pc'[w] = IF half = 1 THEN "db2" ELSE "idle"
         /\ \A v \in Workers \ {w} : pc'[v] = pc[v]
         /\ UNCHANGED <<is_active, session_token, call, at, deaths>>
         /\ \A i, t : Has(i, t)' <=> Has(i, t)
         /\ Has(at[w], call[w].token)
         /\ \A i \in Slots \ {at[w]} : current_db'[i] = current_db[i]
         /\ current_db'[at[w]][2] =
              IF half = 1 THEN current_db[at[w]][2] ELSE call[w].db
<1>1. /\ at[w] \in Slots /\ call[w].token \in Tokens /\ call[w].db \in Databases
      /\ pc[w] = IF half = 1 THEN "db1" ELSE "db2"
      /\ pc'[w] = IF half = 1 THEN "db2" ELSE "idle"
      /\ \A v \in Workers \ {w} : pc'[v] = pc[v]
      /\ UNCHANGED <<is_active, session_token, call, at, deaths>>
      /\ current_db' = [current_db EXCEPT ![at[w]][half] = call[w].db]
  BY DEF WriteDb, Moves, IInv, TypeOK, Setting, Searching
<1>2. /\ \A i \in Slots \ {at[w]} : current_db'[i] = current_db[i]
      /\ current_db'[at[w]][2] =
           IF half = 1 THEN current_db[at[w]][2] ELSE call[w].db
  BY <1>1 DEF IInv, TypeOK, Texts
<1>3. \A i, t : Has(i, t)' <=> Has(i, t)
  BY <1>1 DEF Has
<1>4. Has(at[w], call[w].token)
  BY <1>1 DEF IInv, Safe, Place
<1> QED BY <1>1, <1>2, <1>3, <1>4

-----------------------------------------------------------------------------
(* The count of unfinished slots.                                           *)

(* The count holds if the slots stay and no writer gives up.                *)
LEMMA CountStays ==
  ASSUME Counted, deaths \in Nat, deaths' = deaths,
         Unfinished' = Unfinished, Writers \subseteq Writers'
  PROVE  Counted'
<1>1. Cardinality(Writers) <= Cardinality(Writers')
  BY SetsFiniteNext, FS_Subset
<1> QED BY <1>1, SetsFinite, SetsFiniteNext DEF Counted

(* Steps that write nothing leave the count alone.                          *)
LEMMA CountQuiet ==
  ASSUME MapInv, NEW w \in Workers, ~clashed,
         \/ BeginSet(w) \/ FindSlot(w) \/ NotFound(w) \/ FindFree(w)
         \/ NoFreeSlot(w) \/ GetStep(w)
  PROVE  Counted'
<1>1. /\ UNCHANGED <<slots, deaths>> /\ pc[w] \notin Writing
      /\ \A v \in Workers \ {w} : pc'[v] = pc[v]
  BY QuietStep DEF MapInv
<1>2. Step(w)
  BY DEF Step, SetStep
<1>3. \A v \in Workers \ {w} : at'[v] = at[v]
  BY <1>2, OthersStay DEF MapInv
<1>4. Unfinished' = Unfinished
  BY <1>1 DEF Unfinished, Finished, Has, slots
<1>5. Writers \subseteq Writers'
  BY <1>1, <1>3, <1>4 DEF Writers
<1> QED BY <1>1, <1>4, <1>5, CountStays DEF MapInv

(* A slot that gets its token stays unfinished, and its writer busy.        *)
LEMMA CountWriteToken ==
  ASSUME MapInv, NEW w \in Workers, NEW half \in 1 .. 2, WriteToken(w, half),
         ~clashed
  PROVE  Counted'
<1> DEFINE n == at[w]
<1>1. /\ n \in Slots /\ pc[w] \in Writing /\ pc'[w] \in Writing
      /\ \A v \in Workers \ {w} : pc'[v] = pc[v]
      /\ UNCHANGED <<is_active, current_db, at, deaths>>
      /\ current_db[n][2] = NoDb
      /\ \A i \in Slots \ {n}, t \in Tokens : Has(i, t)' <=> Has(i, t)
  BY WriteTokenEffect DEF MapInv, Filling, Writing, Text
<1>2. \A i \in Slots : Finished(i)' <=> Finished(i)
  BY <1>1 DEF Finished
<1>3. Unfinished' = Unfinished
  BY <1>1, <1>2 DEF Unfinished
<1>4. Writers \subseteq Writers'
  BY <1>1, <1>3 DEF Writers
<1> QED BY <1>1, <1>3, <1>4, CountStays DEF MapInv

(* A claimed slot is unfinished, and so is its writer.                      *)
LEMMA CountClaim ==
  ASSUME MapInv, NEW w \in Workers, Claim(w), ~clashed
  PROVE  Counted'
<1> DEFINE n == at[w]
<1>1. /\ n \in Slots /\ pc[w] = "claim" /\ pc'[w] = "token1"
      /\ \A v \in Workers \ {w} : pc'[v] = pc[v]
      /\ UNCHANGED <<current_db, at, deaths>>
      /\ ~is_active[n] /\ is_active' = [is_active EXCEPT ![n] = TRUE]
      /\ \A i \in Slots, t \in Tokens : Has(i, t)' <=> Has(i, t)
      /\ \A t \in Tokens : ~Has(n, t)
  BY ClaimEffect DEF MapInv
<1>2. is_active \in [Slots -> BOOLEAN]
  BY DEF MapInv, IInv, TypeOK
<1> HIDE DEF n
<1>3. \A i \in Slots : Finished(i)' <=> Finished(i)
  BY <1>1 DEF Finished
<1>4. Unfinished' = Unfinished \cup {n}
  BY <1>1, <1>2, <1>3 DEF Unfinished, Finished
<1>5. n \notin Unfinished
  BY <1>1 DEF Unfinished
<1>6. Writers' = Writers \cup {w}
  <2>1. \A v \in Workers \ {w} : pc[v] \in Writing => is_active[at[v]]
    <3>1. ASSUME NEW v \in Workers \ {w}, pc[v] \in {"db1", "db2"}
          PROVE  is_active[at[v]]
      BY <3>1 DEF MapInv, IInv, Safe, Place, Has
    <3>2. ASSUME NEW v \in Workers \ {w}, pc[v] \in Filling
          PROVE  is_active[at[v]]
      BY <3>2 DEF MapInv, IInv, Safe, Place
    <3> QED BY <3>1, <3>2 DEF Writing, Filling
  <2>2. \A v \in Workers \ {w} : v \in Writers' <=> v \in Writers
    BY <1>1, <1>4, <2>1 DEF Writers
  <2>3. w \in Writers'
    BY <1>1, <1>4 DEF Writers, Writing, n
  <2> QED BY <2>2, <2>3 DEF Writers
<1>7. w \notin Writers
  BY <1>1 DEF Writers, Writing
<1>8. /\ Cardinality(Unfinished') = Cardinality(Unfinished) + 1
      /\ Cardinality(Writers') = Cardinality(Writers) + 1
  BY <1>4, <1>5, <1>6, <1>7, SetsFinite, FS_AddElement
<1> QED BY <1>1, <1>8, SetsFinite DEF MapInv, Counted

(* No other worker writes into the slot of one that writes a name.          *)
LEMMA AloneInSlot ==
  ASSUME IInv, ~clashed, NEW w \in Workers, pc[w] \in {"db1", "db2"},
         NEW v \in Workers \ {w}, pc[v] \in Writing
  PROVE  at[v] # at[w]
<1>1. Has(at[w], call[w].token) /\ at[w] \in Slots /\ call[w].token \in Tokens
  BY DEF IInv, Safe, Place, TypeOK, Setting, Searching
<1>2. CASE pc[v] \in Filling
  BY <1>1, <1>2, SessionsAssumption DEF IInv, Safe, Place, Has, Text
<1>3. CASE pc[v] \in {"db1", "db2"}
  <2>1. Has(at[v], call[v].token) /\ call[v].token \in Tokens
    BY <1>3 DEF IInv, Safe, Place, TypeOK, Setting
  <2>2. call[v].token # call[w].token
    BY <1>3 DEF IInv, Clash, Setting
  <2> QED BY <1>1, <2>1, <2>2, OneToken DEF IInv
<1> QED BY <1>2, <1>3 DEF Writing, Filling

(* A writer that is done with its slot has finished it.                     *)
LEMMA CountWriteDb ==
  ASSUME MapInv, NEW w \in Workers, NEW half \in 1 .. 2, WriteDb(w, half),
         ~clashed
  PROVE  Counted'
<1>0. PICK n \in Slots, t \in Tokens, d \in Databases :
        n = at[w] /\ t = call[w].token /\ d = call[w].db
  BY WriteDbEffect DEF MapInv
<1>1. /\ n = at[w]
      /\ pc[w] = IF half = 1 THEN "db1" ELSE "db2"
      /\ pc'[w] = IF half = 1 THEN "db2" ELSE "idle"
      /\ \A v \in Workers \ {w} : pc'[v] = pc[v]
      /\ UNCHANGED <<is_active, at, deaths>>
      /\ \A i, u : Has(i, u)' <=> Has(i, u)
      /\ Has(n, t)
      /\ \A i \in Slots \ {n} : current_db'[i] = current_db[i]
      /\ current_db'[n][2] = IF half = 1 THEN current_db[n][2] ELSE d
  BY <1>0, WriteDbEffect DEF MapInv
<1>2. CASE half = 1
  <2>1. \A i \in Slots : Finished(i)' <=> Finished(i)
    BY <1>1, <1>2 DEF Finished
  <2>2. Unfinished' = Unfinished
    BY <1>1, <2>1 DEF Unfinished
  <2>3. Writers \subseteq Writers'
    BY <1>1, <1>2, <2>2 DEF Writers, Writing
  <2> QED BY <1>1, <2>2, <2>3, CountStays DEF MapInv
<1>3. CASE half = 2
  <2>1. Finished(n)'
    <3>1. Has(n, t)' /\ current_db'[n][2] # NoDb
      BY <1>1, <1>3, SessionsAssumption
    <3> QED BY <1>1, <3>1 DEF Finished
  <2>2. Unfinished' = Unfinished \ {n}
    <3>1. \A i \in Slots \ {n} : Finished(i)' <=> Finished(i)
      BY <1>1 DEF Finished
    <3>2. is_active' = is_active
      BY <1>1
    <3> QED BY <2>1, <3>1, <3>2 DEF Unfinished
  <2>3. \A v \in Workers \ {w} : pc[v] \in Writing => at[v] # n
    BY <1>1, AloneInSlot DEF MapInv
  <2>4. Writers' = Writers \ {w}
    BY <1>1, <1>3, <2>2, <2>3 DEF Writers, Writing
  <2>5. n \in Unfinished => w \in Writers
    BY <1>1, <1>3 DEF Writers, Writing
  <2>6. w \in Writers => n \in Unfinished
    BY <1>1 DEF Writers
  <2>7. /\ Cardinality(Unfinished') =
             IF n \in Unfinished THEN Cardinality(Unfinished) - 1
             ELSE Cardinality(Unfinished)
        /\ Cardinality(Writers') =
             IF w \in Writers THEN Cardinality(Writers) - 1 ELSE Cardinality(Writers)
    BY <2>2, <2>4, SetsFinite, FS_RemoveElement
  <2> QED BY <1>1, <2>5, <2>6, <2>7, SetsFinite DEF MapInv, Counted
<1> QED BY <1>2, <1>3

(* A worker that dies may leave a slot behind, and is counted for it.       *)
LEMMA CountDies ==
  ASSUME MapInv, NEW w \in Workers, Dies(w), ~clashed
  PROVE  Counted'
<1>1. /\ UNCHANGED <<is_active, session_token, current_db, at>>
      /\ deaths' = deaths + 1 /\ pc'[w] = "idle"
      /\ \A v \in Workers \ {w} : pc'[v] = pc[v]
  BY DEF Dies, Moves, slots, MapInv, IInv, TypeOK
<1>2. Unfinished' = Unfinished
  BY <1>1 DEF Unfinished, Finished, Has
<1>3. Writers' = Writers \ {w}
  BY <1>1, <1>2 DEF Writers, Writing
<1>4. Cardinality(Writers) <= Cardinality(Writers') + 1
  <2>1. Cardinality(Writers \ {w}) =
          IF w \in Writers THEN Cardinality(Writers) - 1 ELSE Cardinality(Writers)
    BY SetsFinite, FS_RemoveElement
  <2> QED BY <1>3, <2>1, SetsFinite
<1> QED BY <1>1, <1>2, <1>4, SetsFinite, SetsFiniteNext DEF MapInv, Counted

-----------------------------------------------------------------------------
(* Slots stay in use, so the search for a free one has met none so far.     *)
LEMMA InUseGrows ==
  ASSUME MapInv, NEW w \in Workers, Step(w), NEW i \in Slots, is_active[i]
  PROVE  is_active'[i]
BY DEF Step, SetStep, GetStep, BeginSet, FindSlot, NotFound, FindFree,
   NoFreeSlot, Claim, WriteToken, WriteDb, BeginGet, GetFound, GetNext,
   GetNothing, Got, Return, Dies, slots, MapInv, IInv, TypeOK

LEMMA AllInUseKept ==
  ASSUME MapInv, NEW w \in Workers, Step(w), ~clashed, NEW v \in Workers
  PROVE  AllInUse(v)'
<1> SUFFICES ASSUME pc'[v] = "free", NEW i \in Slots, i < at'[v]
             PROVE  is_active'[i]
  BY DEF AllInUse
<1>1. CASE pc[v] = "free" /\ i < at[v]
  BY <1>1, InUseGrows DEF MapInv, AllInUse
<1>2. CASE v # w
  <2>1. pc'[v] = pc[v] /\ at'[v] = at[v]
    BY <1>2, OthersStay DEF Step, SetStep, GetStep, BeginSet, FindSlot, NotFound,
       FindFree, NoFreeSlot, Claim, WriteToken, WriteDb, BeginGet, GetFound,
       GetNext, GetNothing, Got, Return, Dies, Moves, MapInv, IInv, TypeOK
  <2> QED BY <1>1, <2>1
<1>3. CASE v = w
  <2>1. NotFound(w) \/ FindFree(w)
    BY <1>3 DEF Step, SetStep, GetStep, BeginSet, FindSlot,
       NoFreeSlot, Claim, WriteToken, WriteDb, BeginGet, GetFound,
       GetNext, GetNothing, Got, Return, Dies, Moves, MapInv, IInv, TypeOK
  <2>2. CASE NotFound(w)
    <3>1. at'[w] = 1
      BY <2>2 DEF NotFound, MapInv, IInv, TypeOK
    <3> QED BY <1>3, <3>1, SessionsAssumption DEF Slots
  <2>3. CASE FindFree(w)
    <3>1. /\ pc[w] = "free" /\ is_active[at[w]] /\ at'[w] = at[w] + 1
          /\ at[w] \in Nat /\ i \in Nat
      BY <1>3, <2>3, SessionsAssumption
         DEF FindFree, Moves, MapInv, IInv, TypeOK, Slots
    <3>2. i < at[w] \/ i = at[w]
      BY <1>3, <3>1
    <3>3. CASE i = at[w]
      BY <3>1, <3>3, InUseGrows
    <3> QED BY <1>1, <1>3, <3>1, <3>2, <3>3
  <2> QED BY <2>1, <2>2, <2>3
<1> QED BY <1>2, <1>3

(* No slot is in use at first.                                              *)
LEMMA MapInvInit == Init => MapInv
<1> SUFFICES ASSUME Init PROVE MapInv
  OBVIOUS
<1>1. IInv
  BY InitIInv
<1>2. Unfinished = {}
  BY DEF Init, Unfinished
<1>3. deaths = 0 /\ \A w \in Workers : AllInUse(w)
  BY DEF Init, AllInUse
<1>4. Counted
  BY <1>2, <1>3, SetsFinite, FS_EmptySet DEF Counted
<1> QED BY <1>1, <1>3, <1>4 DEF MapInv

(* The invariant is inductive.                                              *)
LEMMA MapInvNext == MapInv /\ [Next]_vars => MapInv'
<1>1. ASSUME MapInv, NEW w \in Workers, Step(w) PROVE MapInv'
  <2>1. IInv'
    BY <1>1, NextIInv DEF MapInv, Next, Step
  <2>2. deaths' \in Nat
    BY <1>1 DEF MapInv, Step, SetStep, GetStep, BeginSet, FindSlot, NotFound,
       FindFree, NoFreeSlot, Claim, WriteToken, WriteDb, BeginGet, GetFound,
       GetNext, GetNothing, Got, Return, Dies
  <2>3. ASSUME ~clashed' PROVE ~clashed
    BY <1>1, <2>3 DEF Step, SetStep, GetStep, BeginSet, FindSlot, NotFound,
       FindFree, NoFreeSlot, Claim, WriteToken, WriteDb, BeginGet, GetFound,
       GetNext, GetNothing, Got, Return, Dies, Moves
  <2>4. ~clashed => Counted'
    BY <1>1, CountQuiet, CountClaim, CountWriteToken, CountWriteDb, CountDies
       DEF Step, SetStep
  <2>5. ~clashed => \A v \in Workers : AllInUse(v)'
    BY <1>1, AllInUseKept
  <2> QED BY <2>1, <2>2, <2>3, <2>4, <2>5 DEF MapInv
<1>2. ASSUME MapInv, UNCHANGED vars PROVE MapInv'
  <2>1. IInv'
    BY <1>2, NextIInv DEF MapInv
  <2>2. UNCHANGED <<is_active, session_token, current_db, pc, at, clashed, deaths>>
    BY <1>2 DEF vars, slots, history
  <2>3. Unfinished' = Unfinished
    BY <2>2 DEF Unfinished, Finished, Has
  <2>4. Writers' = Writers
    BY <2>2, <2>3 DEF Writers
  <2> QED BY <1>2, <2>1, <2>2, <2>3, <2>4 DEF MapInv, Counted, AllInUse
<1> QED BY <1>1, <1>2 DEF Next, Step

(* Every unfinished slot has a writer or is one that a death left behind.   *)
LEMMA MapInvariance == Spec => []MapInv
BY MapInvInit, MapInvNext, PTL DEF Spec

-----------------------------------------------------------------------------
(* What the steps do to the map.                                            *)

(* ValueOfSlot and NoValue, of the state after a step.                      *)
LEMMA NextValueOfSlot ==
  ASSUME OneSlot', NEW t \in Tokens, NEW i \in Slots, Has(i, t)'
  PROVE  Value(t)' = current_db'[i][2]
<1>1. \A j \in Slots : Has(j, t)' => j = i
  BY DEF OneSlot
<1>2. \A j \in 1 .. i - 1 : j \in Slots /\ j # i
  BY SessionsAssumption DEF Slots
<1>3. First(t)' = i
  BY <1>1, <1>2 DEF First
<1> QED BY <1>3 DEF Value

LEMMA NextNoValue ==
  ASSUME NEW t, \A i \in Slots : ~Has(i, t)'
  PROVE  Value(t)' = NoDb
BY DEF Value

(* Where tokens are does not change, and the second half of no name.        *)
LEMMA SameValue ==
  ASSUME OneSlot, OneSlot', NEW t \in Tokens,
         \A i \in Slots : Has(i, t)' <=> Has(i, t),
         \A i \in Slots : Has(i, t) => current_db'[i][2] = current_db[i][2]
  PROVE  Value(t)' = Value(t)
<1>1. CASE \E i \in Slots : Has(i, t)
  <2>1. PICK i \in Slots : Has(i, t)
    BY <1>1
  <2>2. Value(t) = current_db[i][2]
    BY <2>1, ValueOfSlot
  <2>3. Value(t)' = current_db'[i][2]
    BY <2>1, NextValueOfSlot
  <2> QED BY <2>1, <2>2, <2>3
<1>2. CASE \A i \in Slots : ~Has(i, t)
  BY <1>2, NoValue, NextNoValue
<1> QED BY <1>1, <1>2

(* Only a second half that is written assigns.                              *)
LEMMA ValuesStay ==
  ASSUME IInv, IInv', ~clashed, ~clashed', NEW w \in Workers, Step(w),
         ~WriteDb(w, 2), NEW t \in Tokens
  PROVE  Value(t)' = Value(t)
<1>1. OneSlot /\ OneSlot'
  BY DEF IInv, Safe
<1>2. CASE UNCHANGED slots
  BY <1>2, ValueStays
<1>3. CASE Claim(w)
  <2>1. \A i \in Slots : Has(i, t)' <=> Has(i, t)
    BY <1>3, ClaimEffect
  <2>2. current_db' = current_db
    BY <1>3 DEF Claim
  <2> QED BY <1>1, <2>1, <2>2, SameValue
<1>4. ASSUME NEW half \in 1 .. 2, WriteToken(w, half) PROVE Value(t)' = Value(t)
  <2>1. PICK n \in Slots, u \in Tokens : n = at[w] /\ u = call[w].token
    BY <1>4, WriteTokenEffect
  <2>2. /\ current_db' = current_db /\ current_db[n][2] = NoDb
        /\ ~Has(n, t) /\ \A i \in Slots : ~Has(i, u)
        /\ \A i \in Slots \ {n} : Has(i, t)' <=> Has(i, t)
        /\ Has(n, t)' => t = u
    <3>1. /\ at' = at /\ call' = call
          /\ current_db' = current_db /\ current_db[n][2] = NoDb
          /\ \A x \in Tokens : ~Has(n, x)
          /\ \A i \in Slots : ~Has(i, u)
          /\ \A i \in Slots \ {n}, x \in Tokens : Has(i, x)' <=> Has(i, x)
      BY <1>4, <2>1, WriteTokenEffect DEF Text
    <3>2. \A x \in Tokens : Has(at[w], x)' => x = call[w].token
      BY <1>4, WriteTokenEffect
    <3>3. Has(n, t)' => t = u
      BY <2>1, <3>1, <3>2
    <3> QED BY <3>1, <3>3
  <2>3. CASE Has(n, t)'
    <3>1. Value(t)' = NoDb
      BY <1>1, <2>2, <2>3, NextValueOfSlot
    <3>2. Value(t) = NoDb
      BY <2>2, <2>3, NoValue
    <3> QED BY <3>1, <3>2
  <2>4. CASE ~Has(n, t)'
    BY <1>1, <2>2, <2>4, SameValue
  <2> QED BY <2>3, <2>4
<1>5. CASE WriteDb(w, 1)
  <2>1. PICK n \in Slots : n = at[w]
    BY <1>5, WriteDbEffect
  <2>2. /\ \A i \in Slots : Has(i, t)' <=> Has(i, t)
        /\ \A i \in Slots : current_db'[i][2] = current_db[i][2]
    BY <1>5, <2>1, WriteDbEffect
  <2> QED BY <1>1, <2>2, SameValue
<1>6. UNCHANGED slots \/ Claim(w) \/ (\E half \in 1 .. 2 : WriteToken(w, half))
      \/ WriteDb(w, 1)
  <2>1. CASE \E half \in 1 .. 2 : WriteDb(w, half)
    BY <2>1
  <2> QED BY <2>1 DEF Step, SetStep, GetStep, BeginSet, FindSlot, NotFound, FindFree,
     NoFreeSlot, BeginGet, GetFound, GetNext, GetNothing, Got, Return, Dies
<1> QED BY <1>2, <1>3, <1>4, <1>5, <1>6

(* The second half of a name assigns it to its session, and to no other.    *)
LEMMA ValueAssigned ==
  ASSUME IInv, IInv', ~clashed, ~clashed', NEW w \in Workers, WriteDb(w, 2),
         NEW t \in Tokens
  PROVE  Value(t)' = IF t = call[w].token THEN call[w].db ELSE Value(t)
<1>1. OneSlot /\ OneSlot'
  BY DEF IInv, Safe
<1>2. PICK n \in Slots, u \in Tokens, d \in Databases :
        n = at[w] /\ u = call[w].token /\ d = call[w].db
  BY WriteDbEffect
<1>3. /\ \A i : Has(i, t)' <=> Has(i, t)
      /\ Has(n, u) /\ current_db'[n][2] = d
      /\ \A i \in Slots \ {n} : current_db'[i] = current_db[i]
  BY <1>2, WriteDbEffect
<1>4. CASE t = u
  BY <1>1, <1>2, <1>3, <1>4, NextValueOfSlot
<1>5. CASE t # u
  <2>1. ~Has(n, t)
    BY <1>3, <1>5, OneToken DEF IInv
  <2>2. Value(t)' = Value(t)
    BY <1>1, <1>3, <2>1, SameValue
  <2> QED BY <1>2, <1>5, <2>2
<1> QED BY <1>4, <1>5

-----------------------------------------------------------------------------
(* The map has room for a session per slot, but for the slots that were     *)
(* left behind and those that are being written.                            *)
Valued == {t \in Tokens : Value(t) # NoDb}

(* A full array has a session with a value in each slot but these.          *)
LEMMA FullArray ==
  ASSUME MapInv, ~clashed, \A i \in Slots : is_active[i]
  PROVE  /\ IsFiniteSet(Valued)
         /\ MaxSessions <= Cardinality(Valued) + deaths + Cardinality(Writers)
<1> DEFINE Done == Slots \ Unfinished
           f == [i \in Done |-> CHOOSE t \in Tokens :
                                  Has(i, t) /\ current_db[i][2] # NoDb]
<1>1. TypeOK /\ OneSlot
  BY DEF MapInv, IInv, Safe
<1>2. \A i \in Done : f[i] \in Tokens /\ Has(i, f[i]) /\ current_db[i][2] # NoDb
  BY DEF Unfinished, Finished
<1>3. f \in [Done -> Valued]
  <2>1. ASSUME NEW i \in Done PROVE f[i] \in Valued
    <3>1. f[i] \in Tokens /\ Has(i, f[i]) /\ current_db[i][2] # NoDb
      BY <1>2
    <3>2. Value(f[i]) = current_db[i][2]
      BY <1>1, <3>1, ValueOfSlot
    <3> QED BY <3>1, <3>2 DEF Valued
  <2> QED BY <2>1
<1>4. ASSUME NEW i \in Done, NEW j \in Done, f[i] = f[j] PROVE i = j
  <2> HIDE DEF f
  <2> QED BY <1>1, <1>2, <1>4 DEF OneSlot
<1>5. ASSUME NEW t \in Valued PROVE \E i \in Done : f[i] = t
  <2>1. PICK i \in Slots : Has(i, t)
    BY NoValue DEF Valued
  <2>2. current_db[i][2] # NoDb
    BY <1>1, <2>1, ValueOfSlot DEF Valued
  <2>3. i \in Done
    BY <2>1, <2>2 DEF Unfinished, Finished, Valued
  <2> HIDE DEF f, Done
  <2>4. f[i] \in Tokens /\ Has(i, f[i])
    BY <1>2, <2>3
  <2>5. f[i] = t
    BY <1>1, <2>1, <2>4, OneToken DEF Valued
  <2> QED BY <2>3, <2>5
<1>6. ExistsBijection(Done, Valued)
  <2> HIDE DEF f, Done
  <2> QED BY <1>3, <1>4, <1>5
          DEF ExistsBijection, Bijection, Injection, Surjection, IsInjective
<1>7. IsFiniteSet(Slots) /\ Cardinality(Slots) = MaxSessions
  BY SessionsAssumption, FS_Interval DEF Slots
<1>8. /\ IsFiniteSet(Done)
      /\ Cardinality(Done) = MaxSessions - Cardinality(Unfinished)
  <2>1. Slots \cap Unfinished = Unfinished
    BY DEF Unfinished
  <2> QED BY <1>7, <2>1, FS_Difference
<1>9. IsFiniteSet(Valued) /\ Cardinality(Valued) = Cardinality(Done)
  BY <1>6, <1>8, FS_Bijection
<1> QED BY <1>8, <1>9, SetsFinite, SessionsAssumption DEF MapInv, Counted

-----------------------------------------------------------------------------
(* Every step is a step of the map, or leaves the map alone.                *)

(* The empty array is the empty map.                                        *)
LEMMA MapInit == Init => Map!Init
<1> SUFFICES ASSUME Init PROVE Map!Init
  OBVIOUS
<1>1. \A t \in Tokens : Value(t) = NoDb
  BY NoValue DEF Init, Has
<1>2. \A w \in Workers : Pending(w) = [token |-> NoToken, db |-> NoDb]
  BY DEF Init, Pending, Setting, Searching
<1> QED BY <1>1, <1>2 DEF Init, Map!Init, Map!Nothing

(* A step that is neither an assignment's beginning nor its end.            *)
LEMMA MapStutters ==
  ASSUME IInv, IInv', ~clashed, ~clashed', NEW w \in Workers, Step(w),
         deaths' = deaths, ~WriteDb(w, 2), Pending(w)' = Pending(w),
         \A v \in Workers \ {w} : pc'[v] = pc[v]
  PROVE  UNCHANGED Map!vars
<1>1. \A t \in Tokens : Value(t)' = Value(t)
  BY ValuesStay
<1>2. \A v \in Workers : Pending(v)' = Pending(v)
  BY OthersStay DEF Pending
<1>3. clashed' = clashed
  BY DEF IInv, TypeOK
<1> QED BY <1>1, <1>2, <1>3 DEF Map!vars

(* The steps of both searches, and all writes but the last, change nothing. *)
LEMMA MapQuiet ==
  ASSUME IInv, IInv', ~clashed, ~clashed', NEW w \in Workers,
         \/ FindSlot(w) \/ NotFound(w) \/ FindFree(w) \/ GetStep(w) \/ Claim(w)
         \/ (\E half \in 1 .. 2 : WriteToken(w, half)) \/ WriteDb(w, 1)
  PROVE  UNCHANGED Map!vars
<1> USE DEF IInv, TypeOK
<1>1. \A v \in Workers \ {w} : pc'[v] = pc[v]
  BY DEF FindSlot, NotFound, FindFree, Claim, WriteToken, WriteDb, GetStep,
     BeginGet, GetFound, GetNext, GetNothing, Got, Return, Moves
<1>2. deaths' = deaths /\ ~WriteDb(w, 2)
  BY DEF FindSlot, NotFound, FindFree, Claim, WriteToken, WriteDb, GetStep,
     BeginGet, GetFound, GetNext, GetNothing, Got, Return
<1>3. Pending(w)' = Pending(w)
  <2>1. CASE GetStep(w)
    BY <2>1 DEF Pending, Setting, Searching, GetStep, BeginGet, GetFound,
       GetNext, GetNothing, Got, Return, Moves
  <2>2. CASE ~GetStep(w)
    BY <2>2 DEF Pending, Setting, Searching, FindSlot, NotFound, FindFree,
       Claim, WriteToken, WriteDb, Moves
  <2> QED BY <2>1, <2>2
<1>4. Step(w)
  BY DEF Step, SetStep
<1> QED BY <1>1, <1>2, <1>3, <1>4, MapStutters

(* A call that begins without a clash is the only one for its token.        *)
LEMMA MapBegin ==
  ASSUME IInv, IInv', ~clashed, ~clashed', NEW w \in Workers, BeginSet(w)
  PROVE  Map!Begin(w)
<1>1. PICK t \in Tokens, d \in Databases :
        call' = [call EXCEPT ![w] = [token |-> t, db |-> d]]
  BY DEF BeginSet
<1>2. /\ pc[w] = "idle" /\ pc' = [pc EXCEPT ![w] = "find"]
      /\ UNCHANGED <<slots, deaths>>
  BY DEF BeginSet, Moves
<1>3. /\ pc \in [Workers -> {"idle", "get", "got"} \cup Setting]
      /\ call \in [Workers -> [token : Tokens \cup {NoToken}, db : DbName]]
      /\ clashed' = clashed
  BY DEF IInv, TypeOK
<1>4. Pending(w) = Map!Nothing
  BY <1>2 DEF Pending, Map!Nothing, Setting, Searching
<1>5. Pending(w)' = [token |-> t, db |-> d]
  BY <1>1, <1>2, <1>3 DEF Pending, Setting
<1>6. \A v \in Workers \ {w} : Pending(v)' = Pending(v)
  BY <1>1, <1>2, <1>3 DEF Pending
<1>7. ASSUME NEW v \in Workers PROVE Pending(v).token # t
  <2>1. CASE pc[v] \notin Setting
    BY <2>1, SessionsAssumption DEF Pending
  <2>2. CASE pc[v] \in Setting
    <3>1. v # w
      BY <1>2, <2>2 DEF Setting, Searching
    <3>2. /\ pc'[v] \in Setting /\ pc'[w] \in Setting
          /\ call'[v] = call[v] /\ call'[w].token = t
      BY <1>1, <1>2, <1>3, <2>2, <3>1 DEF Setting
    <3>3. ~Clash'
      BY DEF IInv
    <3>4. call[v].token # t
      BY <3>1, <3>2, <3>3 DEF Clash
    <3> QED BY <2>2, <3>4 DEF Pending
  <2> QED BY <2>1, <2>2
<1>8. \A u \in Tokens : Value(u)' = Value(u)
  BY <1>2, ValueStays
<1> QED BY <1>2, <1>3, <1>4, <1>5, <1>6, <1>7, <1>8 DEF Map!Begin

(* The last write is the assignment.                                        *)
LEMMA MapAssign ==
  ASSUME IInv, IInv', ~clashed, ~clashed', NEW w \in Workers, WriteDb(w, 2)
  PROVE  Map!Assign(w)
<1>1. PICK t \in Tokens, d \in Databases : t = call[w].token /\ d = call[w].db
  BY WriteDbEffect
<1>2. /\ pc[w] = "db2" /\ pc'[w] = "idle"
      /\ \A v \in Workers \ {w} : pc'[v] = pc[v]
      /\ call' = call /\ deaths' = deaths
  BY WriteDbEffect
<1>3. Pending(w) # Map!Nothing /\ Pending(w).token = t /\ Pending(w).db = d
  BY <1>1, <1>2, SessionsAssumption DEF Pending, Setting, Map!Nothing
<1>4. Pending(w)' = Map!Nothing
  BY <1>2 DEF Pending, Setting, Searching, Map!Nothing
<1>5. \A v \in Workers \ {w} : Pending(v)' = Pending(v)
  BY <1>2 DEF Pending
<1>6. \A u \in Tokens : Value(u)' = IF u = t THEN d ELSE Value(u)
  BY <1>1, ValueAssigned
<1>7. deaths' = deaths /\ clashed' = clashed
  BY <1>2 DEF IInv, TypeOK
<1>8. [v \in Workers |-> Pending(v)][w] = Pending(w)
  OBVIOUS
<1>9. [v \in Workers |-> Pending(v)]' =
        [[v \in Workers |-> Pending(v)] EXCEPT ![w] = Map!Nothing]
  BY <1>4, <1>5
<1>10. [u \in Tokens |-> Value(u)]' = [[u \in Tokens |-> Value(u)] EXCEPT ![t] = d]
  BY <1>6
<1> QED BY <1>3, <1>7, <1>8, <1>9, <1>10 DEF Map!Assign

(* The search for a free slot fails only if there is no room.               *)
LEMMA MapRefuse ==
  ASSUME MapInv, MapInv', ~clashed, ~clashed', NEW w \in Workers, NoFreeSlot(w)
  PROVE  Map!Refuse(w)
<1> USE DEF MapInv
<1>1. /\ pc[w] = "free" /\ at[w] > MaxSessions /\ pc'[w] = "idle"
      /\ \A v \in Workers \ {w} : pc'[v] = pc[v]
      /\ UNCHANGED <<slots, call, deaths, clashed>>
      /\ call[w].token \in Tokens
  BY DEF NoFreeSlot, Moves, IInv, TypeOK, Setting, Searching
<1>2. Pending(w) = call[w] /\ Pending(w) # Map!Nothing
  BY <1>1, SessionsAssumption DEF Pending, Setting, Searching, Map!Nothing
<1>3. Pending(w)' = Map!Nothing
  BY <1>1 DEF Pending, Setting, Searching, Map!Nothing
<1>4. \A v \in Workers \ {w} : Pending(v)' = Pending(v)
  BY <1>1 DEF Pending
<1>5. \A t \in Tokens : Value(t)' = Value(t)
  BY <1>1, ValueStays
<1>6. Value(call[w].token) = NoDb
  BY <1>1, NoValue DEF IInv, Safe, Place, Searching
<1>7. \A i \in Slots : is_active[i]
  BY <1>1, SessionsAssumption DEF AllInUse, Slots, IInv, TypeOK
<1>8. /\ IsFiniteSet(Valued) /\ Cardinality(Valued) \in Nat
      /\ MaxSessions <= Cardinality(Valued) + deaths + Cardinality(Writers)
  BY <1>7, FullArray, FS_CardinalityType
<1> DEFINE Busy == {v \in Workers \ {w} : Pending(v) # Map!Nothing}
<1>9. IsFiniteSet(Busy) /\ Writers \in SUBSET Busy
  <2>1. Busy \in SUBSET Workers
    OBVIOUS
  <2>2. ASSUME NEW v \in Writers PROVE v \in Busy
    <3>1. v \in Workers /\ v # w /\ pc[v] \in Setting
      BY <1>1 DEF Writers, Writing, Setting
    <3>2. call[v].token \in Tokens
      BY <3>1 DEF IInv, TypeOK
    <3> QED BY <3>1, <3>2, SessionsAssumption DEF Pending, Map!Nothing
  <2> QED BY <2>1, <2>2, FS_Subset, SessionsAssumption
<1>10. Cardinality(Busy) \in Nat /\ Cardinality(Writers) <= Cardinality(Busy)
  <2> HIDE DEF Busy
  <2> QED BY <1>9, FS_Subset, FS_CardinalityType
<1>11. MaxSessions <= Cardinality(Valued) + deaths + Cardinality(Busy)
  <2> HIDE DEF Busy
  <2> QED BY <1>8, <1>10, SetsFinite, SessionsAssumption
<1>12. /\ \A v \in Workers : [u \in Workers |-> Pending(u)][v] = Pending(v)
       /\ \A t \in Tokens : [u \in Tokens |-> Value(u)][t] = Value(t)
  OBVIOUS
<1>13. Map!Others(w) = Busy
  BY <1>12 DEF Map!Others
<1>14. {t \in Tokens : [u \in Tokens |-> Value(u)][t] # NoDb} = Valued
  BY <1>12 DEF Valued
<1>15. Cardinality({t \in Tokens : [u \in Tokens |-> Value(u)][t] # NoDb}) + deaths
         + Cardinality(Map!Others(w)) >= MaxSessions
  <2> HIDE DEF Busy
  <2> QED BY <1>8, <1>10, <1>11, <1>13, <1>14, SessionsAssumption
<1>16. UNCHANGED <<[t \in Tokens |-> Value(t)], deaths, clashed>>
  BY <1>1, <1>5
<1>17. [v \in Workers |-> Pending(v)]' =
         [[v \in Workers |-> Pending(v)] EXCEPT ![w] = Map!Nothing]
  BY <1>3, <1>4
<1>18. /\ [v \in Workers |-> Pending(v)][w] = call[w]
       /\ [v \in Workers |-> Pending(v)][w] # Map!Nothing
       /\ [u \in Tokens |-> Value(u)][call[w].token] = NoDb
  BY <1>1, <1>2, <1>6
<1>19. \A S : Map!Cardinality(S) = Cardinality(S)
  BY DEF Map!Cardinality, Cardinality
<1> QED BY <1>15, <1>16, <1>17, <1>18, <1>19 DEF Map!Refuse

(* A worker that dies breaks its assignment off.                            *)
LEMMA MapBreakOff ==
  ASSUME IInv, IInv', ~clashed, ~clashed', NEW w \in Workers, Dies(w)
  PROVE  Map!BreakOff(w)
<1>1. /\ pc[w] \in Setting /\ pc'[w] = "idle"
      /\ \A v \in Workers \ {w} : pc'[v] = pc[v]
      /\ UNCHANGED <<slots, call>> /\ deaths' = deaths + 1 /\ clashed' = clashed
      /\ call[w].token \in Tokens
  BY DEF Dies, Moves, IInv, TypeOK
<1>2. Pending(w) # Map!Nothing
  BY <1>1, SessionsAssumption DEF Pending, Map!Nothing
<1>3. Pending(w)' = Map!Nothing
  BY <1>1 DEF Pending, Setting, Searching, Map!Nothing
<1>4. \A v \in Workers \ {w} : Pending(v)' = Pending(v)
  BY <1>1 DEF Pending
<1>5. \A t \in Tokens : Value(t)' = Value(t)
  BY <1>1, ValueStays
<1>6. [v \in Workers |-> Pending(v)]' =
        [[v \in Workers |-> Pending(v)] EXCEPT ![w] = Map!Nothing]
  BY <1>3, <1>4
<1>7. UNCHANGED <<[t \in Tokens |-> Value(t)], clashed>> /\ deaths' = deaths + 1
  BY <1>1, <1>5
<1>8. [v \in Workers |-> Pending(v)][w] # Map!Nothing
  BY <1>2
<1> QED BY <1>6, <1>7, <1>8 DEF Map!BreakOff

(* The steps together; after a clash the map promises nothing.              *)
LEMMA MapNext ==
  MapInv /\ MapInv' /\ [Next]_vars => [Map!Next]_(Map!vars)
<1> SUFFICES ASSUME MapInv, MapInv', [Next]_vars PROVE [Map!Next]_(Map!vars)
  OBVIOUS
<1> USE DEF MapInv
<1>1. CASE clashed'
  BY <1>1 DEF Map!Next, Map!Spoil
<1>2. ASSUME ~clashed', NEW w \in Workers, Step(w)
      PROVE  [Map!Next]_(Map!vars)
  <2>1. ~clashed
    BY <1>2 DEF Step, SetStep, GetStep, BeginSet, FindSlot, NotFound, FindFree,
       NoFreeSlot, Claim, WriteToken, WriteDb, BeginGet, GetFound,
       GetNext, GetNothing, Got, Return, Dies, Moves
  <2>2. CASE BeginSet(w)
    BY <1>2, <2>1, <2>2, MapBegin DEF Map!Next
  <2>3. CASE WriteDb(w, 2)
    BY <1>2, <2>1, <2>3, MapAssign DEF Map!Next
  <2>4. CASE NoFreeSlot(w)
    BY <1>2, <2>1, <2>4, MapRefuse DEF Map!Next
  <2>5. CASE Dies(w)
    BY <1>2, <2>1, <2>5, MapBreakOff DEF Map!Next
  <2>6. CASE \/ FindSlot(w) \/ NotFound(w) \/ FindFree(w) \/ GetStep(w) \/ Claim(w)
             \/ (\E half \in 1 .. 2 : WriteToken(w, half)) \/ WriteDb(w, 1)
    BY <1>2, <2>1, <2>6, MapQuiet
  <2>7. (\E half \in 1 .. 2 : WriteDb(w, half)) => WriteDb(w, 1) \/ WriteDb(w, 2)
    OBVIOUS
  <2> QED BY <1>2, <2>2, <2>3, <2>4, <2>5, <2>6, <2>7 DEF Step, SetStep
<1>3. CASE UNCHANGED vars
  <2>1. UNCHANGED <<slots, pc, call, deaths, clashed>>
    BY <1>3 DEF vars, history
  <2>2. \A t \in Tokens : Value(t)' = Value(t)
    BY <2>1, ValueStays
  <2>3. \A w \in Workers : Pending(w)' = Pending(w)
    BY <2>1 DEF Pending
  <2> QED BY <2>1, <2>2, <2>3 DEF Map!vars
<1> QED BY <1>1, <1>2, <1>3 DEF Next, Step

(* For any number of workers, sessions and slots, the array of              *)
(* set_session_db and get_session_db is a map with a slot for each session, *)
(* up to the first time two calls get in each other's way                   *)
(* (AsyncManager.cpp:135-174).                                              *)
THEOREM MapCorrect == Spec => ImplementsMap
<1>1. Init => Map!Init
  BY MapInit
<1>2. MapInv /\ MapInv' /\ [Next]_vars => [Map!Next]_(Map!vars)
  BY MapNext
<1> QED BY <1>1, <1>2, MapInvariance, PTL DEF Spec, ImplementsMap, Map!Spec
=============================================================================
