---------------------------- MODULE RightsProofs ----------------------------
(***************************************************************************)
(* For any number of workers, users, groups, rights and rows: access       *)
(* checks allow only what the user is entitled to, deny nothing to which   *)
(* he was entitled throughout, and GRANT and REVOKE do what they answer.   *)
(***************************************************************************)
EXTENDS RightsProperties, TLAPS

-----------------------------------------------------------------------------
(* The inductive invariant.                                                 *)

(* What was there throughout the statement is on the pages it knows.        *)
SteadyKnown ==
  \A w \in Workers : /\ steady[w] \subseteq known[w]
                     /\ steadyGroups[w] \subseteq knownGroups[w]

(* A check that has gone on past a place has no steady right there; each    *)
(* group it still has to look up is one its user has belonged to.           *)
CheckProgress(w) ==
  /\ pc[w] \in {"own", "memberships", "groups"} =>
       ~HasMatch(steady[w], Public, BOOLEAN, request[w])
  /\ pc[w] \in {"memberships", "groups"} =>
       ~HasMatch(steady[w], request[w].user, {FALSE}, request[w])
  /\ pc[w] = "groups" =>
       /\ \A m \in steadyGroups[w] :
            m.user = request[w].user
              /\ HasMatch(steady[w], m.group, {TRUE}, request[w])
              => m.group \in groups[w]
       /\ \A g \in groups[w] :
            \E m \in met[w] : m.user = request[w].user /\ m.group = g
  /\ pc[w] = "denied" /\ request[w].db # System =>
       ~Entitled(steady[w], steadyGroups[w], request[w])

(* The actions a REVOKE has dealt with have no steady row, and those a      *)
(* GRANT has dealt with have a row it knows.                                *)
RevokedBefore(w, n) ==
  \A i \in DOMAIN request[w].actions, r \in steady[w] :
    i < n => ~Concerns(request[w], request[w].actions[i], r)
GrantedBefore(w, n) ==
  \A i \in DOMAIN request[w].actions :
    i < n => \E r \in known[w] : Concerns(request[w], request[w].actions[i], r)
ChangeProgress(w) ==
  /\ pc[w] \in {"revoke", "revoked"} => RevokedBefore(w, at[w])
  /\ pc[w] \in {"grant", "granted"} /\ ~disturbed[w] => GrantedBefore(w, at[w])
  /\ pc[w] \in {"revoked", "granted"} => at[w] > Len(request[w].actions)

IInv ==
  /\ TypeOK
  /\ SteadyKnown
  /\ \A w \in Workers : CheckProgress(w) /\ ChangeProgress(w)

-----------------------------------------------------------------------------
(* What matches among some rows matches among more.                         *)
LEMMA MoreRows ==
  ASSUME NEW S, NEW T, S \subseteq T, NEW name, NEW asGroup, NEW q,
         HasMatch(S, name, asGroup, q)
  PROVE  HasMatch(T, name, asGroup, q)
BY DEF HasMatch

(* The actions of a request can be numbered.                                *)
LEMMA Numbered ==
  ASSUME NEW c \in Grants \cup Revokes
  PROVE  Len(c.actions) \in Nat /\ DOMAIN c.actions = 1 .. Len(c.actions)
BY RightsAssumption, SMT

LEMMA InitIInv == Init => IInv
<1> SUFFICES ASSUME Init PROVE IInv
  OBVIOUS
<1>1. TypeOK
  <2>1. \A w \in Workers : pc[w] = "idle" /\ user_groups \subseteq met[w]
    BY DEF Init
  <2>2. pc \in [Workers -> {"idle"} \cup Running \cup Finished]
    BY DEF Init
  <2>3. /\ at \in [Workers -> Nat \ {0}]
        /\ request \in
             [Workers -> Checks \cup Grants \cup Revokes \cup Joins \cup {NoRequest}]
        /\ DOMAIN groups = Workers /\ DOMAIN met = Workers
    BY DEF Init
  <2>5. disturbed \in [Workers -> BOOLEAN]
    BY Zenon DEF Init
  <2>4. /\ known \in [Workers -> SUBSET permissions]
        /\ knownGroups \in [Workers -> SUBSET user_groups]
        /\ steady \in [Workers -> SUBSET permissions]
        /\ steadyGroups \in [Workers -> SUBSET user_groups]
    BY DEF Init
  <2> QED BY <2>1, <2>2, <2>3, <2>4, <2>5 DEF TypeOK, InCheck
<1>2. SteadyKnown
  BY DEF Init, SteadyKnown
<1>3. \A w \in Workers : CheckProgress(w) /\ ChangeProgress(w)
  BY DEF Init, CheckProgress, ChangeProgress
<1> QED BY <1>1, <1>2, <1>3 DEF IInv

-----------------------------------------------------------------------------
(* A step of another worker leaves a statement where it is, takes nothing   *)
(* to what is steady and nothing from what has been met.                    *)
Undisturbed(v) ==
  /\ pc'[v] = pc[v] /\ request'[v] = request[v]
  /\ at'[v] = at[v] /\ groups'[v] = groups[v]
  /\ steady'[v] \subseteq steady[v]
  /\ steadyGroups'[v] \subseteq steadyGroups[v]
  /\ met[v] \subseteq met'[v]
  /\ ~disturbed'[v] => ~disturbed[v] /\ known[v] \subseteq known'[v]

LEMMA UndisturbedKeeps ==
  ASSUME NEW v \in Workers, Undisturbed(v), CheckProgress(v), ChangeProgress(v)
  PROVE  CheckProgress(v)' /\ ChangeProgress(v)'
<1>1. \A name, asGroup, q :
        HasMatch(steady'[v], name, asGroup, q) => HasMatch(steady[v], name, asGroup, q)
  BY MoreRows DEF Undisturbed
<1>2. CheckProgress(v)'
  <2>1. \A q : Entitled(steady'[v], steadyGroups'[v], q)
                 => Entitled(steady[v], steadyGroups[v], q)
    BY <1>1 DEF Entitled, Undisturbed
  <2> QED BY <1>1, <2>1 DEF CheckProgress, Undisturbed
<1>3. ChangeProgress(v)'
  BY DEF ChangeProgress, RevokedBefore, GrantedBefore, Undisturbed
<1> QED BY <1>2, <1>3

(* What Moves does to the others and to itself.                             *)
LEMMA MovesFrame ==
  ASSUME TypeOK, SteadyKnown, NEW w \in Workers, NEW where, Moves(w, where),
         where \in {"idle"} \cup Running \cup Finished
  PROVE  /\ pc' \in [Workers -> {"idle"} \cup Running \cup Finished]
         /\ pc'[w] = where
         /\ \A v \in Workers \ {w} : pc'[v] = pc[v]
         /\ known' \in [Workers -> SUBSET permissions']
         /\ knownGroups' \in [Workers -> SUBSET user_groups']
         /\ steady' \in [Workers -> SUBSET permissions']
         /\ steadyGroups' \in [Workers -> SUBSET user_groups']
         /\ \A v \in Workers : user_groups' \subseteq met'[v]
         /\ disturbed' \in [Workers -> BOOLEAN]
         /\ SteadyKnown'
         /\ steady'[w] = steady[w] \cap permissions'
         /\ steadyGroups'[w] = steadyGroups[w] \cap user_groups'
         /\ known'[w] = permissions'
         /\ met[w] \subseteq met'[w]
         /\ disturbed'[w] = disturbed[w]
<1>1. /\ pc' \in [Workers -> {"idle"} \cup Running \cup Finished]
      /\ pc'[w] = where
      /\ \A v \in Workers \ {w} : pc'[v] = pc[v]
  BY DEF Moves, TypeOK
<1>2. /\ known' \in [Workers -> SUBSET permissions']
      /\ knownGroups' \in [Workers -> SUBSET user_groups']
      /\ steady' \in [Workers -> SUBSET permissions']
      /\ steadyGroups' \in [Workers -> SUBSET user_groups']
      /\ \A v \in Workers : user_groups' \subseteq met'[v]
  BY DEF Moves
<1>3. /\ disturbed' \in [Workers -> BOOLEAN]
      /\ disturbed'[w] = disturbed[w]
  BY DEF Moves, TypeOK
<1>4. SteadyKnown'
  BY DEF Moves, SteadyKnown
<1>5. /\ steady'[w] = steady[w] \cap permissions'
      /\ steadyGroups'[w] = steadyGroups[w] \cap user_groups'
      /\ known'[w] = permissions'
      /\ met[w] \subseteq met'[w]
  BY DEF Moves
<1> QED BY <1>1, <1>2, <1>3, <1>4, <1>5

LEMMA MovesOthers ==
  ASSUME TypeOK, NEW w \in Workers, NEW where, Moves(w, where),
         NEW v \in Workers, v # w,
         request'[v] = request[v], at'[v] = at[v], groups'[v] = groups[v]
  PROVE  Undisturbed(v)
<1>1. pc'[v] = pc[v]
  BY DEF Moves, TypeOK
<1>2. /\ steady'[v] \subseteq steady[v]
      /\ steadyGroups'[v] \subseteq steadyGroups[v]
      /\ met[v] \subseteq met'[v]
  BY DEF Moves
<1>3. ASSUME ~disturbed'[v]
      PROVE  ~disturbed[v] /\ known[v] \subseteq known'[v]
  <2>1. ~disturbed[v] /\ permissions \subseteq permissions'
    BY <1>3 DEF Moves
  <2>2. known'[v] = known[v] \cap permissions' /\ known[v] \subseteq permissions
    BY DEF Moves, TypeOK
  <2> QED BY <2>1, <2>2
<1> QED BY <1>1, <1>2, <1>3 DEF Undisturbed

-----------------------------------------------------------------------------
(* The beginning of a statement.                                            *)
Kind(where, r) ==
  /\ where \in {"allowed", "denied", "public", "grant", "revoke", "join"}
  /\ r \in Checks \cup Grants \cup Revokes \cup Joins
  /\ where = "grant" => r \in Grants
  /\ where = "revoke" => r \in Revokes
  /\ where = "join" => r \in Joins
  /\ where = "public" => r \in Checks
  /\ where = "denied" => r.db = System

LEMMA BeginsKeeps ==
  ASSUME IInv, NEW w \in Workers, NEW where, NEW r, Kind(where, r),
         Begins(w, where, r)
  PROVE  IInv'
<1>0. TypeOK /\ SteadyKnown
  BY DEF IInv
<1>1. /\ pc'[w] = where /\ request'[w] = r /\ at'[w] = 1
      /\ steady'[w] = permissions /\ known'[w] = permissions
      /\ steadyGroups'[w] = user_groups /\ knownGroups'[w] = user_groups
      /\ met'[w] = user_groups
  BY <1>0 DEF Begins, TypeOK
<1>2. \A v \in Workers : v # w =>
        /\ pc'[v] = pc[v] /\ request'[v] = request[v]
        /\ at'[v] = at[v] /\ groups'[v] = groups[v]
        /\ steady'[v] = steady[v] /\ known'[v] = known[v]
        /\ steadyGroups'[v] = steadyGroups[v]
        /\ knownGroups'[v] = knownGroups[v]
        /\ met'[v] = met[v] /\ disturbed'[v] = disturbed[v]
  BY <1>0 DEF Begins, TypeOK
<1>3. permissions' = permissions /\ user_groups' = user_groups
  BY DEF Begins, tables
<1>4. TypeOK'
  <2>1. /\ pc' \in [Workers -> {"idle"} \cup Running \cup Finished]
        /\ request' \in
             [Workers -> Checks \cup Grants \cup Revokes \cup Joins \cup {NoRequest}]
    BY <1>0 DEF Begins, TypeOK, Kind, Running, Finished
  <2>2. /\ at' \in [Workers -> Nat \ {0}]
        /\ DOMAIN groups' = Workers /\ DOMAIN met' = Workers
        /\ disturbed' \in [Workers -> BOOLEAN]
    BY <1>0 DEF Begins, TypeOK
  <2>3. /\ known' \in [Workers -> SUBSET permissions']
        /\ knownGroups' \in [Workers -> SUBSET user_groups']
        /\ steady' \in [Workers -> SUBSET permissions']
        /\ steadyGroups' \in [Workers -> SUBSET user_groups']
    BY <1>0, <1>3 DEF Begins, TypeOK
  <2>4. \A v \in Workers :
          /\ pc'[v] \in {"grant", "granted"} => request'[v] \in Grants
          /\ pc'[v] \in {"revoke", "revoked"} => request'[v] \in Revokes
          /\ pc'[v] = "join" => request'[v] \in Joins
          /\ pc'[v] \in InCheck => request'[v] \in Checks
          /\ user_groups' \subseteq met'[v]
    BY <1>0, <1>1, <1>2, <1>3 DEF TypeOK, Kind, InCheck
  <2> QED BY <2>1, <2>2, <2>3, <2>4 DEF TypeOK
<1>5. SteadyKnown'
  BY <1>0, <1>1, <1>2 DEF SteadyKnown
<1>6. ASSUME NEW v \in Workers
      PROVE  CheckProgress(v)' /\ ChangeProgress(v)'
  <2>1. CASE v = w
    <3>1. CheckProgress(w)'
      BY <1>1 DEF CheckProgress, Kind
    <3>2. ChangeProgress(w)'
      <4>1. pc'[w] \in {"revoke", "grant"} => request'[w] \in Grants \cup Revokes
        BY <1>1 DEF Kind
      <4>2. ASSUME request'[w] \in Grants \cup Revokes
            PROVE  \A i \in DOMAIN request'[w].actions : ~(i < at'[w])
        BY <1>1, <4>2, Numbered
      <4> QED BY <1>1, <4>1, <4>2 DEF ChangeProgress, RevokedBefore,
                GrantedBefore, Kind
    <3> QED BY <2>1, <3>1, <3>2
  <2>2. CASE v # w
    BY <1>2, <2>2, UndisturbedKeeps DEF Undisturbed, IInv
  <2> QED BY <2>1, <2>2
<1> QED BY <1>4, <1>5, <1>6 DEF IInv

-----------------------------------------------------------------------------
(* Any other step: what is left to show is the progress of its own worker.  *)
Continues(w, where) ==
  /\ where \in {"grant", "granted"} => request[w] \in Grants
  /\ where \in {"revoke", "revoked"} => request[w] \in Revokes
  /\ where \in InCheck => request[w] \in Checks
  /\ where # "join" /\ where \in {"idle"} \cup Running \cup Finished

LEMMA StepKeeps ==
  ASSUME IInv, NEW w \in Workers, NEW where, Moves(w, where),
         Continues(w, where), request' = request,
         at' \in [Workers -> Nat \ {0}], DOMAIN groups' = Workers,
         \A v \in Workers : v # w => at'[v] = at[v] /\ groups'[v] = groups[v],
         CheckProgress(w)', ChangeProgress(w)'
  PROVE  IInv'
<1>0. TypeOK /\ SteadyKnown
  BY DEF IInv
<1>1. /\ pc' \in [Workers -> {"idle"} \cup Running \cup Finished]
      /\ pc'[w] = where
      /\ \A v \in Workers \ {w} : pc'[v] = pc[v]
      /\ known' \in [Workers -> SUBSET permissions']
      /\ knownGroups' \in [Workers -> SUBSET user_groups']
      /\ steady' \in [Workers -> SUBSET permissions']
      /\ steadyGroups' \in [Workers -> SUBSET user_groups']
      /\ \A v \in Workers : user_groups' \subseteq met'[v]
      /\ disturbed' \in [Workers -> BOOLEAN]
      /\ SteadyKnown'
  BY <1>0, MovesFrame DEF Continues
<1>2. TypeOK'
  <2>1. \A v \in Workers :
          /\ pc'[v] \in {"grant", "granted"} => request'[v] \in Grants
          /\ pc'[v] \in {"revoke", "revoked"} => request'[v] \in Revokes
          /\ pc'[v] = "join" => request'[v] \in Joins
          /\ pc'[v] \in InCheck => request'[v] \in Checks
    BY <1>0, <1>1 DEF TypeOK, Continues
  <2>2. DOMAIN met' = Workers
    BY DEF Moves
  <2>3. request' \in
          [Workers -> Checks \cup Grants \cup Revokes \cup Joins \cup {NoRequest}]
    BY <1>0 DEF TypeOK
  <2> QED BY <1>1, <2>1, <2>2, <2>3 DEF TypeOK
<1>3. ASSUME NEW v \in Workers, v # w
      PROVE  CheckProgress(v)' /\ ChangeProgress(v)'
  BY <1>0, <1>3, MovesOthers, UndisturbedKeeps DEF IInv
<1> QED BY <1>1, <1>2, <1>3 DEF IInv

(* A step that only reads has left the tables and what is steady alone.     *)
LEMMA ReadKeeps ==
  ASSUME IInv, NEW w \in Workers, NEW where, Reads(w, where),
         Continues(w, where), DOMAIN groups' = Workers,
         \A v \in Workers : v # w => groups'[v] = groups[v],
         pc'[w] = where /\ steady'[w] = steady[w]
           /\ steadyGroups'[w] = steadyGroups[w] /\ met[w] \subseteq met'[w]
           /\ request'[w] = request[w] /\ at'[w] = at[w]
           /\ known[w] \subseteq known'[w] /\ disturbed'[w] = disturbed[w]
           => CheckProgress(w)' /\ ChangeProgress(w)'
  PROVE  IInv'
<1>0. TypeOK /\ SteadyKnown
  BY DEF IInv
<1>1. /\ request' = request /\ at' = at
      /\ permissions' = permissions /\ user_groups' = user_groups
      /\ Moves(w, where)
  BY DEF Reads, tables
<1>2. /\ pc'[w] = where
      /\ steady'[w] = steady[w] \cap permissions'
      /\ steadyGroups'[w] = steadyGroups[w] \cap user_groups'
      /\ known'[w] = permissions' /\ met[w] \subseteq met'[w]
      /\ disturbed'[w] = disturbed[w]
  BY <1>0, <1>1, MovesFrame DEF Continues
<1>3. /\ steady[w] \subseteq permissions /\ steadyGroups[w] \subseteq user_groups
      /\ known[w] \subseteq permissions
  BY <1>0 DEF TypeOK
<1>4. CheckProgress(w)' /\ ChangeProgress(w)'
  BY <1>1, <1>2, <1>3
<1>5. at' \in [Workers -> Nat \ {0}]
  BY <1>0, <1>1 DEF TypeOK
<1> QED BY <1>1, <1>4, <1>5, StepKeeps

(* What a scan did not find is nowhere among the steady rows.               *)
LEMMA NotSeenNotSteady ==
  ASSUME IInv, NEW w \in Workers, NEW seen \in Views(permissions, known[w]),
         NEW name, NEW asGroup, NEW q, ~HasMatch(seen, name, asGroup, q)
  PROVE  ~HasMatch(steady[w], name, asGroup, q)
<1>1. steady[w] \subseteq seen
  BY DEF IInv, TypeOK, SteadyKnown, Views
<1> QED BY <1>1, MoreRows

-----------------------------------------------------------------------------
(* The steps of checkAccess.                                                *)

LEMMA CheckPublicKeeps ==
  ASSUME IInv, NEW w \in Workers, CheckPublic(w)
  PROVE  IInv'
<1>1. PICK seen \in Views(permissions, known[w]) :
        Reads(w, IF HasMatch(seen, Public, BOOLEAN, request[w])
                 THEN "allowed" ELSE "own")
  BY DEF CheckPublic
<1>2. groups' = groups /\ DOMAIN groups = Workers /\ request[w] \in Checks
  BY DEF CheckPublic, IInv, TypeOK, InCheck
<1>3. CASE HasMatch(seen, Public, BOOLEAN, request[w])
  <2>1. Reads(w, "allowed") /\ Continues(w, "allowed")
    BY <1>1, <1>3 DEF Continues, InCheck, Finished
  <2> QED BY <1>2, <2>1, ReadKeeps DEF CheckProgress, ChangeProgress
<1>4. CASE ~HasMatch(seen, Public, BOOLEAN, request[w])
  <2>1. Reads(w, "own") /\ Continues(w, "own")
    BY <1>1, <1>2, <1>4 DEF Continues, InCheck, Running
  <2>2. ~HasMatch(steady[w], Public, BOOLEAN, request[w])
    BY <1>4, NotSeenNotSteady
  <2> QED BY <1>2, <2>1, <2>2, ReadKeeps DEF CheckProgress, ChangeProgress
<1> QED BY <1>3, <1>4

LEMMA CheckOwnKeeps ==
  ASSUME IInv, NEW w \in Workers, CheckOwn(w)
  PROVE  IInv'
<1>1. PICK seen \in Views(permissions, known[w]) :
        Reads(w, IF HasMatch(seen, request[w].user, {FALSE}, request[w])
                 THEN "allowed" ELSE "memberships")
  BY DEF CheckOwn
<1>2. /\ groups' = groups /\ DOMAIN groups = Workers /\ request[w] \in Checks
      /\ ~HasMatch(steady[w], Public, BOOLEAN, request[w])
  BY DEF CheckOwn, IInv, TypeOK, InCheck, CheckProgress
<1>3. CASE HasMatch(seen, request[w].user, {FALSE}, request[w])
  <2>1. Reads(w, "allowed") /\ Continues(w, "allowed")
    BY <1>1, <1>3 DEF Continues, InCheck, Finished
  <2> QED BY <1>2, <2>1, ReadKeeps DEF CheckProgress, ChangeProgress
<1>4. CASE ~HasMatch(seen, request[w].user, {FALSE}, request[w])
  <2>1. Reads(w, "memberships") /\ Continues(w, "memberships")
    BY <1>1, <1>2, <1>4 DEF Continues, InCheck, Running
  <2>2. ~HasMatch(steady[w], request[w].user, {FALSE}, request[w])
    BY <1>4, NotSeenNotSteady
  <2> QED BY <1>2, <2>1, <2>2, ReadKeeps DEF CheckProgress, ChangeProgress
<1> QED BY <1>3, <1>4

LEMMA ReadMembershipsKeeps ==
  ASSUME IInv, NEW w \in Workers, ReadMemberships(w)
  PROVE  IInv'
<1>1. PICK seen \in Views(user_groups, knownGroups[w]) :
        groups' = [groups EXCEPT ![w] = GroupsOf(seen, request[w].user)]
  BY DEF ReadMemberships
<1>2. /\ DOMAIN groups = Workers /\ request[w] \in Checks
      /\ ~HasMatch(steady[w], Public, BOOLEAN, request[w])
      /\ ~HasMatch(steady[w], request[w].user, {FALSE}, request[w])
      /\ user_groups \subseteq met[w] /\ steadyGroups[w] \subseteq knownGroups[w]
      /\ steadyGroups[w] \subseteq user_groups
  BY DEF ReadMemberships, IInv, TypeOK, InCheck, CheckProgress, SteadyKnown
<1>3. Reads(w, "groups") /\ Continues(w, "groups")
  BY <1>2 DEF ReadMemberships, Continues, InCheck, Running
<1>4. /\ groups'[w] = {m.group : m \in {n \in seen : n.user = request[w].user}}
      /\ steadyGroups[w] \subseteq seen /\ seen \subseteq met[w]
  BY <1>1, <1>2 DEF GroupsOf, Views
<1>5. /\ \A m \in steadyGroups[w] :
           m.user = request[w].user => m.group \in groups'[w]
      /\ \A g \in groups'[w] :
           \E m \in met[w] : m.user = request[w].user /\ m.group = g
  BY <1>4
<1>6. /\ DOMAIN groups' = Workers
      /\ \A v \in Workers : v # w => groups'[v] = groups[v]
  BY <1>1, <1>2
<1> QED BY <1>2, <1>3, <1>5, <1>6, ReadKeeps DEF CheckProgress, ChangeProgress

LEMMA CheckGroupKeeps ==
  ASSUME IInv, NEW w \in Workers, CheckGroup(w)
  PROVE  IInv'
<1>1. PICK g \in groups[w], seen \in Views(permissions, known[w]) :
        /\ Reads(w, IF HasMatch(seen, g, {TRUE}, request[w])
                    THEN "allowed" ELSE "groups")
        /\ groups' = [groups EXCEPT ![w] = groups[w] \ {g}]
  BY DEF CheckGroup
<1>2. /\ DOMAIN groups = Workers /\ request[w] \in Checks
      /\ pc[w] = "groups" /\ CheckProgress(w)
  BY DEF CheckGroup, IInv, TypeOK, InCheck
<1>3. /\ DOMAIN groups' = Workers /\ groups'[w] = groups[w] \ {g}
      /\ \A v \in Workers : v # w => groups'[v] = groups[v]
  BY <1>1, <1>2
<1>4. CASE HasMatch(seen, g, {TRUE}, request[w])
  <2>1. Reads(w, "allowed") /\ Continues(w, "allowed")
    BY <1>1, <1>4 DEF Continues, InCheck, Finished
  <2> QED BY <1>3, <2>1, ReadKeeps DEF CheckProgress, ChangeProgress
<1>5. CASE ~HasMatch(seen, g, {TRUE}, request[w])
  <2>1. Reads(w, "groups") /\ Continues(w, "groups")
    BY <1>1, <1>2, <1>5 DEF Continues, InCheck, Running
  <2>2. ~HasMatch(steady[w], g, {TRUE}, request[w])
    BY <1>5, NotSeenNotSteady
  <2>3. /\ ~HasMatch(steady[w], Public, BOOLEAN, request[w])
        /\ ~HasMatch(steady[w], request[w].user, {FALSE}, request[w])
        /\ \A m \in steadyGroups[w] :
             m.user = request[w].user
               /\ HasMatch(steady[w], m.group, {TRUE}, request[w])
               => m.group \in groups'[w]
        /\ \A h \in groups'[w] :
             \E m \in met[w] : m.user = request[w].user /\ m.group = h
    BY <1>2, <1>3, <2>2 DEF CheckProgress
  <2> QED BY <1>3, <2>1, <2>3, ReadKeeps DEF CheckProgress, ChangeProgress
<1> QED BY <1>4, <1>5

LEMMA NoMoreGroupsKeeps ==
  ASSUME IInv, NEW w \in Workers, NoMoreGroups(w)
  PROVE  IInv'
<1>1. /\ groups' = groups /\ DOMAIN groups = Workers /\ groups[w] = {}
      /\ pc[w] = "groups" /\ CheckProgress(w)
  BY DEF NoMoreGroups, IInv, TypeOK
<1>2. Reads(w, "denied") /\ Continues(w, "denied")
  BY DEF NoMoreGroups, Continues, InCheck, Finished
<1>3. ~Entitled(steady[w], steadyGroups[w], request[w])
  BY <1>1 DEF CheckProgress, Entitled
<1> QED BY <1>1, <1>2, <1>3, ReadKeeps DEF CheckProgress, ChangeProgress

-----------------------------------------------------------------------------
(* The steps of the administrator's statements.                             *)

LEMMA GrantOneKeeps ==
  ASSUME IInv, NEW w \in Workers, GrantOne(w)
  PROVE  IInv'
<1>0. TypeOK /\ SteadyKnown
  BY DEF IInv
<1> DEFINE c == request[w]
           n == at[w]
<1>1. /\ c \in Grants /\ n \in Nat \ {0} /\ DOMAIN groups = Workers
      /\ known[w] \subseteq permissions
  BY <1>0 DEF GrantOne, TypeOK
<1>2. /\ request' = request /\ groups' = groups /\ Moves(w, "grant")
      /\ at' \in [Workers -> Nat \ {0}] /\ at'[w] = n + 1
      /\ \A v \in Workers : v # w => at'[v] = at[v]
  BY <1>0 DEF GrantOne, TypeOK
<1> PICK id \in Free(permissions) :
      permissions' \in
        Insertions(permissions, known[w], Entry(c, c.actions[n], id))
  BY DEF GrantOne
<1>3. PICK lost \in SUBSET (permissions \ known[w]) :
        permissions' = (permissions \ lost) \cup {Entry(c, c.actions[n], id)}
  BY DEF Insertions
<1>4. /\ pc'[w] = "grant" /\ known'[w] = permissions'
      /\ disturbed'[w] = disturbed[w]
  BY <1>0, <1>2, MovesFrame DEF Running
<1>5. known[w] \subseteq known'[w] /\ Entry(c, c.actions[n], id) \in known'[w]
  BY <1>1, <1>3, <1>4
<1>6. Concerns(c, c.actions[n], Entry(c, c.actions[n], id))
  BY DEF Concerns, Entry
<1>7. ASSUME ~disturbed[w]
      PROVE  \A i \in DOMAIN c.actions :
               i < n + 1 => \E r \in known'[w] : Concerns(c, c.actions[i], r)
  <2> TAKE i \in DOMAIN c.actions
  <2> HAVE i < n + 1
  <2>1. DOMAIN c.actions = 1 .. Len(c.actions) /\ Len(c.actions) \in Nat
    BY <1>1, Numbered
  <2>2. CASE i = n
    BY <2>2, <1>5, <1>6
  <2>3. CASE i # n
    <3>1. i < n
      BY <1>1, <2>1, <2>3
    <3>2. GrantedBefore(w, n)
      BY <1>7 DEF GrantOne, IInv, ChangeProgress
    <3>3. PICK r \in known[w] : Concerns(c, c.actions[i], r)
      BY <3>1, <3>2 DEF GrantedBefore
    <3> QED BY <3>3, <1>5
  <2> QED BY <2>2, <2>3
<1>8. ChangeProgress(w)'
  BY <1>2, <1>4, <1>7 DEF ChangeProgress, GrantedBefore
<1>9. CheckProgress(w)'
  BY <1>4 DEF CheckProgress
<1>10. Continues(w, "grant")
  BY <1>1 DEF Continues, InCheck, Running
<1> QED BY <1>1, <1>2, <1>8, <1>9, <1>10, StepKeeps

LEMMA RevokeOneKeeps ==
  ASSUME IInv, NEW w \in Workers, RevokeOne(w)
  PROVE  IInv'
<1>0. TypeOK /\ SteadyKnown
  BY DEF IInv
<1> DEFINE c == request[w]
           n == at[w]
<1>1. /\ c \in Revokes /\ n \in Nat \ {0} /\ DOMAIN groups = Workers
      /\ steady[w] \subseteq permissions /\ steady[w] \subseteq known[w]
  BY <1>0 DEF RevokeOne, TypeOK, SteadyKnown
<1>2. /\ request' = request /\ groups' = groups /\ Moves(w, "revoke")
      /\ at' \in [Workers -> Nat \ {0}] /\ at'[w] = n + 1
      /\ \A v \in Workers : v # w => at'[v] = at[v]
  BY <1>0 DEF RevokeOne, TypeOK
<1>3. PICK seen \in Views(permissions, known[w]) :
        permissions' = permissions \ {r \in seen : Concerns(c, c.actions[n], r)}
  BY DEF RevokeOne
<1>4. pc'[w] = "revoke" /\ steady'[w] = steady[w] \cap permissions'
  BY <1>0, <1>2, MovesFrame DEF Running
<1>5. \A r \in steady'[w] : r \in steady[w] /\ ~Concerns(c, c.actions[n], r)
  BY <1>1, <1>3, <1>4 DEF Views
<1>6. ASSUME NEW i \in DOMAIN c.actions, NEW r \in steady'[w], i < n + 1
      PROVE  ~Concerns(c, c.actions[i], r)
  <2>1. DOMAIN c.actions = 1 .. Len(c.actions) /\ Len(c.actions) \in Nat
    BY <1>1, Numbered
  <2>2. CASE i = n
    BY <2>2, <1>5
  <2>3. CASE i # n
    <3>1. i < n
      BY <1>1, <1>6, <2>1, <2>3
    <3>2. RevokedBefore(w, n)
      BY DEF RevokeOne, IInv, ChangeProgress
    <3> QED BY <3>1, <3>2, <1>5 DEF RevokedBefore
  <2> QED BY <2>2, <2>3
<1>7. ChangeProgress(w)'
  BY <1>2, <1>4, <1>6 DEF ChangeProgress, RevokedBefore
<1>8. CheckProgress(w)'
  BY <1>4 DEF CheckProgress
<1>9. Continues(w, "revoke")
  BY <1>1 DEF Continues, InCheck, Running
<1> QED BY <1>1, <1>2, <1>7, <1>8, <1>9, StepKeeps

LEMMA ChangeDoneKeeps ==
  ASSUME IInv, NEW w \in Workers, ChangeDone(w)
  PROVE  IInv'
<1>1. /\ groups' = groups /\ DOMAIN groups = Workers
      /\ at[w] > Len(request[w].actions) /\ ChangeProgress(w)
  BY DEF ChangeDone, IInv, TypeOK
<1>2. CASE pc[w] = "grant"
  <2>1. Reads(w, "granted") /\ Continues(w, "granted")
    BY <1>2 DEF ChangeDone, Continues, InCheck, Finished, IInv, TypeOK
  <2>2. ~disturbed[w] => GrantedBefore(w, at[w])
    BY <1>1, <1>2 DEF ChangeProgress
  <2> QED BY <1>1, <2>1, <2>2, ReadKeeps
        DEF CheckProgress, ChangeProgress, GrantedBefore
<1>3. CASE pc[w] = "revoke"
  <2>1. Reads(w, "revoked") /\ Continues(w, "revoked")
    BY <1>3 DEF ChangeDone, Continues, InCheck, Finished, IInv, TypeOK
  <2>2. RevokedBefore(w, at[w])
    BY <1>1, <1>3 DEF ChangeProgress
  <2> QED BY <1>1, <2>1, <2>2, ReadKeeps
        DEF CheckProgress, ChangeProgress, RevokedBefore
<1> QED BY <1>2, <1>3 DEF ChangeDone

LEMMA JoinKeeps ==
  ASSUME IInv, NEW w \in Workers, Join(w)
  PROVE  IInv'
<1>1. /\ request' = request /\ groups' = groups /\ at' = at
      /\ DOMAIN groups = Workers /\ at' \in [Workers -> Nat \ {0}]
      /\ Moves(w, "joined") /\ Continues(w, "joined")
  BY DEF Join, IInv, TypeOK, Continues, InCheck, Finished
<1>2. pc'[w] = "joined"
  BY <1>1, MovesFrame DEF IInv, Finished
<1> QED BY <1>1, <1>2, StepKeeps DEF CheckProgress, ChangeProgress

LEMMA EndKeeps ==
  ASSUME IInv, NEW w \in Workers, Fails(w) \/ Answered(w)
  PROVE  IInv'
<1>1. groups' = groups /\ DOMAIN groups = Workers
  BY DEF Fails, Answered, IInv, TypeOK
<1>2. PICK where \in {"failed", "idle"} : Reads(w, where)
  BY DEF Fails, Answered
<1>3. Continues(w, where)
  BY DEF Continues, InCheck, Finished
<1> QED BY <1>1, <1>2, <1>3, ReadKeeps DEF CheckProgress, ChangeProgress

LEMMA BeginKeeps ==
  ASSUME IInv, NEW w \in Workers,
         BeginCheck(w) \/ BeginGrant(w) \/ BeginRevoke(w) \/ BeginJoin(w)
  PROVE  IInv'
<1>1. CASE BeginCheck(w)
  <2>1. PICK q \in Checks :
          Begins(w, IF q.user = Admin THEN "allowed"
                    ELSE IF q.db = System THEN "denied" ELSE "public", q)
    BY <1>1 DEF BeginCheck
  <2>2. Kind(IF q.user = Admin THEN "allowed"
             ELSE IF q.db = System THEN "denied" ELSE "public", q)
    BY DEF Kind
  <2> QED BY <2>1, <2>2, BeginsKeeps
<1>2. CASE BeginGrant(w)
  BY <1>2, BeginsKeeps DEF BeginGrant, Kind
<1>3. CASE BeginRevoke(w)
  BY <1>3, BeginsKeeps DEF BeginRevoke, Kind
<1>4. CASE BeginJoin(w)
  BY <1>4, BeginsKeeps DEF BeginJoin, Kind
<1> QED BY <1>1, <1>2, <1>3, <1>4

LEMMA StutterKeeps ==
  ASSUME IInv, UNCHANGED vars
  PROVE  IInv'
BY DEF vars, tables, files, history, IInv, TypeOK, SteadyKnown,
       CheckProgress, ChangeProgress, RevokedBefore, GrantedBefore

LEMMA NextIInv == IInv /\ [Next]_vars => IInv'
<1> SUFFICES ASSUME IInv, [Next]_vars PROVE IInv'
  OBVIOUS
<1>1. ASSUME NEW w \in Workers, Check(w) PROVE IInv'
  BY <1>1, BeginKeeps, CheckPublicKeeps, CheckOwnKeeps, ReadMembershipsKeeps,
     CheckGroupKeeps, NoMoreGroupsKeeps DEF Check
<1>2. ASSUME NEW w \in Workers, Change(w) PROVE IInv'
  BY <1>2, BeginKeeps, GrantOneKeeps, RevokeOneKeeps, ChangeDoneKeeps,
     JoinKeeps DEF Change
<1>3. ASSUME NEW w \in Workers, Fails(w) \/ Answered(w) PROVE IInv'
  BY <1>3, EndKeeps
<1>4. CASE UNCHANGED vars
  BY <1>4, StutterKeeps
<1> QED BY <1>1, <1>2, <1>3, <1>4 DEF Next

LEMMA IInvAlways == Spec => []IInv
BY InitIInv, NextIInv, PTL DEF Spec

-----------------------------------------------------------------------------
(* Every variable keeps its type.                                           *)
THEOREM RightsTypeCorrect == Spec => []TypeOK
<1>1. IInv => TypeOK
  BY DEF IInv
<1> QED BY <1>1, IInvAlways, PTL

(* checkAccess denies nothing to which the user was entitled throughout.    *)
THEOREM DeniedCorrect == Spec => []DeniedHadGap
<1>1. IInv => DeniedHadGap
  BY DEF IInv, CheckProgress, DeniedHadGap
<1> QED BY <1>1, IInvAlways, PTL

(* A REVOKE answered with success has removed what was there.               *)
THEOREM RevokeCorrect == Spec => []RevokeRemoves
<1>1. ASSUME IInv, NEW w \in Workers, pc[w] = "revoked",
             NEW i \in DOMAIN request[w].actions, NEW r \in steady[w]
      PROVE  ~Concerns(request[w], request[w].actions[i], r)
  <2>1. /\ request[w] \in Revokes /\ at[w] \in Nat
        /\ at[w] > Len(request[w].actions) /\ RevokedBefore(w, at[w])
    BY <1>1 DEF IInv, TypeOK, ChangeProgress
  <2>2. i < at[w]
    BY <2>1, Numbered
  <2> QED BY <2>1, <2>2 DEF RevokedBefore
<1>2. IInv => RevokeRemoves
  BY <1>1 DEF RevokeRemoves
<1> QED BY <1>2, IInvAlways, PTL

(* A GRANT answered with success has entered every right it names.          *)
THEOREM GrantCorrect == Spec => []GrantEnters
<1>1. ASSUME IInv, NEW w \in Workers, pc[w] = "granted", ~disturbed[w],
             NEW i \in DOMAIN request[w].actions
      PROVE  \E r \in permissions :
               Concerns(request[w], request[w].actions[i], r)
  <2>1. /\ request[w] \in Grants /\ at[w] \in Nat
        /\ at[w] > Len(request[w].actions) /\ GrantedBefore(w, at[w])
        /\ known[w] \subseteq permissions
    BY <1>1 DEF IInv, TypeOK, ChangeProgress
  <2>2. i < at[w]
    BY <2>1, Numbered
  <2> QED BY <2>1, <2>2 DEF GrantedBefore
<1>2. IInv => GrantEnters
  BY <1>1 DEF GrantEnters
<1> QED BY <1>2, IInvAlways, PTL

(* checkAccess allows only what the user is entitled to.                    *)
THEOREM AllowedCorrect == Spec => AllowedWasEntitled
<1>1. ASSUME IInv, NEW w \in Workers, Next, pc[w] \in InCheck,
             pc'[w] = "allowed"
      PROVE  Entitled(permissions, met[w], request[w])
  <2>0. pc \in [Workers -> {"idle"} \cup Running \cup Finished]
    BY <1>1 DEF IInv, TypeOK
  <2>1. PICK u \in Workers : Check(u) \/ Change(u) \/ Fails(u) \/ Answered(u)
    BY <1>1 DEF Next
  <2>2. u = w
    <3>1. \E where : pc' = [pc EXCEPT ![u] = where]
      <4>1. CASE Check(u)
        BY <4>1 DEF Check, BeginCheck, Begins, CheckPublic, CheckOwn,
             ReadMemberships, CheckGroup, NoMoreGroups, Reads, Moves
      <4>2. CASE Change(u)
        BY <4>2 DEF Change, BeginGrant, BeginRevoke, BeginJoin, Begins,
             GrantOne, RevokeOne, ChangeDone, Join, Reads, Moves
      <4>3. CASE Fails(u) \/ Answered(u)
        BY <4>3 DEF Fails, Answered, Reads, Moves
      <4> QED BY <2>1, <4>1, <4>2, <4>3
    <3> QED BY <1>1, <2>0, <3>1 DEF InCheck
  <2>3. CheckPublic(w) \/ CheckOwn(w) \/ CheckGroup(w)
    <3>1. CASE Check(w)
      BY <1>1, <2>0, <3>1 DEF Check, BeginCheck, Begins, ReadMemberships,
           NoMoreGroups, Reads, Moves, InCheck
    <3>2. CASE Change(w)
      BY <1>1, <2>0, <3>2 DEF Change, BeginGrant, BeginRevoke, BeginJoin, Begins,
           GrantOne, RevokeOne, ChangeDone, Join, InCheck
    <3>3. CASE Fails(w) \/ Answered(w)
      BY <1>1, <2>0, <3>3 DEF Fails, Answered, Reads, Moves, InCheck, Finished
    <3> QED BY <2>1, <2>2, <3>1, <3>2, <3>3
  <2>4. CASE CheckPublic(w)
    <3>1. PICK seen \in Views(permissions, known[w]) :
            Reads(w, IF HasMatch(seen, Public, BOOLEAN, request[w])
                     THEN "allowed" ELSE "own")
      BY <2>4 DEF CheckPublic
    <3>2. HasMatch(seen, Public, BOOLEAN, request[w])
      BY <1>1, <2>0, <3>1 DEF Reads, Moves
    <3> QED BY <3>2, MoreRows DEF Views, Entitled
  <2>5. CASE CheckOwn(w)
    <3>1. PICK seen \in Views(permissions, known[w]) :
            Reads(w, IF HasMatch(seen, request[w].user, {FALSE}, request[w])
                     THEN "allowed" ELSE "memberships")
      BY <2>5 DEF CheckOwn
    <3>2. HasMatch(seen, request[w].user, {FALSE}, request[w])
      BY <1>1, <2>0, <3>1 DEF Reads, Moves
    <3> QED BY <3>2, MoreRows DEF Views, Entitled
  <2>6. CASE CheckGroup(w)
    <3>1. PICK g \in groups[w], seen \in Views(permissions, known[w]) :
            Reads(w, IF HasMatch(seen, g, {TRUE}, request[w])
                     THEN "allowed" ELSE "groups")
      BY <2>6 DEF CheckGroup
    <3>2. HasMatch(seen, g, {TRUE}, request[w])
      BY <1>1, <2>0, <3>1 DEF Reads, Moves
    <3>3. HasMatch(permissions, g, {TRUE}, request[w])
      BY <3>2, MoreRows DEF Views
    <3>4. \E m \in met[w] : m.user = request[w].user /\ m.group = g
      BY <1>1, <2>6 DEF IInv, CheckProgress, CheckGroup
    <3> QED BY <3>3, <3>4 DEF Entitled
  <2> QED BY <2>3, <2>4, <2>5, <2>6
<1>2. IInv /\ [Next]_vars =>
        [\A w \in Workers :
           pc[w] \in InCheck /\ pc'[w] = "allowed" =>
             Entitled(permissions, met[w], request[w])]_vars
  BY <1>1
<1> QED BY <1>2, IInvAlways, PTL DEF Spec, AllowedWasEntitled
=============================================================================
