------------------------------- MODULE Rights -------------------------------
(***************************************************************************)
(* Who may do what: AuthManager::checkAccess, and the statements that      *)
(* change its two tables, _system.permissions and _system.user_groups,     *)
(* which all workers share.                                                *)
(*                                                                         *)
(* A check is up to four kinds of SELECT, a GRANT one insertion per        *)
(* action, a REVOKE one deletion per action; each opens the table, takes   *)
(* its lock and releases it again, and other workers run in between.  A    *)
(* SELECT or a DELETE may miss a row on a page added after its process     *)
(* opened the file, and an INSERT that extends the file then may wipe out  *)
(* such rows (Table, KnownPagesKeepRows).                                  *)
(***************************************************************************)
EXTENDS Integers, Sequences

CONSTANTS
  Workers,
  Admin, Public, System,  \* "admin", "PUBLIC", "_system"
  Checks,   \* [user, db, action]: what statements may need a right for
  Grants,   \* [grantee, isGroup, db, actions]: rights that may be granted
  Revokes,  \* the same: rights that may be revoked
  Joins,    \* [user, group]
  Ids       \* bound: identities of rows, of which a table holds one each

ASSUME RightsAssumption ==
  /\ \A c \in Grants \cup Revokes : c.actions \in Seq(STRING)
  /\ \A c \in Grants \cup Revokes : c.isGroup \in BOOLEAN

VARIABLES
  permissions,  \* rows [grantee, isGroup, db, action, id]
  user_groups,  \* rows [user, group, id]
  pc,           \* per worker: where its statement is
  request,      \* what it is about
  at,           \* the loop over actions_
  groups,       \* the groups still to be looked up
  known,        \* the permissions on pages that its open file has
  knownGroups,  \* the same of user_groups
  steady,       \* history: permissions there since the statement began
  steadyGroups, \* history: the same of user_groups
  met,          \* history: memberships there at any time since then
  disturbed     \* history: whether others took permissions away since then

tables   == <<permissions, user_groups>>
files    == <<known, knownGroups>>
history  == <<steady, steadyGroups, met, disturbed>>
vars     == <<tables, pc, request, at, groups, files, history>>

NoRequest == [user |-> Public, db |-> System, action |-> ""]

Running  == {"public", "own", "memberships", "groups",
             "grant", "revoke", "join"}
Finished == {"allowed", "denied", "granted", "revoked", "joined", "failed"}

(* A table as a scan may see it that knows some of its rows.                *)
Views(table, rows) == {S \in SUBSET table : table \cap rows \subseteq S}

(* has_match.  asGroup is the set of accepted values of is_group.           *)
HasMatch(S, name, asGroup, q) ==
  \E r \in S : /\ r.grantee = name /\ r.isGroup \in asGroup
               /\ r.db = q.db /\ r.action = q.action

GroupsOf(S, user) == {m.group : m \in {n \in S : n.user = user}}

-----------------------------------------------------------------------------
(* What a step of worker w does besides its tables: it moves on to where,   *)
(* and opens the next file.  Bug variant: what it knew of the last file     *)
(* still counts.                                                            *)
BugMoves(w, where) ==
  /\ pc' = [pc EXCEPT ![w] = where]
  /\ steady' = [v \in Workers |-> steady[v] \cap permissions']
  /\ steadyGroups' = [v \in Workers |-> steadyGroups[v] \cap user_groups']
  /\ met' = [v \in Workers |-> met[v] \cup user_groups']
  /\ disturbed' = [v \in Workers |->
       disturbed[v] \/ (v # w /\ ~(permissions \subseteq permissions'))]
  /\ UNCHANGED files
Moves(w, where) ==
  /\ pc' = [pc EXCEPT ![w] = where]
  /\ known' = [v \in Workers |->
       IF v = w THEN permissions' ELSE known[v] \cap permissions']
  /\ knownGroups' = [v \in Workers |->
       IF v = w THEN user_groups' ELSE knownGroups[v] \cap user_groups']
  /\ steady' = [v \in Workers |-> steady[v] \cap permissions']
  /\ steadyGroups' = [v \in Workers |-> steadyGroups[v] \cap user_groups']
  /\ met' = [v \in Workers |-> met[v] \cup user_groups']
  /\ disturbed' = [v \in Workers |->
       disturbed[v] \/ (v # w /\ ~(permissions \subseteq permissions'))]

Reads(w, where) ==
  UNCHANGED <<tables, request, at>> /\ Moves(w, where)

Begins(w, where, r) ==
  /\ pc[w] = "idle"
  /\ pc' = [pc EXCEPT ![w] = where]
  /\ request' = [request EXCEPT ![w] = r]
  /\ at' = [at EXCEPT ![w] = 1]
  /\ groups' = [groups EXCEPT ![w] = {}]
  /\ known' = [known EXCEPT ![w] = permissions]
  /\ knownGroups' = [knownGroups EXCEPT ![w] = user_groups]
  /\ steady' = [steady EXCEPT ![w] = permissions]
  /\ steadyGroups' = [steadyGroups EXCEPT ![w] = user_groups]
  /\ met' = [met EXCEPT ![w] = user_groups]
  /\ disturbed' = [disturbed EXCEPT ![w] = FALSE]
  /\ UNCHANGED tables

-----------------------------------------------------------------------------
(* checkAccess.                                                             *)

BeginCheck(w) ==
  \E q \in Checks :
    Begins(w, IF q.user = Admin THEN "allowed"
              ELSE IF q.db = System THEN "denied" ELSE "public", q)

CheckPublic(w) ==
  /\ pc[w] = "public"
  /\ \E seen \in Views(permissions, known[w]) :
       Reads(w, IF HasMatch(seen, Public, BOOLEAN, request[w])
                THEN "allowed" ELSE "own")
  /\ UNCHANGED groups

CheckOwn(w) ==
  /\ pc[w] = "own"
  /\ \E seen \in Views(permissions, known[w]) :
       Reads(w, IF HasMatch(seen, request[w].user, {FALSE}, request[w])
                THEN "allowed" ELSE "memberships")
  /\ UNCHANGED groups

(* Bug variant: the groups of everybody.                                    *)
BugReadMemberships(w) ==
  /\ pc[w] = "memberships"
  /\ \E seen \in Views(user_groups, knownGroups[w]) :
       groups' = [groups EXCEPT ![w] = {m.group : m \in seen}]
  /\ Reads(w, "groups")
ReadMemberships(w) ==
  /\ pc[w] = "memberships"
  /\ \E seen \in Views(user_groups, knownGroups[w]) :
       groups' = [groups EXCEPT ![w] = GroupsOf(seen, request[w].user)]
  /\ Reads(w, "groups")

(* Bug variant: only one group is looked up.                                *)
BugCheckGroup(w) ==
  /\ pc[w] = "groups"
  /\ \E g \in groups[w], seen \in Views(permissions, known[w]) :
       Reads(w, IF HasMatch(seen, g, {TRUE}, request[w])
                THEN "allowed" ELSE "denied")
  /\ UNCHANGED groups
CheckGroup(w) ==
  /\ pc[w] = "groups"
  /\ \E g \in groups[w], seen \in Views(permissions, known[w]) :
       /\ Reads(w, IF HasMatch(seen, g, {TRUE}, request[w])
                   THEN "allowed" ELSE "groups")
       /\ groups' = [groups EXCEPT ![w] = @ \ {g}]

NoMoreGroups(w) ==
  /\ pc[w] = "groups" /\ groups[w] = {}
  /\ Reads(w, "denied") /\ UNCHANGED groups

-----------------------------------------------------------------------------
(* The statements of the administrator.                                     *)

(* The ways insertRow may leave a table of which it knows some rows.        *)
Insertions(table, rows, row) ==
  {(table \ lost) \cup {row} : lost \in SUBSET (table \ rows)}

Entry(c, action, id) ==
  [grantee |-> c.grantee, isGroup |-> c.isGroup, db |-> c.db,
   action |-> action, id |-> id]

Free(table) == {id \in Ids : \A r \in table : r.id # id}

Concerns(c, action, r) ==
  /\ r.grantee = c.grantee /\ r.isGroup = c.isGroup
  /\ r.db = c.db /\ r.action = action

BeginGrant(w)  == \E c \in Grants : Begins(w, "grant", c)
BeginRevoke(w) == \E c \in Revokes : Begins(w, "revoke", c)
BeginJoin(w)   == \E j \in Joins : Begins(w, "join", j)

(* One round of the loop of GrantPermStatement and its end.                 *)
GrantOne(w) ==
  /\ pc[w] = "grant" /\ at[w] <= Len(request[w].actions)
  /\ \E id \in Free(permissions) :
       permissions' \in
         Insertions(permissions, known[w],
                    Entry(request[w], request[w].actions[at[w]], id))
  /\ at' = [at EXCEPT ![w] = @ + 1]
  /\ UNCHANGED <<user_groups, request, groups>> /\ Moves(w, "grant")

(* The same of RevokePermStatement.  Bug variant: one row is deleted.       *)
BugRevokeOne(w) ==
  /\ pc[w] = "revoke" /\ at[w] <= Len(request[w].actions)
  /\ \E seen \in Views(permissions, known[w]) :
       LET hit == {r \in seen : Concerns(request[w],
                                         request[w].actions[at[w]], r)}
       IN  permissions' = IF hit = {} THEN permissions
                          ELSE permissions \ {CHOOSE r \in hit : TRUE}
  /\ at' = [at EXCEPT ![w] = @ + 1]
  /\ UNCHANGED <<user_groups, request, groups>> /\ Moves(w, "revoke")
RevokeOne(w) ==
  /\ pc[w] = "revoke" /\ at[w] <= Len(request[w].actions)
  /\ \E seen \in Views(permissions, known[w]) :
       permissions' = permissions \
         {r \in seen : Concerns(request[w], request[w].actions[at[w]], r)}
  /\ at' = [at EXCEPT ![w] = @ + 1]
  /\ UNCHANGED <<user_groups, request, groups>> /\ Moves(w, "revoke")

ChangeDone(w) ==
  /\ pc[w] \in {"grant", "revoke"} /\ at[w] > Len(request[w].actions)
  /\ Reads(w, IF pc[w] = "grant" THEN "granted" ELSE "revoked")
  /\ UNCHANGED groups

(* AlterUserAddToGroupStatement.                                            *)
Join(w) ==
  /\ pc[w] = "join"
  /\ \E id \in Free(user_groups) :
       user_groups' \in
         Insertions(user_groups, knownGroups[w],
                    [user |-> request[w].user, group |-> request[w].group,
                     id |-> id])
  /\ UNCHANGED <<permissions, request, at, groups>> /\ Moves(w, "joined")

(* A read, an insertion or a deletion fails, and the statement ends there.  *)
(* Bug variant: a GRANT goes on with the next action.                       *)
BugFails(w) ==
  /\ pc[w] \in Running
  /\ at' = [at EXCEPT ![w] = @ + 1]
  /\ UNCHANGED <<tables, request, groups>>
  /\ Moves(w, IF pc[w] = "grant" THEN "grant" ELSE "failed")
Fails(w) ==
  /\ pc[w] \in Running
  /\ Reads(w, "failed") /\ UNCHANGED groups

(* The answer is given, and what was allowed is executed.                   *)
Answered(w) ==
  /\ pc[w] \in Finished
  /\ Reads(w, "idle") /\ UNCHANGED groups

-----------------------------------------------------------------------------
Init ==
  /\ permissions = {} /\ user_groups = {}
  /\ pc = [w \in Workers |-> "idle"]
  /\ request = [w \in Workers |-> NoRequest]
  /\ at = [w \in Workers |-> 1]
  /\ groups = [w \in Workers |-> {}]
  /\ known = [w \in Workers |-> {}] /\ knownGroups = [w \in Workers |-> {}]
  /\ steady = [w \in Workers |-> {}] /\ steadyGroups = [w \in Workers |-> {}]
  /\ met = [w \in Workers |-> {}]
  /\ disturbed = [w \in Workers |-> FALSE]

Check(w) == \/ BeginCheck(w) \/ CheckPublic(w) \/ CheckOwn(w)
            \/ ReadMemberships(w) \/ CheckGroup(w) \/ NoMoreGroups(w)
Change(w) == \/ BeginGrant(w) \/ BeginRevoke(w) \/ BeginJoin(w)
             \/ GrantOne(w) \/ RevokeOne(w) \/ ChangeDone(w) \/ Join(w)

Next == \E w \in Workers : Check(w) \/ Change(w) \/ Fails(w) \/ Answered(w)

Spec == Init /\ [][Next]_vars

=============================================================================
