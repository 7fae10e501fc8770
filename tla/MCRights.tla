------------------------------ MODULE MCRights ------------------------------
(***************************************************************************)
(* Two users and two groups that get, use and lose a few rights.           *)
(***************************************************************************)
EXTENDS RightsProperties, TLC

CONSTANTS User, Other, Group, Group2, Db

Reading == {[user |-> User, db |-> Db, action |-> "READ"]}

Right(name, asGroup, actions) ==
  [grantee |-> name, isGroup |-> asGroup, db |-> Db, actions |-> actions]

Read == <<"READ">>
ReadAndWrite == <<"READ", "WRITE">>

GroupReadsAndWrites == {Right(Group, TRUE, ReadAndWrite)}
EveryReader ==
  {Right(Public, FALSE, Read), Right(User, FALSE, Read),
   Right(Group2, TRUE, Read)} \cup GroupReadsAndWrites
SomeJoins ==
  {[user |-> User, group |-> Group], [user |-> User, group |-> Group2],
   [user |-> Other, group |-> Group]}

Alike == Permutations(Ids) \cup Permutations(Workers)

(* What a worker and the properties still look at, by where it is.          *)
Remembered(w) ==
  CASE pc[w] = "idle" -> <<>>
    [] pc[w] \in InCheck \cup {"denied"} ->
         <<request[w], groups[w], steady[w], steadyGroups[w], met[w],
           IF pc[w] = "memberships" THEN knownGroups[w] ELSE known[w]>>
    [] pc[w] \in {"grant", "revoke", "granted", "revoked"} ->
         <<request[w], at[w], known[w], steady[w], disturbed[w]>>
    [] pc[w] = "join" -> <<request[w], knownGroups[w]>>
    [] OTHER -> <<>>

InUse == <<tables, pc, [w \in Workers |-> Remembered(w)]>>
=============================================================================
