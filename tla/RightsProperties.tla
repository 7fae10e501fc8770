-------------------------- MODULE RightsProperties --------------------------
(***************************************************************************)
(* What must hold of access checks and of changes of rights, although no   *)
(* two of their table accesses are made under one lock.                    *)
(***************************************************************************)
EXTENDS Rights

InCheck == {"public", "own", "memberships", "groups"}

(* A statement is where its kind can be, what is known or steady is stored, *)
(* and the memberships there are have been met.                             *)
TypeOK ==
  /\ pc \in [Workers -> {"idle"} \cup Running \cup Finished]
  /\ \A w \in Workers :
       /\ pc[w] \in {"grant", "granted"} => request[w] \in Grants
       /\ pc[w] \in {"revoke", "revoked"} => request[w] \in Revokes
       /\ pc[w] = "join" => request[w] \in Joins
       /\ pc[w] \in InCheck => request[w] \in Checks
  /\ request \in
       [Workers -> Checks \cup Grants \cup Revokes \cup Joins \cup {NoRequest}]
  /\ at \in [Workers -> Nat \ {0}]
  /\ DOMAIN groups = Workers /\ DOMAIN met = Workers
  /\ known \in [Workers -> SUBSET permissions]
  /\ knownGroups \in [Workers -> SUBSET user_groups]
  /\ steady \in [Workers -> SUBSET permissions]
  /\ steadyGroups \in [Workers -> SUBSET user_groups]
  /\ \A w \in Workers : user_groups \subseteq met[w]
  /\ disturbed \in [Workers -> BOOLEAN]

-----------------------------------------------------------------------------
(* Who is entitled to q by permissions P and memberships M: everybody to    *)
(* what PUBLIC has, a user to what he has and what a group of his has.      *)
Entitled(P, M, q) ==
  \/ HasMatch(P, Public, BOOLEAN, q)
  \/ HasMatch(P, q.user, {FALSE}, q)
  \/ \E m \in M : m.user = q.user /\ HasMatch(P, m.group, {TRUE}, q)

(* checkAccess allows what the user is entitled to by the permissions at    *)
(* that very moment and by memberships there have been since it began: the  *)
(* pieces it read one after the other do not make a right that never was.   *)
AllowedWasEntitled ==
  [][ \A w \in Workers :
        pc[w] \in InCheck /\ pc'[w] = "allowed" =>
          Entitled(permissions, met[w], request[w]) ]_vars

(* checkAccess denies nothing to which the user was entitled, by the same   *)
(* rows, for the whole time of the check.  (A right that moves from a user  *)
(* to his group during the check may be missed in both places.)             *)
DeniedHadGap ==
  \A w \in Workers :
    pc[w] = "denied" /\ request[w].db # System =>
      ~Entitled(steady[w], steadyGroups[w], request[w])

(* After a REVOKE that was answered with success none of the rights it      *)
(* names is left that was there when it began, however often it had been    *)
(* granted (RevokePermStatement).                                           *)
RevokeRemoves ==
  \A w \in Workers :
    pc[w] = "revoked" =>
      \A i \in DOMAIN request[w].actions, r \in steady[w] :
        ~Concerns(request[w], request[w].actions[i], r)

(* A GRANT that was answered with success has entered all its rights, and   *)
(* they are there unless another statement has taken permissions away in    *)
(* the meantime (GrantPermStatement, which may fail half way).              *)
GrantEnters ==
  \A w \in Workers :
    pc[w] = "granted" /\ ~disturbed[w] =>
      \A i \in DOMAIN request[w].actions :
        \E r \in permissions : Concerns(request[w], request[w].actions[i], r)
=============================================================================
