---------------------------- MODULE RoleRegistry ----------------------------
(***************************************************************************)
(* The registry of roles kept by the admin of the platform.                *)
(*                                                                         *)
(* Each user has a RoleInfo account with the roles it holds, and each role *)
(* has a RoleList account with its holders in order of appointment.        *)
(* grant_role and revoke_role keep the two in step.  The order of the      *)
(* Verifier list matters: a verifier's position in it is the bit that      *)
(* stands for it in every vote mask of every tournament.                   *)
(*                                                                         *)
(* RoleInfo.roles is a set here: the handlers only test membership, push a *)
(* role they have found absent and remove one by value.  A RoleList that   *)
(* does not exist yet is the empty list.  The sizes of the accounts and    *)
(* their rent are added by RoleAccounts.  Both instructions are signed by  *)
(* the admin, so the admin is the only actor.                              *)
(***************************************************************************)
EXTENDS Naturals, Sequences, SequencesExt

CONSTANTS Users,          \* the users the admin may give a role to
          MaxVerifiers    \* RoleList::MAX_VERIFIERS_COUNT, the bits of a vote mask

ASSUME MaxVerifiersAssumption == MaxVerifiers \in Nat

Role == {"Operator", "Verifier", "Organizer"}

VARIABLES roles,          \* roles[u]: the roles in u's RoleInfo account
          roleList        \* roleList[r]: the accounts in the RoleList of role r

roleVars == <<roles, roleList>>
-----------------------------------------------------------------------------
\* list.iter().position(|a| a == u) for a user that is in the list.
Position(list, u) ==
  CHOOSE i \in DOMAIN list : list[i] = u /\ \A j \in DOMAIN list : list[j] = u => i <= j

\* The platform has been initialized and no role has been granted.
RoleInit ==
  /\ roles = [u \in Users |-> {}]
  /\ roleList = [r \in Role |-> <<>>]

\* Faulty variants of grant_role for the mutation runs: the limit on verifiers
\* forgotten, and a second grant of the same role let through.
GrantRoleUnlimited(u, r) ==
  /\ r \notin roles[u]
  /\ roles' = [roles EXCEPT ![u] = @ \cup {r}]
  /\ roleList' = [roleList EXCEPT ![r] = Append(@, u)]

GrantRoleAgain(u, r) ==
  /\ Len(roleList[r]) < MaxVerifiers
  /\ roles' = [roles EXCEPT ![u] = @ \cup {r}]
  /\ roleList' = [roleList EXCEPT ![r] = Append(@, u)]

\* The admin appoints u: u goes to the end of the list of r.
GrantRole(u, r) ==
  /\ r \notin roles[u]
  /\ r = "Verifier" => Len(roleList[r]) < MaxVerifiers
  /\ roles' = [roles EXCEPT ![u] = @ \cup {r}]
  /\ roleList' = [roleList EXCEPT ![r] = Append(@, u)]

\* A faulty revoke_role that fills the gap with the last holder (swap_remove).
RevokeRoleSwapping(u, r) ==
  LET list == roleList[r]
      swapped == [list EXCEPT ![Position(list, u)] = Last(list)]
  IN /\ r \in roles[u]
     /\ Contains(list, u)
     /\ roles' = [roles EXCEPT ![u] = @ \ {r}]
     /\ roleList' = [roleList EXCEPT ![r] = Front(swapped)]

\* The admin dismisses u: the holders behind u move up by one.
RevokeRole(u, r) ==
  /\ r \in roles[u]
  /\ Contains(roleList[r], u)
  /\ roles' = [roles EXCEPT ![u] = @ \ {r}]
  /\ roleList' = [roleList EXCEPT ![r] = RemoveAt(@, Position(@, u))]

RoleNext == \E u \in Users, r \in Role : GrantRole(u, r) \/ RevokeRole(u, r)

RoleSpec == RoleInit /\ [][RoleNext]_roleVars
-----------------------------------------------------------------------------
\* Types: the accounts hold known users and roles, and every verifier has a
\* position that fits a vote mask (grant_role's MaxVerifiersExceeded).
RoleTypeOK ==
  /\ roles \in [Users -> SUBSET Role]
  /\ roleList \in [Role -> Seq(Users)]
  /\ Len(roleList["Verifier"]) <= MaxVerifiers

\* The two records of an appointment agree: a user is in the list of a role
\* exactly when its RoleInfo holds that role, and it is there once.  So the
\* position lookups of revoke_role and of the three votes never panic for a
\* user that passes the role check, and two verifiers never share a bit.
ListsMatchRoles ==
  \A r \in Role :
    /\ ToSet(roleList[r]) = {u \in Users : r \in roles[u]}
    /\ IsInjective(roleList[r])

\* No appointment or dismissal changes the order of those who keep a role:
\* grant_role pushes at the end and revoke_role shifts, it does not swap.
SeniorityKept ==
  [][\A r \in Role : \A i, j \in DOMAIN roleList[r] :
       LET u == roleList[r][i]
           w == roleList[r][j]
       IN i < j /\ Contains(roleList'[r], u) /\ Contains(roleList'[r], w)
            => Position(roleList'[r], u) < Position(roleList'[r], w)]_roleVars
=============================================================================
