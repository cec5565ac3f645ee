---------------------------- MODULE RoleAccounts ----------------------------
(***************************************************************************)
(* The accounts of the RoleLists: how many bytes each has and who paid the *)
(* rent for them.                                                          *)
(*                                                                         *)
(* grant_role makes the account with the first holder of a role, resizes   *)
(* it for each further one and decodes it before, and the decoding fails   *)
(* if one byte is left over or missing.  revoke_role cuts the account down *)
(* before the shorter list is written back.  The admin pays for growth and *)
(* gets back what shrinking frees.                                         *)
(***************************************************************************)
EXTENDS RoleRegistry

CONSTANTS AdminLamports,    \* what the admin has at first
          RentRate          \* the lamports to hold for a byte

ASSUME RentAssumption == AdminLamports \in Nat /\ RentRate \in Nat

VARIABLES space,            \* space[r]: bytes of the RoleList account of r, 0 if none
          lamports,         \* lamports[r]: its lamports
          admin             \* the admin's lamports

accountVars == <<space, lamports, admin>>
vars == <<roleVars, accountVars>>

\* Discriminator, length, and 32 bytes for each key.
ListSpace(count) == 8 + 4 + 32 * count

\* Rent::minimum_balance: an account costs 128 bytes more than its data.
MinimumBalance(bytes) == (128 + bytes) * RentRate

\* try_from_slice takes the whole account: a length prefix and that many keys.
Decodes(bytes, list) == bytes = ListSpace(Len(list))
-----------------------------------------------------------------------------
Init ==
  /\ RoleInit
  /\ space = [r \in Role |-> 0]
  /\ lamports = [r \in Role |-> 0]
  /\ admin = AdminLamports

\* Faulty: what shrinking frees stays on the account.
ReallocKeeping(r, bytes) ==
  LET rent == MinimumBalance(bytes)
      missing == IF rent > lamports[r] THEN rent - lamports[r] ELSE 0
  IN /\ admin >= missing
     /\ space' = [space EXCEPT ![r] = bytes]
     /\ lamports' = [lamports EXCEPT ![r] = @ + missing]
     /\ admin' = admin - missing

\* realloc: the account gets its new size, the difference in rent is taken from
\* the admin or goes to it.  For an account that is made in the same instruction
\* the rent paid then is part of the difference.
Realloc(r, bytes) ==
  LET rent == MinimumBalance(bytes)
  IN /\ admin + lamports[r] >= rent
     /\ space' = [space EXCEPT ![r] = bytes]
     /\ lamports' = [lamports EXCEPT ![r] = rent]
     /\ admin' = admin + lamports[r] - rent

Grant(u, r) ==
  LET made == IF space[r] = 0 THEN ListSpace(0) ELSE space[r]
  IN /\ Decodes(made, roleList[r])
     /\ GrantRole(u, r)
     /\ Realloc(r, ListSpace(Len(roleList[r]) + 1))

\* Faulty: the size is computed from the list as it was.
RevokeLate(u, r) ==
  /\ RevokeRole(u, r)
  /\ Realloc(r, ListSpace(Len(roleList[r])))

Revoke(u, r) ==
  /\ RevokeRole(u, r)
  /\ Realloc(r, ListSpace(Len(roleList[r]) - 1))

Next == \E u \in Users, r \in Role : Grant(u, r) \/ Revoke(u, r)

Spec == Init /\ [][Next]_vars
-----------------------------------------------------------------------------
\* After any appointments and dismissals the list fills its account to the byte,
\* so that the next grant can decode it and no role is closed for good.
ListFillsAccount ==
  \A r \in Role : IF space[r] = 0 THEN roleList[r] = <<>> ELSE Decodes(space[r], roleList[r])

RentOf(r) == IF space[r] = 0 THEN 0 ELSE MinimumBalance(ListSpace(Len(roleList[r])))

\* Of what the list accounts have cost, the admin is short of the rent of the lists as
\* they are: whatever was granted and revoked before has been given back.
RentIsForPresentHolders ==
  AdminLamports = admin + RentOf("Operator") + RentOf("Verifier") + RentOf("Organizer")
=============================================================================
