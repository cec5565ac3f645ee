------------------------- MODULE RoleAccountProofs -------------------------
(***************************************************************************)
(* Proofs about the accounts of the role lists: whatever is granted and    *)
(* revoked, a list fills its account and its rent is all that is paid, for *)
(* any set of users, any price of a byte and any means of the admin.       *)
(***************************************************************************)
EXTENDS RoleAccounts, RoleRegistryProofs

\* An account that exists is never empty, and it holds its own rent.
AccountTypes ==
  /\ space \in [Role -> Nat]
  /\ lamports \in [Role -> Nat]
  /\ admin \in Nat

RentIsOnAccount == \A r \in Role : lamports[r] = RentOf(r)

\* RentIsForPresentHolders speaks of sums, and a step changes one account: what each
\* account holds has to be part of the invariant.
AccountInv ==
  RoleInv /\ AccountTypes /\ ListFillsAccount /\ RentIsOnAccount /\ RentIsForPresentHolders

LEMMA RentTypes ==
  ASSUME NEW bytes \in Nat
  PROVE  MinimumBalance(bytes) \in Nat
<1>1. 128 + bytes \in Nat /\ RentRate \in Nat
  BY RentAssumption
<1> QED  BY <1>1 DEF MinimumBalance

LEMMA SpaceTypes ==
  ASSUME NEW n \in Nat
  PROVE  ListSpace(n) \in Nat /\ ListSpace(n) > 0
  BY DEF ListSpace

LEMMA InitAccountInv == Init => AccountInv
<1> SUFFICES ASSUME Init PROVE AccountInv
  OBVIOUS
<1>1. RoleInv
  BY RoleInitInv DEF Init
<1>2. \A r \in Role : roleList[r] = <<>> /\ space[r] = 0 /\ lamports[r] = 0 /\ RentOf(r) = 0
  BY DEF Init, RoleInit, RentOf
<1>3. {"Operator", "Verifier", "Organizer"} \subseteq Role
  BY DEF Role
<1>4. RentIsForPresentHolders
  BY <1>2, <1>3, RentAssumption DEF Init, RentIsForPresentHolders
<1> QED
  BY <1>1, <1>2, <1>4, RentAssumption
  DEF AccountInv, AccountTypes, ListFillsAccount, RentIsOnAccount, Init

\* A step that gives one list a length and its account the size for it keeps the
\* invariant, as realloc takes and returns the difference in rent.
LEMMA ReallocInv ==
  ASSUME AccountInv, RoleInv', NEW r \in Role, NEW n \in Nat,
         \A q \in Role : q # r => roleList'[q] = roleList[q],
         Len(roleList'[r]) = n, Realloc(r, ListSpace(n))
  PROVE  AccountInv'
<1> DEFINE rent == MinimumBalance(ListSpace(n))
<1>1. rent \in Nat /\ ListSpace(n) \in Nat /\ ListSpace(n) > 0
  BY RentTypes, SpaceTypes
<1>2. /\ space \in [Role -> Nat] /\ lamports \in [Role -> Nat] /\ admin \in Nat
  BY DEF AccountInv, AccountTypes
<1>3. /\ admin + lamports[r] >= rent
      /\ space' = [space EXCEPT ![r] = ListSpace(n)]
      /\ lamports' = [lamports EXCEPT ![r] = rent]
      /\ admin' = admin + lamports[r] - rent
  BY DEF Realloc
<1>4. RentOf(r)' = rent
  BY <1>1, <1>2, <1>3 DEF RentOf
<1>5. \A q \in Role : q # r => RentOf(q)' = RentOf(q) /\ space'[q] = space[q]
  BY <1>2, <1>3 DEF RentOf
<1> HIDE DEF rent
<1>6. AccountTypes'
  BY <1>1, <1>2, <1>3 DEF AccountTypes
<1>7. RentIsOnAccount'
  BY <1>2, <1>3, <1>4, <1>5 DEF AccountInv, RentIsOnAccount
<1>8. ListFillsAccount'
  <2> SUFFICES ASSUME NEW q \in Role
               PROVE  IF space'[q] = 0 THEN roleList'[q] = <<>> ELSE Decodes(space'[q], roleList'[q])
    BY DEF ListFillsAccount
  <2>1. CASE q = r
    BY <2>1, <1>1, <1>2, <1>3 DEF Decodes
  <2>2. CASE q # r
    BY <2>2, <1>5 DEF AccountInv, ListFillsAccount
  <2> QED  BY <2>1, <2>2
<1>9. RentIsForPresentHolders'
  <2>1. \A q \in Role : RentOf(q) \in Nat /\ RentOf(q) = lamports[q]
    BY <1>2 DEF AccountInv, RentIsOnAccount
  <2>2. AdminLamports = admin + RentOf("Operator") + RentOf("Verifier") + RentOf("Organizer")
    BY DEF AccountInv, RentIsForPresentHolders
  <2>3. "Operator" \in Role /\ "Verifier" \in Role /\ "Organizer" \in Role
    BY DEF Role
  <2>4. admin' = admin + RentOf(r) - rent
    BY <1>3, <2>1
  <2> DEFINE o == RentOf("Operator")   op == RentOf("Operator")'
             v == RentOf("Verifier")   vp == RentOf("Verifier")'
             g == RentOf("Organizer")  gp == RentOf("Organizer")'
  <2>5. o \in Nat /\ v \in Nat /\ g \in Nat /\ rent \in Nat
    BY <2>1, <2>3, <1>1
  <2>6. \/ op = rent /\ vp = v /\ gp = g /\ admin' = admin + o - rent
        \/ op = o /\ vp = rent /\ gp = g /\ admin' = admin + v - rent
        \/ op = o /\ vp = v /\ gp = rent /\ admin' = admin + g - rent
    <3>1. CASE r = "Operator"
      BY <3>1, <2>3, <2>4, <1>4, <1>5
    <3>2. CASE r = "Verifier"
      BY <3>2, <2>3, <2>4, <1>4, <1>5
    <3>3. CASE r = "Organizer"
      BY <3>3, <2>3, <2>4, <1>4, <1>5
    <3> QED  BY <3>1, <3>2, <3>3 DEF Role
  <2>7. AdminLamports = admin + o + v + g
    BY <2>2
  <2>8. AdminLamports = admin' + op + vp + gp
    <3> HIDE DEF o, op, v, vp, g, gp
    <3> QED  BY <2>5, <2>6, <2>7, <1>2
  <2> QED  BY <2>8 DEF RentIsForPresentHolders
<1> QED  BY <1>6, <1>7, <1>8, <1>9 DEF AccountInv

LEMMA StepAccountInv == AccountInv /\ [Next]_vars => AccountInv'
<1> SUFFICES ASSUME AccountInv, [Next]_vars PROVE AccountInv'
  OBVIOUS
<1>1. RoleInv /\ \A r \in Role : roleList[r] \in Seq(Users) /\ Len(roleList[r]) \in Nat
  BY DEF AccountInv, RoleInv, RoleTypeOK
<1>2. ASSUME NEW u \in Users, NEW r \in Role, Grant(u, r) PROVE AccountInv'
  <2>1. RoleInv'
    BY <1>1, <1>2, GrantRoleInv DEF Grant
  <2>2. /\ \A q \in Role : q # r => roleList'[q] = roleList[q]
        /\ roleList'[r] = Append(roleList[r], u)
    BY <1>1, <1>2 DEF Grant, GrantRole, RoleInv, RoleTypeOK
  <2>3. Len(roleList'[r]) = Len(roleList[r]) + 1 /\ Len(roleList[r]) + 1 \in Nat
    BY <2>2, <1>1, AppendProperties
  <2>4. Realloc(r, ListSpace(Len(roleList[r]) + 1))
    BY <1>2 DEF Grant
  <2> QED  BY <2>1, <2>2, <2>3, <2>4, ReallocInv
<1>3. ASSUME NEW u \in Users, NEW r \in Role, Revoke(u, r) PROVE AccountInv'
  <2>1. RoleInv'
    BY <1>1, <1>3, RevokeRoleInv DEF Revoke
  <2> DEFINE i == Position(roleList[r], u)
  <2>2. i \in 1..Len(roleList[r])
    BY <1>1, <1>3, PositionIsFirst DEF Revoke, RevokeRole
  <2>3. /\ \A q \in Role : q # r => roleList'[q] = roleList[q]
        /\ roleList'[r] = RemoveAt(roleList[r], i)
    BY <1>1, <1>3 DEF Revoke, RevokeRole, RoleInv, RoleTypeOK
  <2> HIDE DEF i
  <2>4. Len(roleList'[r]) = Len(roleList[r]) - 1 /\ Len(roleList[r]) - 1 \in Nat
    BY <2>2, <2>3, <1>1, RemoveAtShifts
  <2>5. Realloc(r, ListSpace(Len(roleList[r]) - 1))
    BY <1>3 DEF Revoke
  <2> QED  BY <2>1, <2>3, <2>4, <2>5, ReallocInv
<1>4. CASE UNCHANGED vars
  <2>1. RoleInv'
    BY <1>1, <1>4, RoleStutterInv DEF vars
  <2>2. UNCHANGED <<roleList, space, lamports, admin>>
    BY <1>4 DEF vars, roleVars, accountVars
  <2>3. \A r \in Role : RentOf(r)' = RentOf(r)
    BY <2>2 DEF RentOf
  <2>4. RentIsForPresentHolders'
    BY <2>2 DEF AccountInv, RentIsForPresentHolders, RentOf
  <2> QED
    BY <2>1, <2>2, <2>3, <2>4
    DEF AccountInv, AccountTypes, ListFillsAccount, RentIsOnAccount
<1> QED  BY <1>2, <1>3, <1>4 DEF Next

\* No sequence of appointments and dismissals, down to nobody and up again, leaves a
\* list account that the next grant could not decode.
THEOREM ListsFillTheirAccounts == Spec => []ListFillsAccount
<1>1. AccountInv => ListFillsAccount
  BY DEF AccountInv
<1> QED  BY <1>1, InitAccountInv, StepAccountInv, PTL DEF Spec

\* The admin has paid the list accounts' rent for the present holders and for nobody
\* else, whatever a byte costs.
THEOREM RentIsReturned == Spec => []RentIsForPresentHolders
<1>1. AccountInv => RentIsForPresentHolders
  BY DEF AccountInv
<1> QED  BY <1>1, InitAccountInv, StepAccountInv, PTL DEF Spec

\* Every verifier has its position within the mask.
THEOREM RegistryTypes == Spec => []RoleTypeOK
<1>1. AccountInv => RoleTypeOK
  BY DEF AccountInv, RoleInv
<1> QED  BY <1>1, InitAccountInv, StepAccountInv, PTL DEF Spec
=============================================================================
