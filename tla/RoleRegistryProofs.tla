------------------------- MODULE RoleRegistryProofs -------------------------
(***************************************************************************)
(* Proofs about the registry of roles, for any set of users and any limit  *)
(* on verifiers.                                                           *)
(***************************************************************************)
EXTENDS RoleRegistry, SequenceTheorems, TLAPS, WellFoundedInduction

\* Vec::position finds the first occurrence of a user that is in the list.
LEMMA PositionIsFirst ==
  ASSUME NEW S, NEW list \in Seq(S), NEW u, Contains(list, u)
  PROVE  /\ Position(list, u) \in 1..Len(list)
         /\ list[Position(list, u)] = u
         /\ \A j \in 1..Len(list) : list[j] = u => Position(list, u) <= j
<1> DEFINE Here == {i \in 1..Len(list) : list[i] = u}
<1>1. Here # {} /\ Here \subseteq Nat
  BY DEF Contains
<1> DEFINE Less == {ss \in Nat \X Nat : ss[1] < ss[2]}
<1>2. IsWellFoundedOn(Less, Nat)
  BY NatLessThanWellFounded DEF OpToRel
<1>3. PICK i \in Here : \A j \in Here : <<j, i>> \notin Less
  <2> HIDE DEF Here, Less
  <2> QED  BY <1>1, <1>2, WFMin
<1>4. \A j \in Here : i <= j
  <2> SUFFICES ASSUME NEW j \in Here, ~(i <= j) PROVE FALSE
    OBVIOUS
  <2>1. i \in Nat /\ j \in Nat /\ j < i
    OBVIOUS
  <2>2. <<j, i>> \in Less
    BY <2>1
  <2> QED  BY <2>2, <1>3
<1>5. DOMAIN list = 1..Len(list)
  OBVIOUS
<1>6. i \in DOMAIN list /\ list[i] = u /\ \A j \in DOMAIN list : list[j] = u => i <= j
  BY <1>4, <1>5
<1> QED
  BY <1>5, <1>6 DEF Position

\* Vec::remove: the elements behind the gap move up by one.
LEMMA RemoveAtShifts ==
  ASSUME NEW S, NEW list \in Seq(S), NEW i \in 1..Len(list)
  PROVE  /\ RemoveAt(list, i) \in Seq(S)
         /\ Len(RemoveAt(list, i)) = Len(list) - 1
         /\ \A j \in 1..(Len(list) - 1) :
              RemoveAt(list, i)[j] = IF j < i THEN list[j] ELSE list[j + 1]
<1> DEFINE front == SubSeq(list, 1, i - 1)
           back == SubSeq(list, i + 1, Len(list))
<1>1. i \in Nat /\ Len(list) \in Nat /\ i >= 1 /\ i <= Len(list)
  OBVIOUS
<1>2. /\ front \in Seq(S) /\ Len(front) = i - 1
      /\ \A j \in 1..(i - 1) : front[j] = list[j]
  BY SubSeqProperties
<1>3. /\ back \in Seq(S) /\ Len(back) = Len(list) - i
      /\ \A j \in 1..(Len(list) - i) : back[j] = list[i + j]
  BY SubSeqProperties
<1> HIDE DEF front, back
<1>4. RemoveAt(list, i) = front \o back
  BY DEF RemoveAt, front, back
<1>5. /\ front \o back \in Seq(S)
      /\ Len(front \o back) = Len(front) + Len(back)
      /\ \A j \in 1..(Len(front) + Len(back)) :
           (front \o back)[j] = IF j <= Len(front) THEN front[j] ELSE back[j - Len(front)]
  BY <1>2, <1>3, ConcatProperties
<1>6. ASSUME NEW j \in 1..(Len(list) - 1)
      PROVE  (front \o back)[j] = IF j < i THEN list[j] ELSE list[j + 1]
  <2>1. j \in Nat /\ j >= 1 /\ j <= Len(list) - 1
    BY <1>1
  <2>2. CASE j < i
    BY <2>1, <1>1, <2>2, <1>2, <1>3, <1>5
  <2>3. CASE ~(j < i)
    <3>1. j - (i - 1) \in 1..(Len(list) - i) /\ i + (j - (i - 1)) = j + 1
      BY <2>1, <1>1, <2>3
    <3>2. j <= Len(front) + Len(back) /\ ~(j <= Len(front))
      BY <2>1, <1>1, <2>3, <1>2, <1>3
    <3> QED  BY <2>1, <1>1, <3>2, <2>3, <3>1, <1>2, <1>3, <1>5
  <2> QED  BY <2>2, <2>3
<1> QED
  BY <1>1, <1>2, <1>3, <1>4, <1>5, <1>6

\* Pushing a newcomer adds it to the members of a list without repetitions.
LEMMA AppendMember ==
  ASSUME NEW S, NEW list \in Seq(S), NEW u \in S, IsInjective(list), u \notin ToSet(list)
  PROVE  /\ Append(list, u) \in Seq(S)
         /\ Len(Append(list, u)) = Len(list) + 1
         /\ ToSet(Append(list, u)) = ToSet(list) \cup {u}
         /\ IsInjective(Append(list, u))
<1> DEFINE new == Append(list, u)
<1>1. /\ new \in Seq(S) /\ Len(new) = Len(list) + 1
      /\ \A i \in 1..Len(list) : new[i] = list[i]
      /\ new[Len(list) + 1] = u
  BY AppendProperties
<1>2. DOMAIN new = 1..(Len(list) + 1) /\ DOMAIN list = 1..Len(list) /\ Len(list) \in Nat
  BY <1>1
<1> HIDE DEF new
<1>3. ToSet(new) = ToSet(list) \cup {u}
  <2>1. ToSet(new) \subseteq ToSet(list) \cup {u}
    BY <1>1, <1>2 DEF ToSet
  <2>2. ToSet(list) \subseteq ToSet(new)
    <3> SUFFICES ASSUME NEW i \in 1..Len(list) PROVE list[i] \in ToSet(new)
      BY <1>2 DEF ToSet
    <3> i \in DOMAIN new /\ new[i] = list[i]
      BY <1>1, <1>2
    <3> QED  BY DEF ToSet
  <2>3. u \in ToSet(new)
    BY <1>1, <1>2 DEF ToSet
  <2> QED  BY <2>1, <2>2, <2>3
<1>4. IsInjective(new)
  <2> SUFFICES ASSUME NEW a \in DOMAIN new, NEW b \in DOMAIN new, new[a] = new[b]
               PROVE  a = b
    BY DEF IsInjective
  <2>1. \A i \in 1..Len(list) : list[i] # u
    BY <1>2 DEF ToSet
  <2> QED
    BY <1>1, <1>2, <2>1 DEF IsInjective
<1> QED
  BY <1>1, <1>3, <1>4 DEF new

\* Removing a position of such a list removes one member.
LEMMA RemoveMember ==
  ASSUME NEW S, NEW list \in Seq(S), NEW i \in 1..Len(list), IsInjective(list)
  PROVE  /\ ToSet(RemoveAt(list, i)) = ToSet(list) \ {list[i]}
         /\ IsInjective(RemoveAt(list, i))
<1> DEFINE new == RemoveAt(list, i)
<1>1. /\ new \in Seq(S) /\ Len(new) = Len(list) - 1
      /\ \A j \in 1..(Len(list) - 1) : new[j] = IF j < i THEN list[j] ELSE list[j + 1]
  BY RemoveAtShifts
<1>2. DOMAIN new = 1..(Len(list) - 1) /\ DOMAIN list = 1..Len(list) /\ Len(list) \in Nat
  BY <1>1
<1> HIDE DEF new
<1> DEFINE from(j) == IF j < i THEN j ELSE j + 1
<1>3. \A j \in DOMAIN new : /\ from(j) \in DOMAIN list /\ from(j) # i
                            /\ new[j] = list[from(j)]
  BY <1>1, <1>2
<1>4. \A k \in DOMAIN list : k # i => \E j \in DOMAIN new : from(j) = k
  <2> SUFFICES ASSUME NEW k \in DOMAIN list, k # i PROVE \E j \in DOMAIN new : from(j) = k
    OBVIOUS
  <2>1. CASE k < i
    <3> k \in DOMAIN new /\ from(k) = k
      BY <2>1, <1>2
    <3> QED  OBVIOUS
  <2>2. CASE k > i
    <3> k - 1 \in DOMAIN new /\ from(k - 1) = k
      BY <2>2, <1>2
    <3> QED  OBVIOUS
  <2> QED  BY <2>1, <2>2, <1>2
<1>5. \A a, b \in DOMAIN new : from(a) = from(b) => a = b
  BY <1>2
<1> HIDE DEF from
<1>6. ToSet(new) = ToSet(list) \ {list[i]}
  <2>1. ASSUME NEW j \in DOMAIN new PROVE new[j] \in ToSet(list) \ {list[i]}
    BY <1>2, <1>3 DEF ToSet, IsInjective
  <2>2. ASSUME NEW k \in DOMAIN list, list[k] # list[i] PROVE list[k] \in ToSet(new)
    BY <2>2, <1>3, <1>4 DEF ToSet
  <2> QED  BY <2>1, <2>2 DEF ToSet
<1>7. IsInjective(new)
  BY <1>3, <1>5 DEF IsInjective
<1> QED
  BY <1>6, <1>7 DEF new
-----------------------------------------------------------------------------
RoleInv == RoleTypeOK /\ ListsMatchRoles

LEMMA RoleInitInv == RoleInit => RoleInv
  BY MaxVerifiersAssumption
  DEF RoleInit, RoleInv, RoleTypeOK, ListsMatchRoles, Role, ToSet, IsInjective

\* A grant keeps the registry consistent: whoever lacks a role is not in its list.
LEMMA GrantRoleInv ==
  ASSUME RoleInv, NEW u \in Users, NEW r \in Role, GrantRole(u, r)
  PROVE  RoleInv'
<1> USE DEF RoleInv, RoleTypeOK, ListsMatchRoles
<1>1. /\ roleList[r] \in Seq(Users) /\ IsInjective(roleList[r])
      /\ u \notin ToSet(roleList[r])
  BY DEF GrantRole
<1>2. /\ Append(roleList[r], u) \in Seq(Users)
      /\ Len(Append(roleList[r], u)) = Len(roleList[r]) + 1
      /\ ToSet(Append(roleList[r], u)) = ToSet(roleList[r]) \cup {u}
      /\ IsInjective(Append(roleList[r], u))
  BY <1>1, AppendMember
<1>3. /\ roles' = [roles EXCEPT ![u] = @ \cup {r}]
      /\ roleList' = [roleList EXCEPT ![r] = Append(roleList[r], u)]
  BY DEF GrantRole
<1>4. RoleTypeOK'
  <2>1. roles' \in [Users -> SUBSET Role] /\ roleList' \in [Role -> Seq(Users)]
    BY <1>2, <1>3
  <2>2. Len(roleList["Verifier"])' <= MaxVerifiers
    BY <1>2, <1>3, MaxVerifiersAssumption DEF GrantRole, Role
  <2> QED  BY <2>1, <2>2
<1>5. ListsMatchRoles'
  <2> SUFFICES ASSUME NEW q \in Role
               PROVE  /\ ToSet(roleList'[q]) = {w \in Users : q \in roles'[w]}
                      /\ IsInjective(roleList'[q])
    OBVIOUS
  <2>1. CASE q = r
    BY <2>1, <1>2, <1>3
  <2>2. CASE q # r
    BY <2>2, <1>3
  <2> QED  BY <2>1, <2>2
<1> QED  BY <1>4, <1>5

\* A revocation removes the same user from both records.
LEMMA RevokeRoleInv ==
  ASSUME RoleInv, NEW u \in Users, NEW r \in Role, RevokeRole(u, r)
  PROVE  RoleInv'
<1> USE DEF RoleInv, RoleTypeOK, ListsMatchRoles
<1> DEFINE i == Position(roleList[r], u)
           new == RemoveAt(roleList[r], i)
<1>1. /\ roleList[r] \in Seq(Users) /\ IsInjective(roleList[r])
      /\ i \in 1..Len(roleList[r]) /\ roleList[r][i] = u
  BY PositionIsFirst DEF RevokeRole
<1>2. new \in Seq(Users) /\ Len(new) = Len(roleList[r]) - 1
  BY <1>1, RemoveAtShifts
<1>3. ToSet(new) = ToSet(roleList[r]) \ {u} /\ IsInjective(new)
  BY <1>1, RemoveMember
<1>4. /\ roles' = [roles EXCEPT ![u] = @ \ {r}]
      /\ roleList' = [roleList EXCEPT ![r] = new]
  BY DEF RevokeRole
<1> HIDE DEF new, i
<1>5. RoleTypeOK'
  <2>1. roles' \in [Users -> SUBSET Role] /\ roleList' \in [Role -> Seq(Users)]
    BY <1>2, <1>4
  <2>2. Len(roleList["Verifier"])' <= MaxVerifiers
    BY <1>2, <1>4, MaxVerifiersAssumption DEF Role
  <2> QED  BY <2>1, <2>2
<1>6. ListsMatchRoles'
  <2> SUFFICES ASSUME NEW q \in Role
               PROVE  /\ ToSet(roleList'[q]) = {w \in Users : q \in roles'[w]}
                      /\ IsInjective(roleList'[q])
    OBVIOUS
  <2>1. CASE q = r
    BY <2>1, <1>3, <1>4
  <2>2. CASE q # r
    BY <2>2, <1>4
  <2> QED  BY <2>1, <2>2
<1> QED  BY <1>5, <1>6

LEMMA RoleStutterInv == RoleInv /\ UNCHANGED roleVars => RoleInv'
  BY DEF RoleInv, RoleTypeOK, ListsMatchRoles, roleVars

\* The two records of an appointment always agree, and every verifier has its own
\* bit of the vote masks, however many users there are and whatever the limit.
THEOREM RegistryConsistent == RoleSpec => [](RoleTypeOK /\ ListsMatchRoles)
<1>1. RoleInv /\ [RoleNext]_roleVars => RoleInv'
  BY GrantRoleInv, RevokeRoleInv, RoleStutterInv DEF RoleNext
<1>2. RoleInv => RoleTypeOK /\ ListsMatchRoles
  BY DEF RoleInv
<1> QED
  BY <1>1, <1>2, RoleInitInv, PTL DEF RoleSpec
-----------------------------------------------------------------------------
\* In a list without repetitions every element is found where it stands.
LEMMA PositionInjective ==
  ASSUME NEW S, NEW list \in Seq(S), NEW i \in 1..Len(list), IsInjective(list)
  PROVE  Contains(list, list[i]) /\ Position(list, list[i]) = i
<1>1. Contains(list, list[i])
  BY DEF Contains
<1>2. Position(list, list[i]) \in 1..Len(list) /\ list[Position(list, list[i])] = list[i]
  BY <1>1, PositionIsFirst
<1> QED  BY <1>1, <1>2 DEF IsInjective

\* The members of a list are those that can be found in it.
LEMMA MembersOfList ==
  ASSUME NEW S, NEW list \in Seq(S)
  PROVE  ToSet(list) = {x \in S : Contains(list, x)}
<1>1. DOMAIN list = 1..Len(list) /\ \A i \in 1..Len(list) : list[i] \in S
  OBVIOUS
<1> QED  BY <1>1 DEF ToSet, Contains

-----------------------------------------------------------------------------
(***************************************************************************)
(* Bits of a vote mask, which stand for the positions in a list.           *)
(***************************************************************************)
\* The bit that belongs to the position of u is set.
HasBit(list, u, votes) == Contains(list, u) /\ Position(list, u) - 1 \in votes

LEMMA HasBitSomewhere ==
  ASSUME NEW S, NEW list \in Seq(S), IsInjective(list), NEW u, NEW votes
  PROVE  HasBit(list, u, votes) <=> \E i \in 1..Len(list) : list[i] = u /\ i - 1 \in votes
<1>1. ASSUME NEW i \in 1..Len(list)
      PROVE  Contains(list, list[i]) /\ Position(list, list[i]) = i
  BY PositionInjective
<1>2. Contains(list, u) => \E i \in 1..Len(list) : list[i] = u
  BY DEF Contains
<1> QED  BY <1>1, <1>2 DEF HasBit

\* An appointment neither gives a bit that is set to anybody nor takes one away.
LEMMA NewcomerHasNoBit ==
  ASSUME NEW S, NEW list \in Seq(S), IsInjective(list), NEW x \in S, x \notin ToSet(list),
         NEW u, NEW votes, \A i \in votes : i < Len(list)
  PROVE  HasBit(Append(list, x), u, votes) <=> HasBit(list, u, votes)
<1> DEFINE new == Append(list, x)
           n == Len(list)
<1>1. /\ new \in Seq(S) /\ Len(new) = n + 1 /\ IsInjective(new) /\ n \in Nat
      /\ \A i \in 1..n : new[i] = list[i]
  BY AppendMember, AppendProperties
<1>2. HasBit(list, u, votes) <=> \E i \in 1..n : list[i] = u /\ i - 1 \in votes
  BY HasBitSomewhere
<1>3. HasBit(new, u, votes) <=> \E i \in 1..(n + 1) : new[i] = u /\ i - 1 \in votes
  <2> HIDE DEF new, n
  <2> QED  BY <1>1, HasBitSomewhere
<1>4. \A i \in 1..(n + 1) : i - 1 \in votes => i \in 1..n
  <2> SUFFICES ASSUME NEW i \in 1..(n + 1), i - 1 \in votes PROVE i \in 1..n
    OBVIOUS
  <2>1. i - 1 < n
    OBVIOUS
  <2> HIDE DEF n
  <2> QED  BY <1>1, <2>1
<1>5. \A i \in 1..n : i \in 1..(n + 1)
  BY <1>1
<1> HIDE DEF new, n
<1>6. HasBit(new, u, votes) <=> HasBit(list, u, votes)
  BY <1>1, <1>2, <1>3, <1>4, <1>5
<1> QED  BY <1>6 DEF new

\* A vote sets the bit of the one who casts it, and of nobody else.
LEMMA OwnBit ==
  ASSUME NEW S, NEW list \in Seq(S), IsInjective(list), NEW v, Contains(list, v),
         NEW votes, Position(list, v) - 1 \notin votes, NEW u
  PROVE  LET bit == Position(list, v) - 1
         IN /\ bit \in Nat /\ bit < Len(list)
            /\ ~HasBit(list, v, votes)
            /\ HasBit(list, u, votes \cup {bit}) <=> HasBit(list, u, votes) \/ u = v
<1> DEFINE k == Position(list, v)
<1>1. Len(list) \in Nat /\ DOMAIN list = 1..Len(list)
  OBVIOUS
<1>2. k \in 1..Len(list) /\ list[k] = v /\ k - 1 \notin votes
  BY PositionIsFirst
<1> HIDE DEF k
<1>3. k - 1 \in Nat /\ k - 1 < Len(list)
  BY <1>1, <1>2
<1>4. \A i \in 1..Len(list) : (list[i] = v <=> i = k) /\ (i - 1 = k - 1 <=> i = k)
  BY <1>1, <1>2 DEF IsInjective
<1>5. ~HasBit(list, v, votes)
  BY <1>2, <1>4, HasBitSomewhere
<1>6. HasBit(list, u, votes \cup {k - 1}) <=>
        \E i \in 1..Len(list) : list[i] = u /\ i - 1 \in votes \cup {k - 1}
  BY HasBitSomewhere
<1>7. HasBit(list, u, votes) <=> \E i \in 1..Len(list) : list[i] = u /\ i - 1 \in votes
  BY HasBitSomewhere
<1>8. HasBit(list, u, votes \cup {k - 1}) <=> HasBit(list, u, votes) \/ u = v
  BY <1>2, <1>4, <1>6, <1>7
<1> QED  BY <1>3, <1>5, <1>8 DEF k
-----------------------------------------------------------------------------
(***************************************************************************)
(* The list of verifiers while nobody is dismissed from it.                *)
(***************************************************************************)
\* Nothing happens to the list but that a newcomer goes to its end.
VerifiersGrow ==
  LET old == roleList["Verifier"]
      new == roleList'["Verifier"]
  IN \/ new = old
     \/ \E u \in Users : u \notin ToSet(old) /\ new = Append(old, u)

LEMMA GrantGrows ==
  ASSUME RoleInv, NEW u \in Users, NEW r \in Role, GrantRole(u, r)
  PROVE  VerifiersGrow
<1>1. roleList' = [roleList EXCEPT ![r] = Append(@, u)] /\ r \notin roles[u]
  BY DEF GrantRole
<1>2. roleList \in [Role -> Seq(Users)] /\ "Verifier" \in Role
  BY DEF RoleInv, RoleTypeOK, Role
<1>3. CASE r = "Verifier"
  <2>1. u \notin ToSet(roleList[r])
    BY <1>1 DEF RoleInv, ListsMatchRoles
  <2> QED  BY <1>1, <1>2, <1>3, <2>1 DEF VerifiersGrow
<1>4. CASE r # "Verifier"
  BY <1>1, <1>2, <1>4 DEF VerifiersGrow
<1> QED  BY <1>3, <1>4

LEMMA RevokeGrows ==
  ASSUME RoleInv, NEW u \in Users, NEW r \in Role, r # "Verifier", RevokeRole(u, r)
  PROVE  VerifiersGrow
  BY DEF VerifiersGrow, RevokeRole, RoleInv, RoleTypeOK, Role

\* Those in the list keep their positions.
LEMMA GrownList ==
  ASSUME RoleInv, VerifiersGrow
  PROVE  LET old == roleList["Verifier"]
             new == roleList'["Verifier"]
         IN /\ Len(old) \in Nat /\ Len(new) \in Nat /\ Len(old) <= Len(new)
            /\ \A i \in 1..Len(old) : new[i] = old[i]
<1> DEFINE old == roleList["Verifier"]
           new == roleList'["Verifier"]
<1>1. old \in Seq(Users) /\ Len(old) \in Nat
  BY DEF RoleInv, RoleTypeOK, Role
<1>2. new = old \/ \E u \in Users : u \notin ToSet(old) /\ new = Append(old, u)
  BY DEF VerifiersGrow
<1> HIDE DEF old, new
<1>3. Len(new) \in Nat /\ Len(old) <= Len(new) /\ \A i \in 1..Len(old) : new[i] = old[i]
  <2>1. CASE new = old
    BY <1>1, <2>1
  <2>2. CASE new # old
    BY <1>1, <1>2, <2>2, AppendProperties
  <2> QED  BY <2>1, <2>2
<1> QED  BY <1>1, <1>3 DEF old, new

\* Bits that are set belong to verifiers of today, and stay with them.
LEMMA BitsStay ==
  ASSUME RoleInv, VerifiersGrow, NEW u, NEW votes, \A i \in votes : i < Len(roleList["Verifier"])
  PROVE  HasBit(roleList'["Verifier"], u, votes) <=> HasBit(roleList["Verifier"], u, votes)
<1>1. roleList["Verifier"] \in Seq(Users) /\ IsInjective(roleList["Verifier"])
  BY DEF RoleInv, RoleTypeOK, ListsMatchRoles, Role
<1>2. CASE roleList'["Verifier"] = roleList["Verifier"]
  BY <1>2
<1>3. ASSUME NEW x \in Users, x \notin ToSet(roleList["Verifier"]),
             roleList'["Verifier"] = Append(roleList["Verifier"], x)
      PROVE  HasBit(roleList'["Verifier"], u, votes) <=> HasBit(roleList["Verifier"], u, votes)
  <2> DEFINE old == roleList["Verifier"]
  <2>1. old \in Seq(Users) /\ IsInjective(old) /\ x \notin ToSet(old) /\ \A i \in votes : i < Len(old)
    BY <1>1, <1>3
  <2> HIDE DEF old
  <2>2. HasBit(Append(old, x), u, votes) <=> HasBit(old, u, votes)
    BY <2>1, NewcomerHasNoBit
  <2> QED  BY <1>3, <2>2 DEF old
<1> QED  BY <1>2, <1>3 DEF VerifiersGrow
-----------------------------------------------------------------------------
(***************************************************************************)
(* The order of appointment.                                               *)
(***************************************************************************)
\* The order of two users who are both in a list before and after a step.
OrderKept(r) ==
  \A i, j \in DOMAIN roleList[r] :
    i < j /\ Contains(roleList'[r], roleList[r][i]) /\ Contains(roleList'[r], roleList[r][j])
      => Position(roleList'[r], roleList[r][i]) < Position(roleList'[r], roleList[r][j])

\* A list that does not change keeps its order.
LEMMA UnchangedKeepsOrder ==
  ASSUME RoleInv, NEW r \in Role, roleList'[r] = roleList[r]
  PROVE  OrderKept(r)
<1>1. roleList[r] \in Seq(Users) /\ IsInjective(roleList[r])
  BY DEF RoleInv, RoleTypeOK, ListsMatchRoles
<1> QED
  BY <1>1, PositionInjective DEF OrderKept

\* A newcomer comes after everybody, and nobody else moves.
LEMMA GrantKeepsOrder ==
  ASSUME RoleInv, NEW u \in Users, NEW r \in Role, GrantRole(u, r)
  PROVE  OrderKept(r)
<1> DEFINE old == roleList[r]
           new == Append(old, u)
<1>1. roleList'[r] = new
  BY DEF RoleInv, RoleTypeOK, GrantRole
<1>2. old \in Seq(Users) /\ IsInjective(old) /\ u \notin ToSet(old)
  BY DEF RoleInv, RoleTypeOK, ListsMatchRoles, GrantRole
<1>3. new \in Seq(Users) /\ Len(new) = Len(old) + 1 /\ IsInjective(new)
  BY <1>2, AppendMember
<1>4. \A i \in 1..Len(old) : i \in 1..Len(new) /\ new[i] = old[i]
  BY <1>2, <1>3, AppendProperties
<1> HIDE DEF new
<1>5. \A i \in DOMAIN old : Position(new, old[i]) = i
  BY <1>2, <1>3, <1>4, PositionInjective
<1> QED
  BY <1>1, <1>5 DEF OrderKept

\* Those behind the user who leaves move up together.
LEMMA RevokeKeepsOrder ==
  ASSUME RoleInv, NEW u \in Users, NEW r \in Role, RevokeRole(u, r)
  PROVE  OrderKept(r)
<1> DEFINE old == roleList[r]
           k == Position(old, u)
           new == RemoveAt(old, k)
           to(i) == IF i < k THEN i ELSE i - 1
<1>1. roleList'[r] = new
  BY DEF RoleInv, RoleTypeOK, RevokeRole
<1>2. old \in Seq(Users) /\ IsInjective(old) /\ k \in 1..Len(old) /\ old[k] = u
  BY PositionIsFirst DEF RoleInv, RoleTypeOK, ListsMatchRoles, RevokeRole
<1>3. /\ new \in Seq(Users) /\ Len(new) = Len(old) - 1
      /\ \A j \in 1..(Len(old) - 1) : new[j] = IF j < k THEN old[j] ELSE old[j + 1]
  BY <1>2, RemoveAtShifts
<1>4. ToSet(new) = ToSet(old) \ {u} /\ IsInjective(new)
  BY <1>2, RemoveMember
<1> HIDE DEF k, new
<1>5. ASSUME NEW i \in DOMAIN old, Contains(new, old[i])
      PROVE  i # k /\ Position(new, old[i]) = to(i)
  <2>1. PICK j \in 1..Len(new) : new[j] = old[i]
    BY <1>5 DEF Contains
  <2>2. new[j] \in ToSet(new)
    BY <1>3 DEF ToSet
  <2>3. i # k
    BY <2>1, <2>2, <1>2, <1>4
  <2>4. to(i) \in 1..Len(new) /\ new[to(i)] = old[i]
    BY <2>3, <1>2, <1>3
  <2> QED
    BY <2>3, <2>4, <1>3, <1>4, PositionInjective
<1>6. \A i, j \in DOMAIN old : i < j /\ i # k /\ j # k => to(i) < to(j)
  BY <1>2
<1> QED
  BY <1>1, <1>5, <1>6 DEF OrderKept

\* Whoever keeps a role keeps its rank among those who keep it: appointments and
\* dismissals never swap two verifiers.
THEOREM SeniorityIsKept == RoleSpec => SeniorityKept
<1>1. ASSUME RoleInv, [RoleNext]_roleVars, NEW q \in Role
      PROVE  OrderKept(q)
  <2>1. ASSUME NEW u \in Users, NEW r \in Role, GrantRole(u, r) PROVE OrderKept(q)
    <3>1. CASE q = r
      BY <3>1, <1>1, <2>1, GrantKeepsOrder
    <3>2. CASE q # r
      <4> roleList'[q] = roleList[q]
        BY <3>2, <1>1, <2>1 DEF GrantRole, RoleInv, RoleTypeOK
      <4> QED  BY <1>1, UnchangedKeepsOrder
    <3> QED  BY <3>1, <3>2
  <2>2. ASSUME NEW u \in Users, NEW r \in Role, RevokeRole(u, r) PROVE OrderKept(q)
    <3>1. CASE q = r
      BY <3>1, <1>1, <2>2, RevokeKeepsOrder
    <3>2. CASE q # r
      <4> roleList'[q] = roleList[q]
        BY <3>2, <1>1, <2>2 DEF RevokeRole, RoleInv, RoleTypeOK
      <4> QED  BY <1>1, UnchangedKeepsOrder
    <3> QED  BY <3>1, <3>2
  <2>3. CASE UNCHANGED roleVars
    BY <2>3, <1>1, UnchangedKeepsOrder DEF roleVars
  <2> QED  BY <1>1, <2>1, <2>2, <2>3 DEF RoleNext
<1>2. RoleInv /\ [RoleNext]_roleVars
        => [\A r \in Role : \A i, j \in DOMAIN roleList[r] :
              LET u == roleList[r][i]
                  w == roleList[r][j]
              IN i < j /\ Contains(roleList'[r], u) /\ Contains(roleList'[r], w)
                   => Position(roleList'[r], u) < Position(roleList'[r], w)]_roleVars
  BY <1>1 DEF OrderKept
<1>3. RoleInv /\ [RoleNext]_roleVars => RoleInv'
  BY GrantRoleInv, RevokeRoleInv, RoleStutterInv DEF RoleNext
<1> QED
  BY <1>2, <1>3, RoleInitInv, PTL DEF RoleSpec, SeniorityKept
=============================================================================
