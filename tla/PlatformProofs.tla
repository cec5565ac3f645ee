--------------------------- MODULE PlatformProofs ---------------------------
(***************************************************************************)
(* Proofs about the platform, for any number of users, tokens and          *)
(* tournaments and every configuration that PlatformAssumption allows.     *)
(***************************************************************************)
EXTENDS PlatformProperties, RoleRegistryProofs, FiniteSetTheorems

\* The types need a registry in which every verifier has a position.
PlatformInv == PlatformTypeOK /\ ListsMatchRoles

LEMMA PlatformConstants ==
  /\ FirstNonce \in Nat /\ LastNonce \in Nat /\ FirstNonce <= LastNonce
  /\ FirstPrecision \in Nat /\ SeatBound \in Nat /\ UserFunds \in Nat
  /\ VerifierFee \in Nat /\ PlatformFee \in Nat /\ MaxVerifiers \in Nat /\ ConsensusRate \in Nat
  BY PlatformAssumption, MaxVerifiersAssumption, ConsensusRateAssumption

LEMMA InitPlatformInv == Init => PlatformInv
<1> SUFFICES ASSUME Init PROVE PlatformInv
  OBVIOUS
<1>1. RoleTypeOK /\ ListsMatchRoles
  <2>1. \A r \in Role : InitHolders[r] \in Seq(Users) /\ IsInjective(InitHolders[r])
    BY PlatformAssumption
  <2>2. /\ roleList = [r \in Role |-> InitHolders[r]]
        /\ roles = [u \in Users |-> {r \in Role : Contains(InitHolders[r], u)}]
    BY DEF Init
  <2>3. \A r \in Role : ToSet(InitHolders[r]) = {u \in Users : Contains(InitHolders[r], u)}
    BY <2>1, MembersOfList
  <2>4. ListsMatchRoles
    BY <2>1, <2>2, <2>3 DEF ListsMatchRoles
  <2>5. Len(roleList["Verifier"]) <= MaxVerifiers
    BY <2>2, PlatformAssumption, PlatformConstants DEF Role
  <2> QED  BY <2>1, <2>2, <2>4, <2>5 DEF RoleTypeOK
<1>2. Ids = {} /\ FirstNonce..(FirstNonce - 1) = {}
  <2>1. DOMAIN tournaments = {}
    BY DEF Init
  <2> QED  BY <2>1, PlatformConstants DEF Ids
<1>3. nonce = FirstNonce /\ nonce \in FirstNonce..LastNonce
  BY PlatformConstants DEF Init
<1> QED
  BY <1>1, <1>2, <1>3, PlatformConstants DEF Init, PlatformInv, PlatformTypeOK
-----------------------------------------------------------------------------
\* What the invariant says of a tournament.
LEMMA TournamentTypes ==
  ASSUME PlatformInv, NEW id \in Ids
  PROVE  /\ tournaments[id].organizer \in Users /\ tournaments[id].config \in Terms
         /\ tournaments[id].book \in Book /\ BloomCreated(tournaments[id].precision)
         /\ tournaments[id].book.start_votes \subseteq Nat
         /\ tournaments[id].book.cancel_votes \subseteq Nat
         /\ tournaments[id].config.team_size \in Nat
<1>1. /\ tournaments[id].organizer \in Users /\ tournaments[id].config \in Terms
      /\ tournaments[id].book \in Book /\ BloomCreated(tournaments[id].precision)
  BY DEF PlatformInv, PlatformTypeOK, BookOf
<1>2. tournaments[id].config.team_size \in Nat
  BY <1>1, PlatformAssumption
<1> QED  BY <1>1, <1>2 DEF Book

\* A verifier that votes has a position, and so a bit.
LEMMA BitType == ASSUME RoleTypeOK, NEW v, NEW votes, MayVote(v, votes)
                 PROVE  Bit(v) \in Nat /\ Bit(v) < Len(verifierList) /\ Bit(v) < MaxVerifiers
<1>1. verifierList \in Seq(Users) /\ Len(verifierList) <= MaxVerifiers /\ Len(verifierList) \in Nat
  BY DEF RoleTypeOK, verifierList, Role
<1>2. Position(verifierList, v) \in 1..Len(verifierList)
  BY <1>1, PositionIsFirst DEF MayVote
<1> QED  BY <1>1, <1>2, PlatformConstants DEF Bit

\* The books after an instruction are books.
LEMMA BookTypes ==
  ASSUME RoleTypeOK, NEW b \in Book
  PROVE  /\ \A size \in Nat : \A places : Registered(b, size, places) \subseteq Book
         /\ \A v : CanStart(b, v) => Start(b, v) \in Book
         /\ \A v : CanCancel(b, v) => Cancel(b, v) \in Book
<1>1. /\ b.seats \in Nat /\ b.team_count \in Nat
      /\ b.start_votes \subseteq Nat /\ b.cancel_votes \subseteq Nat
  BY DEF Book
<1>2. ASSUME NEW size \in Nat, NEW places, NEW c \in Registered(b, size, places)
      PROVE  c \in Book
  <2>1. PICK n \in (1..size) \X {0, 1} : c = [b EXCEPT !.seats = @ + n[1], !.team_count = @ + n[2]]
    BY <1>2 DEF Registered
  <2>2. b.seats + n[1] \in Nat /\ b.team_count + n[2] \in Nat
    BY <1>1, <2>1
  <2> QED  BY <2>1, <2>2 DEF Book
<1>3. ASSUME NEW v, CanStart(b, v) PROVE Start(b, v) \in Book
  <2>1. b.start_votes \cup {Bit(v)} \in SUBSET Nat
    BY <1>1, <1>3, BitType DEF CanStart
  <2> DEFINE votes == b.start_votes \cup {Bit(v)}
  <2> HIDE DEF votes
  <2>2. [b EXCEPT !.start_votes = votes, !.status = IF Quorum(votes) THEN "Started" ELSE @] \in Book
    BY <2>1 DEF Book, votes
  <2> QED  BY <2>2 DEF Start, votes
<1>4. ASSUME NEW v, CanCancel(b, v) PROVE Cancel(b, v) \in Book
  <2>1. b.cancel_votes \cup {Bit(v)} \in SUBSET Nat
    BY <1>1, <1>4, BitType DEF CanCancel
  <2> DEFINE votes == b.cancel_votes \cup {Bit(v)}
  <2> HIDE DEF votes
  <2>2. [b EXCEPT !.cancel_votes = votes, !.status = IF Quorum(votes) THEN "Canceled" ELSE @] \in Book
    BY <2>1 DEF Book, votes
  <2> QED  BY <2>2 DEF Cancel, votes
<1> QED  BY <1>2, <1>3, <1>4
-----------------------------------------------------------------------------
(***************************************************************************)
(* Every step keeps the types.                                             *)
(***************************************************************************)
\* What PlatformTypeOK says of the ids and the tournaments.
TournamentsTyped ==
  /\ nonce \in FirstNonce..LastNonce
  /\ Ids = FirstNonce..(nonce - 1)
  /\ \A id \in Ids :
       /\ tournaments[id].organizer \in Users
       /\ tournaments[id].config \in Terms
       /\ BookOf(id) \in Book
       /\ BloomCreated(tournaments[id].precision)

MoneyTyped ==
  claim \in [Users -> Nat] /\ nome \in [Users -> Nat] /\ platform \in Nat /\ adminFunds \in Nat

LEMMA TypesDef ==
  PlatformTypeOK <=>
    /\ RoleTypeOK /\ MoneyTyped /\ TournamentsTyped
    /\ tokenInfo \in [Tokens -> Limits \cup {NotApproved}] /\ false_precision \in Nat
  BY DEF PlatformTypeOK, MoneyTyped, TournamentsTyped

LEMMA TypesDefNext ==
  (PlatformTypeOK <=>
    /\ RoleTypeOK /\ MoneyTyped /\ TournamentsTyped
    /\ tokenInfo \in [Tokens -> Limits \cup {NotApproved}] /\ false_precision \in Nat)'
  BY TypesDef, PTL

\* An instruction that changes the book of one tournament and no other account of it.
LEMMA BookStepTyped ==
  ASSUME PlatformInv, NEW id \in Ids, NEW b \in Book, UNCHANGED nonce,
         tournaments' = [tournaments EXCEPT ![id].book = b]
  PROVE  TournamentsTyped' /\ Ids' = Ids
<1>1. /\ Ids' = Ids /\ tournaments'[id] = [tournaments[id] EXCEPT !.book = b]
      /\ \A d \in Ids : d # id => tournaments'[d] = tournaments[d]
  BY DEF Ids
<1>2. ASSUME NEW d \in Ids
      PROVE  /\ tournaments'[d].organizer \in Users /\ tournaments'[d].config \in Terms
             /\ tournaments'[d].book \in Book /\ BloomCreated(tournaments'[d].precision)
  BY <1>1 DEF PlatformInv, PlatformTypeOK, BookOf
<1> QED  BY <1>1, <1>2 DEF PlatformInv, PlatformTypeOK, TournamentsTyped, BookOf, BloomCreated

\* A created tournament has an id of its own, whatever was created before.
LEMMA CreateTyped ==
  ASSUME PlatformInv, NEW o \in Users, NEW terms \in Terms, CreateTournament(o, terms)
  PROVE  /\ TournamentsTyped' /\ MoneyTyped'
         /\ nonce \notin Ids /\ Ids' = Ids \cup {nonce}
         /\ tournaments'[nonce] =
              [organizer |-> o, config |-> terms, book |-> NewBook, precision |-> false_precision,
               space |-> AccountSpace(Places(terms), false_precision)]
         /\ \A id \in Ids : tournaments'[id] = tournaments[id]
<1> DEFINE new == [organizer |-> o, config |-> terms, book |-> NewBook, precision |-> false_precision,
                   space |-> AccountSpace(Places(terms), false_precision)]
<1>1. /\ nonce \in FirstNonce..LastNonce /\ Ids = FirstNonce..(nonce - 1)
      /\ nonce < LastNonce /\ nonce' = nonce + 1
      /\ BloomCreated(false_precision)
      /\ tournaments' = [id \in Ids \cup {nonce} |-> IF id # nonce THEN tournaments[id] ELSE new]
  BY DEF CreateTournament, PlatformInv, PlatformTypeOK, FilterAccepted, Ids
<1>2. nonce \notin Ids /\ Ids \cup {nonce} = FirstNonce..nonce /\ nonce' - 1 = nonce
      /\ nonce' \in FirstNonce..LastNonce
  BY <1>1, PlatformConstants
<1> HIDE DEF new
<1>3. /\ Ids' = Ids \cup {nonce} /\ tournaments'[nonce] = new
      /\ \A id \in Ids : tournaments'[id] = tournaments[id]
  BY <1>1, <1>2 DEF Ids
<1>4. NewBook \in Book
  BY DEF NewBook, Book
<1>5. /\ new.organizer \in Users /\ new.config \in Terms /\ new.book \in Book
      /\ BloomCreated(new.precision)
  BY <1>1, <1>4 DEF new
<1>6. ASSUME NEW id \in Ids'
      PROVE  /\ tournaments'[id].organizer \in Users /\ tournaments'[id].config \in Terms
             /\ tournaments'[id].book \in Book /\ BloomCreated(tournaments'[id].precision)
  BY <1>3, <1>5 DEF PlatformInv, PlatformTypeOK, BookOf
<1>7. TournamentsTyped'
  BY <1>2, <1>3, <1>6 DEF TournamentsTyped, BookOf, BloomCreated
<1>8. MoneyTyped'
  <2>1. claim \in [Users -> Nat] /\ nome \in [Users -> Nat] /\ platform \in Nat /\ adminFunds \in Nat
    BY DEF PlatformInv, PlatformTypeOK
  <2>2. CASE UNCHANGED moneyVars
    BY <2>1, <2>2 DEF MoneyTyped, moneyVars
  <2>3. CASE /\ nome[o] >= PlatformFee /\ nome' = [nome EXCEPT ![o] = @ - PlatformFee]
             /\ platform' = platform + PlatformFee /\ UNCHANGED <<claim, adminFunds>>
    <3>1. nome[o] - PlatformFee \in Nat
      BY <2>1, <2>3, PlatformConstants
    <3> QED  BY <2>1, <2>3, <3>1, PlatformConstants DEF MoneyTyped
  <2> QED  BY <2>2, <2>3 DEF CreateTournament, PayPlatformFee
<1> QED  BY <1>2, <1>3, <1>7, <1>8 DEF new

\* Both votes add a fee to the verifier's claim.
LEMMA VoteTyped ==
  ASSUME PlatformInv, NEW v \in Users, NEW id \in Ids,
         StartTournament(v, id) \/ CancelTournament(v, id)
  PROVE  TournamentsTyped' /\ MoneyTyped' /\ Ids' = Ids
<1>1. RoleTypeOK /\ tournaments[id].book \in Book /\ tournaments[id].organizer \in Users
  BY TournamentTypes DEF PlatformInv, PlatformTypeOK
<1>2. claim \in [Users -> Nat] /\ nome \in [Users -> Nat] /\ platform \in Nat /\ adminFunds \in Nat
  BY DEF PlatformInv, PlatformTypeOK
<1>3. CASE StartTournament(v, id)
  <2>1. /\ CanStart(tournaments[id].book, v) /\ UNCHANGED <<nonce, nome, platform, adminFunds>>
        /\ tournaments' = [tournaments EXCEPT ![id].book = Start(tournaments[id].book, v)]
        /\ claim' = [claim EXCEPT ![v] = @ + VerifierFee]
    BY <1>3 DEF StartTournament, configVars, Ids
  <2>2. Start(tournaments[id].book, v) \in Book
    BY <1>1, <2>1, BookTypes
  <2>3. claim' \in [Users -> Nat]
    BY <1>2, <2>1, PlatformConstants
  <2>4. MoneyTyped'
    BY <1>2, <2>1, <2>3 DEF MoneyTyped
  <2>5. TournamentsTyped' /\ Ids' = Ids
    BY <2>1, <2>2, BookStepTyped
  <2> QED  BY <2>4, <2>5
<1>4. CASE CancelTournament(v, id)
  <2> DEFINE o == tournaments[id].organizer
             canceled == Cancel(tournaments[id].book, v)
             credit == IF canceled.status = "Canceled" THEN PlatformFee ELSE 0
  <2>1. /\ CanCancel(tournaments[id].book, v) /\ UNCHANGED <<nonce, nome, platform, adminFunds>>
        /\ tournaments' = [tournaments EXCEPT ![id].book = canceled]
        /\ claim' = [claim EXCEPT ![v] = @ + VerifierFee, ![o] = claim[o] + credit]
    BY <1>4 DEF CancelTournament, configVars
  <2>2. canceled \in Book
    BY <1>1, <2>1, BookTypes
  <2>3. o \in Users /\ credit \in Nat
    BY <1>1, PlatformConstants
  <2> HIDE DEF o, canceled, credit
  <2>4. claim' \in [Users -> Nat]
    BY <1>2, <2>1, <2>3, PlatformConstants
  <2> QED  BY <1>2, <2>1, <2>2, <2>4, BookStepTyped DEF MoneyTyped
<1> QED  BY <1>3, <1>4

LEMMA StepPlatformInv == PlatformInv /\ [Next]_vars => PlatformInv'
<1> SUFFICES ASSUME PlatformInv, [Next]_vars PROVE PlatformInv'
  OBVIOUS
<1>1. RoleInv /\ MoneyTyped /\ TournamentsTyped
      /\ tokenInfo \in [Tokens -> Limits \cup {NotApproved}] /\ false_precision \in Nat
  BY TypesDef DEF PlatformInv, RoleInv
<1>2. RoleInv' /\ (Administer \/ UNCHANGED roleVars)
  <2>1. CASE Administer
    <3>1. ASSUME NEW g \in Grants, GrantRole(g[1], g[2]) PROVE RoleInv'
      BY <1>1, <3>1, GrantRoleInv, PlatformAssumption
    <3>2. ASSUME NEW g \in Revokes, RevokeRole(g[1], g[2]) PROVE RoleInv'
      BY <1>1, <3>2, RevokeRoleInv, PlatformAssumption
    <3> QED  BY <2>1, <3>1, <3>2 DEF Administer
  <2>2. CASE ~Administer
    <3>1. UNCHANGED roleVars
      BY <2>2 DEF Next, vars, Configure, BanToken, ApproveToken, SetBloomPrecision, Operate,
                  CreateTournament, RegisterTournament, StartTournament, CancelTournament, Settle,
                  ClaimRoleFund, PayClaim, Withdraw
    <3> QED  BY <1>1, <3>1, RoleStutterInv
  <2> QED  BY <2>1, <2>2
<1>3. tokenInfo' \in [Tokens -> Limits \cup {NotApproved}] /\ false_precision' \in Nat
  <2>1. CASE Configure
    BY <1>1, <2>1, PlatformAssumption DEF Configure, BanToken, ApproveToken, SetBloomPrecision
  <2>2. CASE ~Configure
    <3>1. UNCHANGED <<tokenInfo, false_precision>>
      BY <2>2 DEF Next, vars, Administer, Operate, CreateTournament, RegisterTournament,
                  StartTournament, CancelTournament, Settle, ClaimRoleFund, PayClaim, Withdraw, configVars
    <3> QED  BY <1>1, <3>1
  <2> QED  BY <2>1, <2>2
<1>4. MoneyTyped' /\ TournamentsTyped'
  <2>1. CASE UNCHANGED <<moneyVars, nonce, tournaments>>
    BY <1>1, <2>1 DEF MoneyTyped, moneyVars, TournamentsTyped, Ids, BookOf, BloomCreated
  <2>2. CASE Administer \/ Configure \/ UNCHANGED vars
    <3>1. UNCHANGED <<moneyVars, nonce, tournaments>>
      BY <2>2 DEF Administer, Configure, BanToken, ApproveToken, SetBloomPrecision, vars, configVars
    <3> QED  BY <2>1, <3>1
  <2>3. ASSUME NEW o \in Users, NEW terms \in Terms, CreateTournament(o, terms)
        PROVE  MoneyTyped' /\ TournamentsTyped'
    BY <2>3, CreateTyped
  <2>4. ASSUME NEW id \in Ids, RegisterTournament(id)
        PROVE  MoneyTyped' /\ TournamentsTyped'
    <3>1. PICK b \in Registered(tournaments[id].book, tournaments[id].config.team_size,
                                Places(tournaments[id].config)) :
            tournaments' = [tournaments EXCEPT ![id].book = b]
      BY <2>4 DEF RegisterTournament
    <3>2. b \in Book
      BY <1>1, <3>1, TournamentTypes, BookTypes DEF RoleInv
    <3>3. UNCHANGED <<moneyVars, nonce>>
      BY <2>4 DEF RegisterTournament, configVars
    <3> QED  BY <1>1, <3>1, <3>2, <3>3, BookStepTyped DEF MoneyTyped, moneyVars
  <2>5. ASSUME NEW id \in Ids, NEW v \in Users, StartTournament(v, id) \/ CancelTournament(v, id)
        PROVE  MoneyTyped' /\ TournamentsTyped'
    BY <2>5, VoteTyped
  <2>6. CASE Settle
    <3>1. UNCHANGED <<nonce, tournaments>> /\ MoneyTyped'
      <4>1. ASSUME NEW u \in Users, NEW amount \in 1..claim[u], ClaimRoleFund(u, amount)
            PROVE  UNCHANGED <<nonce, tournaments>> /\ MoneyTyped'
        <5>1. /\ claim[u] >= amount /\ platform >= amount /\ amount \in Nat /\ claim[u] \in Nat
              /\ claim' = [claim EXCEPT ![u] = @ - amount] /\ platform' = platform - amount
              /\ nome' = [nome EXCEPT ![u] = @ + amount]
              /\ UNCHANGED <<adminFunds, nonce, tournaments>>
          BY <1>1, <4>1 DEF ClaimRoleFund, PayClaim, configVars, MoneyTyped
        <5>2. claim[u] - amount \in Nat /\ platform - amount \in Nat
          BY <1>1, <5>1 DEF MoneyTyped
        <5> QED  BY <1>1, <5>1, <5>2 DEF MoneyTyped
      <4>2. ASSUME NEW amount \in Amounts, Withdraw(amount)
            PROVE  UNCHANGED <<nonce, tournaments>> /\ MoneyTyped'
        <5>1. /\ platform >= amount /\ amount \in Nat
              /\ platform' = platform - amount /\ adminFunds' = adminFunds + amount
              /\ UNCHANGED <<claim, nome, nonce, tournaments>>
          BY <4>2, PlatformAssumption DEF Withdraw, configVars
        <5> QED  BY <1>1, <5>1 DEF MoneyTyped
      <4> QED  BY <2>6, <4>1, <4>2 DEF Settle
    <3> QED  BY <1>1, <3>1 DEF TournamentsTyped, Ids, BookOf, BloomCreated
  <2> QED  BY <2>2, <2>3, <2>4, <2>5, <2>6 DEF Next, Operate, Ids
<1> QED  BY <1>2, <1>3, <1>4, TypesDefNext DEF PlatformInv, RoleInv

\* No balance of the platform and no claim on it ever falls below zero, and the
\* nonce gives every tournament an id of its own.
THEOREM PlatformTypes == Spec => []PlatformTypeOK
<1>1. PlatformInv => PlatformTypeOK
  BY DEF PlatformInv
<1> QED  BY <1>1, InitPlatformInv, StepPlatformInv, PTL DEF Spec
-----------------------------------------------------------------------------
(***************************************************************************)
(* The size of a filter.                                                   *)
(***************************************************************************)
\* The powers of two up to 2^20, one by one.
LEMMA Powers ==
  /\ \A j \in 0..20 : 2^j \in Nat
  /\ 2^0 = 1 /\ 2^20 >= Scale
<1>1. 2^0 = 1 /\ 2^20 >= Scale
  BY DEF Scale
<1>2. /\ 2^0 \in Nat /\ 2^1 \in Nat /\ 2^2 \in Nat /\ 2^3 \in Nat /\ 2^4 \in Nat /\ 2^5 \in Nat
      /\ 2^6 \in Nat /\ 2^7 \in Nat /\ 2^8 \in Nat /\ 2^9 \in Nat /\ 2^10 \in Nat
      /\ 2^11 \in Nat /\ 2^12 \in Nat /\ 2^13 \in Nat /\ 2^14 \in Nat /\ 2^15 \in Nat
      /\ 2^16 \in Nat /\ 2^17 \in Nat /\ 2^18 \in Nat /\ 2^19 \in Nat /\ 2^20 \in Nat
  OBVIOUS
<1>3. ASSUME NEW j \in 0..20 PROVE 2^j \in Nat
  <2>1. j \in {0, 1, 2, 3, 4, 5, 6, 7, 8, 9, 10, 11, 12, 13, 14, 15, 16, 17, 18, 19, 20}
    OBVIOUS
  <2> QED  BY <1>2, <2>1
<1> QED  BY <1>1, <1>3

\* A rate below one takes at least one hash function and, as it is at least one in
\* a million, at most twenty.
LEMMA SlicesBounded ==
  ASSUME NEW precision \in Nat, BloomCreated(precision)
  PROVE  NumSlices(precision) \in 1..20
<1> DEFINE c == CeilDiv(Scale, precision)
           Enough == {k \in 0..20 : 2^k >= c}
<1>1. c \in Nat /\ c > 1 /\ c <= Scale
  BY DEF BloomCreated, CeilDiv, Scale
<1> HIDE DEF c
<1>2. 20 \in Enough /\ Enough \subseteq Nat
  BY <1>1, Powers DEF Scale
<1> DEFINE Less == {ss \in Nat \X Nat : ss[1] < ss[2]}
<1>3. IsWellFoundedOn(Less, Nat)
  BY NatLessThanWellFounded DEF OpToRel
<1>4. PICK k \in Enough : \A j \in Enough : <<j, k>> \notin Less
  <2> HIDE DEF Enough, Less
  <2> QED  BY <1>2, <1>3, WFMin
<1>5. k \in 0..20 /\ 2^k >= c
  BY <1>4
<1>6. \A j \in 0..(k - 1) : 2^j < c
  <2> SUFFICES ASSUME NEW j \in 0..(k - 1) PROVE 2^j < c
    OBVIOUS
  <2>1. j \in 0..20 /\ j < k /\ j \in Nat /\ k \in Nat
    BY <1>5
  <2>2. <<j, k>> \in Less
    BY <2>1
  <2>3. ~(2^j >= c)
    BY <1>4, <2>1, <2>2
  <2> QED  BY <1>1, <2>1, <2>3, Powers
<1>7. k \in 1..20
  <2>1. k # 0
    <3> SUFFICES ASSUME k = 0 PROVE FALSE
      OBVIOUS
    <3>1. 2^0 >= c
      BY <1>5, Zenon
    <3> QED  BY <1>1, <3>1, Powers
  <2> QED  BY <1>5, <2>1
<1> HIDE DEF Enough, Less
<1>8. \E i \in 1..20 : 2^i >= c /\ \A j \in 0..(i - 1) : 2^j < c
  BY <1>5, <1>6, <1>7
<1> QED  BY <1>8 DEF NumSlices, c
\* A filter that the check of calculate_bloom_memory lets through is at most 8404
\* bytes of bits, whatever the rate and the number of participants.
LEMMA BufferBounded ==
  ASSUME NEW n \in Nat, NEW precision \in Nat, FilterAccepted(n, precision)
  PROVE  BufferBytes(n, precision) \in Nat /\ BufferBytes(n, precision) <= 8404
<1> DEFINE k == NumSlices(precision)
           q == SliceLen(n)
<1>1. k \in Nat /\ k > 0 /\ k <= 20
  BY SlicesBounded DEF FilterAccepted
<1>2. n <= 44805 \div k
  BY DEF FilterAccepted, BloomCreated, MaxParticipants
<1>3. q \in Nat /\ 2 * q <= 3 * n + 2
  BY DEF SliceLen, CeilDiv
<1>4. BufferBytes(n, precision) = (k * q + 7) \div 8
  BY DEF BufferBytes
<1> HIDE DEF k, q
<1> DEFINE m == 44805 \div k
<1>5. m \in Nat /\ m * k <= 44805
  BY <1>1
<1>6. n <= m
  BY <1>2
<1> HIDE DEF m
<1>7. k * n <= 44805 /\ k * n \in Nat
  <2>1. k * n <= k * m /\ k * m = m * k /\ k * n \in Nat /\ k * m \in Nat
    BY <1>1, <1>5, <1>6
  <2> DEFINE x == k * n
             y == k * m
  <2>2. x <= y /\ y <= 44805 /\ x \in Nat /\ y \in Nat
    BY <1>5, <2>1
  <2> HIDE DEF x, y
  <2>3. x <= 44805
    BY <2>2
  <2> QED  BY <2>1, <2>3 DEF x
<1>8. k * (2 * q) <= k * (3 * n + 2) /\ k * q \in Nat
  BY <1>1, <1>3
<1>9. k * (2 * q) = 2 * (k * q) /\ k * (3 * n + 2) = 3 * (k * n) + 2 * k
  BY <1>1, <1>3
<1> DEFINE x == k * n
           y == k * q
<1>10. x \in Nat /\ x <= 44805 /\ y \in Nat /\ 2 * y <= 3 * x + 2 * k
  BY <1>7, <1>8, <1>9
<1> HIDE DEF x, y
<1>11. (y + 7) \div 8 \in Nat /\ (y + 7) \div 8 <= 8404
  BY <1>1, <1>10
<1> QED  BY <1>4, <1>11 DEF y

\* After its creation only the book of a tournament changes.
LEMMA OnlyBooksChange ==
  ASSUME [Next]_vars, ~\E o \in Users, terms \in Terms : CreateTournament(o, terms)
  PROVE  /\ Ids' = Ids
         /\ \A id \in Ids : /\ tournaments'[id].organizer = tournaments[id].organizer
                            /\ tournaments'[id].config = tournaments[id].config
                            /\ tournaments'[id].precision = tournaments[id].precision
                            /\ tournaments'[id].space = tournaments[id].space
<1>1. CASE UNCHANGED tournaments
  BY <1>1 DEF Ids
<1>2. CASE \E id \in Ids : \E b : tournaments' = [tournaments EXCEPT ![id].book = b]
  BY <1>2 DEF Ids
<1>3. CASE Operate
  BY <1>2, <1>3 DEF Operate, RegisterTournament, StartTournament, CancelTournament, Ids
<1>4. CASE Administer \/ Configure \/ Settle \/ UNCHANGED vars
  BY <1>1, <1>4 DEF Administer, Configure, BanToken, ApproveToken, SetBloomPrecision, Settle,
                    ClaimRoleFund, PayClaim, Withdraw, vars
<1> QED  BY <1>3, <1>4 DEF Next

\* Creation has checked the filter and made its account with the precision of the
\* moment; both are kept with the tournament, and so is what they say of its places.
FiltersSized ==
  \A id \in Ids :
    LET t == tournaments[id]
    IN /\ t.space = AccountSpace(Places(t.config), t.precision)
       /\ t.precision \in Nat /\ Places(t.config) \in Nat
       /\ FilterAccepted(Places(t.config), t.precision)

SizeInv == PlatformInv /\ FiltersSized

LEMMA StepSizeInv == SizeInv /\ [Next]_vars => SizeInv'
<1> SUFFICES ASSUME SizeInv, [Next]_vars PROVE SizeInv'
  OBVIOUS
<1>1. PlatformInv /\ PlatformInv'
  BY StepPlatformInv DEF SizeInv
<1>2. CASE \E o \in Users, terms \in Terms : CreateTournament(o, terms)
  <2>1. PICK o \in Users, terms \in Terms : CreateTournament(o, terms)
    BY <1>2
  <2>2. /\ Ids' = Ids \cup {nonce} /\ nonce \notin Ids
        /\ tournaments'[nonce] =
             [organizer |-> o, config |-> terms, book |-> NewBook, precision |-> false_precision,
              space |-> AccountSpace(Places(terms), false_precision)]
        /\ \A id \in Ids : tournaments'[id] = tournaments[id]
    BY <1>1, <2>1, CreateTyped
  <2>3. /\ FilterAccepted(Places(terms), false_precision) /\ false_precision \in Nat
        /\ Places(terms) \in Nat
    <3>1. terms.max_teams \in Nat /\ terms.team_size \in Nat
      BY PlatformAssumption
    <3> QED  BY <1>1, <2>1, <3>1 DEF CreateTournament, PlatformInv, PlatformTypeOK, Places
  <2>4. ASSUME NEW id \in Ids'
        PROVE  LET t == tournaments'[id]
               IN /\ t.space = AccountSpace(Places(t.config), t.precision)
                  /\ t.precision \in Nat /\ Places(t.config) \in Nat
                  /\ FilterAccepted(Places(t.config), t.precision)
    <3>1. CASE id = nonce
      BY <2>2, <2>3, <3>1
    <3>2. CASE id # nonce
      BY <2>2, <3>2 DEF SizeInv, FiltersSized
    <3> QED  BY <3>1, <3>2
  <2> QED  BY <1>1, <2>4 DEF SizeInv, FiltersSized
<1>3. CASE ~\E o \in Users, terms \in Terms : CreateTournament(o, terms)
  BY <1>1, <1>3, OnlyBooksChange DEF SizeInv, FiltersSized
<1> QED  BY <1>2, <1>3

\* Whatever terms an organizer sends and whatever precisions the admin sets before
\* and after: what the library writes with the first key fits the account that
\* creation made, and an instruction can allocate that account.
THEOREM FiltersFit == Spec => []FilterFitsAccount
<1>1. Init => SizeInv
  BY InitPlatformInv DEF Init, SizeInv, FiltersSized, Ids
<1>2. SizeInv => FilterFitsAccount
  <2> SUFFICES ASSUME SizeInv, NEW id \in Ids
               PROVE  LET t == tournaments[id]
                      IN /\ StoredBytes(Places(t.config), t.precision) <= t.space
                         /\ t.space <= 10240
    BY DEF FilterFitsAccount
  <2> DEFINE t == tournaments[id]
             bytes == BufferBytes(Places(t.config), t.precision)
  <2>1. bytes \in Nat /\ bytes <= 8404
    BY BufferBounded DEF SizeInv, FiltersSized
  <2>2. t.space = 8 + (76 + bytes) /\ StoredBytes(Places(t.config), t.precision) = 8 + 4 + 72 + bytes
    BY DEF SizeInv, FiltersSized, AccountSpace, FilterMemory, Overhead, StoredBytes
  <2> HIDE DEF bytes
  <2> QED  BY <2>1, <2>2
<1> QED  BY <1>1, <1>2, StepSizeInv, PTL DEF Spec
-----------------------------------------------------------------------------
(***************************************************************************)
(* Who votes, creates and cancels.                                         *)
(***************************************************************************)
\* A vote is found by the position of its verifier, which a dismissal shifts.
NoDismissals == \A g \in Revokes : g[2] # "Verifier"

\* u holds r at first, or the admin may give it to u.
MayHold(u, r) == Contains(InitHolders[r], u) \/ <<u, r>> \in Grants

\* The fee of a verifier that cancels its own tournament is overwritten, and an
\* organizer whose claim holds fees of votes creates tournaments for nothing.
Impartial == \A u \in Users : ~(MayHold(u, "Verifier") /\ MayHold(u, "Organizer"))

\* The tournaments on which u has voted to start, and to cancel.
StartedBy(u) == {id \in Ids : HasBit(verifierList, u, BookOf(id).start_votes)}
CanceledBy(u) == {id \in Ids : HasBit(verifierList, u, BookOf(id).cancel_votes)}

\* Those whose fee is refunded to u.
RefundedTo(u) == CreatedBy(u) \cap CanceledIds

LEMMA VotesCounted ==
  \A u : VotesOf(u) = Cardinality(StartedBy(u)) + Cardinality(CanceledBy(u))
<1>1. \A u, votes : Voted(u, votes) <=> HasBit(verifierList, u, votes)
  BY DEF Voted, HasBit, Bit
<1> QED  BY <1>1 DEF VotesOf, StartedBy, CanceledBy

LEMMA VotesCountedNext ==
  (\A u : VotesOf(u) = Cardinality(StartedBy(u)) + Cardinality(CanceledBy(u)))'
  BY VotesCounted, PTL

LEMMA FiniteIds ==
  ASSUME PlatformInv, NEW S, S \subseteq Ids
  PROVE  /\ IsFiniteSet(Ids) /\ IsFiniteSet(S) /\ Cardinality(S) \in Nat
         /\ \A id \in Ids : id \notin S => Cardinality(S \cup {id}) = Cardinality(S) + 1
<1>1. Ids = FirstNonce..(nonce - 1) /\ nonce \in Nat /\ FirstNonce \in Nat
  BY PlatformConstants DEF PlatformInv, PlatformTypeOK
<1>2. IsFiniteSet(Ids)
  BY <1>1, FS_Interval
<1> QED  BY <1>2, FS_Subset, FS_CardinalityType, FS_AddElement

\* The sets that RoleHoldersWhole counts are sets of ids.
LEMMA CountedIds ==
  \A u : /\ StartedBy(u) \subseteq Ids /\ CanceledBy(u) \subseteq Ids
         /\ CreatedBy(u) \subseteq Ids /\ RefundedTo(u) \subseteq Ids
  BY DEF StartedBy, CanceledBy, CreatedBy, RefundedTo

\* Bits that are set belong to verifiers of today.
BitsAssigned ==
  \A id \in Ids : \A i \in BookOf(id).start_votes \cup BookOf(id).cancel_votes :
    i < Len(verifierList)

Appointed ==
  /\ \A u \in Users, r \in Role : r \in roles[u] => MayHold(u, r)
  /\ \A id \in Ids : MayHold(tournaments[id].organizer, "Organizer")

LEMMA VerifierListTypes ==
  ASSUME PlatformInv
  PROVE  /\ verifierList \in Seq(Users) /\ IsInjective(verifierList) /\ Len(verifierList) \in Nat
         /\ RoleInv
  BY DEF PlatformInv, PlatformTypeOK, RoleInv, RoleTypeOK, ListsMatchRoles, verifierList, Role

LEMMA StepVerifiersGrow ==
  ASSUME NoDismissals, PlatformInv, [Next]_vars
  PROVE  VerifiersGrow /\ Len(verifierList) <= Len(verifierList')
         /\ (~Administer => UNCHANGED roleVars)
<1>1. RoleInv
  BY VerifierListTypes
<1>2. ~Administer => UNCHANGED roleVars
  BY DEF Next, vars, Configure, BanToken, ApproveToken, SetBloomPrecision, Operate,
         CreateTournament, RegisterTournament, StartTournament, CancelTournament, Settle,
         ClaimRoleFund, PayClaim, Withdraw
<1>3. CASE Administer
  <2>1. ASSUME NEW g \in Grants, GrantRole(g[1], g[2]) PROVE VerifiersGrow
    BY <1>1, <2>1, GrantGrows, PlatformAssumption
  <2>2. ASSUME NEW g \in Revokes, RevokeRole(g[1], g[2]) PROVE VerifiersGrow
    BY <1>1, <2>2, RevokeGrows, PlatformAssumption DEF NoDismissals
  <2> QED  BY <1>2, <1>3, <2>1, <2>2, <1>1, GrownList DEF Administer, verifierList
<1>4. CASE ~Administer
  BY <1>1, <1>2, <1>4, GrownList DEF VerifiersGrow, roleVars, verifierList
<1> QED  BY <1>3, <1>4

\* Whoever has a role was meant to have it.
LEMMA StepAppointed ==
  ASSUME PlatformInv, Appointed, [Next]_vars PROVE Appointed'
<1>1. roles \in [Users -> SUBSET Role]
  BY DEF PlatformInv, PlatformTypeOK, RoleTypeOK
<1>2. ASSUME NEW u \in Users, NEW r \in Role, r \in roles'[u] PROVE MayHold(u, r)
  <2>1. CASE \E g \in Grants : GrantRole(g[1], g[2])
    <3>1. PICK g \in Grants : GrantRole(g[1], g[2])
      BY <2>1
    <3>2. g \in Users \X Role /\ g = <<g[1], g[2]>> /\ roles' = [roles EXCEPT ![g[1]] = @ \cup {g[2]}]
      BY <3>1, PlatformAssumption DEF GrantRole
    <3>3. r \in roles[u] \/ <<u, r>> = g
      BY <1>1, <1>2, <3>2
    <3> QED  BY <3>1, <3>3 DEF Appointed, MayHold
  <2>2. CASE \E g \in Revokes : RevokeRole(g[1], g[2])
    <3>1. r \in roles[u]
      BY <1>1, <1>2, <2>2, PlatformAssumption DEF RevokeRole
    <3> QED  BY <3>1 DEF Appointed
  <2>3. CASE ~Administer
    <3>1. roles' = roles
      BY <2>3 DEF Next, vars, Configure, BanToken, ApproveToken, SetBloomPrecision, Operate,
                  CreateTournament, RegisterTournament, StartTournament, CancelTournament, Settle,
                  ClaimRoleFund, PayClaim, Withdraw, roleVars
    <3> QED  BY <1>2, <3>1 DEF Appointed
  <2> QED  BY <2>1, <2>2, <2>3 DEF Administer
<1>3. ASSUME NEW id \in Ids' PROVE MayHold(tournaments'[id].organizer, "Organizer")
  <2>1. CASE \E o \in Users, terms \in Terms : CreateTournament(o, terms)
    <3>1. PICK o \in Users, terms \in Terms : CreateTournament(o, terms)
      BY <2>1
    <3>2. MayHold(o, "Organizer")
      BY <3>1 DEF CreateTournament, Appointed, Role
    <3>3. /\ Ids' = Ids \cup {nonce} /\ tournaments'[nonce].organizer = o
          /\ \A d \in Ids : tournaments'[d] = tournaments[d]
      <4> DEFINE new == [organizer |-> o, config |-> terms, book |-> NewBook,
                         precision |-> false_precision,
                         space |-> AccountSpace(Places(terms), false_precision)]
      <4>1. /\ Ids' = Ids \cup {nonce} /\ tournaments'[nonce] = new
            /\ \A d \in Ids : tournaments'[d] = tournaments[d]
        BY <3>1, CreateTyped
      <4>2. new.organizer = o
        OBVIOUS
      <4> QED  BY <4>1, <4>2
    <3>4. CASE id = nonce
      BY <3>2, <3>3, <3>4
    <3>5. CASE id # nonce
      BY <3>3, <3>5 DEF Appointed
    <3> QED  BY <3>4, <3>5
  <2>2. CASE ~\E o \in Users, terms \in Terms : CreateTournament(o, terms)
    <3>1. Ids' = Ids /\ tournaments'[id].organizer = tournaments[id].organizer
      BY <2>2, OnlyBooksChange
    <3> QED  BY <3>1 DEF Appointed
  <2> QED  BY <2>1, <2>2
<1> QED  BY <1>2, <1>3 DEF Appointed, MayHold
-----------------------------------------------------------------------------
(***************************************************************************)
(* What role holders are worth, as a relation between an amount and how    *)
(* often they voted to start, voted to cancel, were refunded and created.  *)
(***************************************************************************)
WholeWith(worth, started, canceled, refunded, created) ==
  LET earned == UserFunds + VerifierFee * (started + canceled) + PlatformFee * refunded
  IN worth <= earned /\ worth + PlatformFee * created >= earned

\* A fee for a vote, a refund for a cancellation, and a creation, paid or free.
LEMMA WholeAgain ==
  ASSUME NEW w \in Nat, NEW s \in Nat, NEW c \in Nat, NEW r \in Nat, NEW k \in Nat,
         WholeWith(w, s, c, r, k)
  PROVE  /\ WholeWith(w + VerifierFee, s + 1, c, r, k)
         /\ WholeWith(w + VerifierFee, s, c + 1, r, k)
         /\ WholeWith(w + PlatformFee, s, c, r + 1, k)
         /\ WholeWith(w, s, c, r, k + 1)
         /\ w >= PlatformFee => WholeWith(w - PlatformFee, s, c, r, k + 1)
<1> DEFINE fees == VerifierFee * (s + c)
           refunds == PlatformFee * r
           paid == PlatformFee * k
<1>1. /\ VerifierFee * ((s + 1) + c) = fees + VerifierFee
      /\ VerifierFee * (s + (c + 1)) = fees + VerifierFee
      /\ PlatformFee * (r + 1) = refunds + PlatformFee
      /\ PlatformFee * (k + 1) = paid + PlatformFee
      /\ fees \in Nat /\ refunds \in Nat /\ paid \in Nat
  BY PlatformConstants
<1>2. w <= UserFunds + fees + refunds /\ w + paid >= UserFunds + fees + refunds
  BY DEF WholeWith
<1>3. /\ VerifierFee * (s + c) = fees /\ PlatformFee * r = refunds /\ PlatformFee * k = paid
  OBVIOUS
<1> HIDE DEF fees, refunds, paid
<1>4. UserFunds \in Nat /\ VerifierFee \in Nat /\ PlatformFee \in Nat
  BY PlatformConstants
<1>5. WholeWith(w + VerifierFee, s + 1, c, r, k)
  <2>1. w + VerifierFee <= UserFunds + (fees + VerifierFee) + refunds
        /\ w + VerifierFee + paid >= UserFunds + (fees + VerifierFee) + refunds
    BY <1>1, <1>2, <1>4
  <2> QED  BY <2>1, <1>1, <1>3, Zenon DEF WholeWith
<1>6. WholeWith(w + VerifierFee, s, c + 1, r, k)
  <2>1. w + VerifierFee <= UserFunds + (fees + VerifierFee) + refunds
        /\ w + VerifierFee + paid >= UserFunds + (fees + VerifierFee) + refunds
    BY <1>1, <1>2, <1>4
  <2> QED  BY <2>1, <1>1, <1>3, Zenon DEF WholeWith
<1>7. WholeWith(w + PlatformFee, s, c, r + 1, k)
  <2>1. w + PlatformFee <= UserFunds + fees + (refunds + PlatformFee)
        /\ w + PlatformFee + paid >= UserFunds + fees + (refunds + PlatformFee)
    BY <1>1, <1>2, <1>4
  <2> QED  BY <2>1, <1>1, <1>3, Zenon DEF WholeWith
<1>8. WholeWith(w, s, c, r, k + 1)
  <2>1. w <= UserFunds + fees + refunds /\ w + (paid + PlatformFee) >= UserFunds + fees + refunds
    BY <1>1, <1>2, <1>4
  <2> QED  BY <2>1, <1>1, <1>3, Zenon DEF WholeWith
<1>9. ASSUME w >= PlatformFee PROVE WholeWith(w - PlatformFee, s, c, r, k + 1)
  <2>1. w - PlatformFee <= UserFunds + fees + refunds
        /\ w - PlatformFee + (paid + PlatformFee) >= UserFunds + fees + refunds
    BY <1>1, <1>2, <1>4, <1>9
  <2> QED  BY <2>1, <1>1, <1>3, Zenon DEF WholeWith
<1> QED  BY <1>5, <1>6, <1>7, <1>8, <1>9

Whole(u) == WholeWith(nome[u] + claim[u], Cardinality(StartedBy(u)), Cardinality(CanceledBy(u)),
                      Cardinality(RefundedTo(u)), Cardinality(CreatedBy(u)))

LEMMA WholeIsProperty == RoleHoldersWhole <=> \A u \in Users : Whole(u)
<1>1. \A u : VotesOf(u) = Cardinality(StartedBy(u)) + Cardinality(CanceledBy(u))
  BY VotesCounted
<1> QED  BY <1>1 DEF RoleHoldersWhole, Whole, WholeWith, RefundedTo

WorthInv == PlatformInv /\ Appointed /\ BitsAssigned /\ \A u \in Users : Whole(u)

\* What Whole is stated over is a number of money and four of ids.
LEMMA WholeTypes ==
  ASSUME PlatformInv, NEW u \in Users
  PROVE  /\ nome[u] \in Nat /\ claim[u] \in Nat /\ nome[u] + claim[u] \in Nat
         /\ Cardinality(StartedBy(u)) \in Nat /\ Cardinality(CanceledBy(u)) \in Nat
         /\ Cardinality(RefundedTo(u)) \in Nat /\ Cardinality(CreatedBy(u)) \in Nat
<1>1. nome[u] \in Nat /\ claim[u] \in Nat
  BY DEF PlatformInv, PlatformTypeOK
<1> QED  BY <1>1, CountedIds, FiniteIds
-----------------------------------------------------------------------------
(***************************************************************************)
(* What a step does to the sets of tournaments that are counted.           *)
(***************************************************************************)
\* The tournaments, who made them, and their votes and results are the same.
SameBallots ==
  /\ Ids' = Ids
  /\ \A id \in Ids :
       /\ tournaments'[id].organizer = tournaments[id].organizer
       /\ tournaments'[id].book.status = tournaments[id].book.status
       /\ tournaments'[id].book.start_votes = tournaments[id].book.start_votes
       /\ tournaments'[id].book.cancel_votes = tournaments[id].book.cancel_votes

\* Only votes and creations change ballots.
LEMMA OthersKeepBallots ==
  ASSUME PlatformInv,
         \/ Administer \/ Configure \/ Settle \/ UNCHANGED vars
         \/ \E id \in Ids : RegisterTournament(id)
  PROVE  SameBallots
<1>1. CASE UNCHANGED tournaments
  BY <1>1 DEF SameBallots, Ids
<1>2. CASE Administer \/ Configure \/ Settle \/ UNCHANGED vars
  BY <1>1, <1>2 DEF Administer, Configure, BanToken, ApproveToken, SetBloomPrecision, Settle,
                    ClaimRoleFund, PayClaim, Withdraw, vars
<1>3. ASSUME NEW id \in Ids, RegisterTournament(id) PROVE SameBallots
  <2>1. PICK b \in Registered(tournaments[id].book, tournaments[id].config.team_size,
                              Places(tournaments[id].config)) :
          tournaments' = [tournaments EXCEPT ![id].book = b]
    BY <1>3 DEF RegisterTournament
  <2>2. tournaments[id].book \in Book
    BY TournamentTypes
  <2>3. /\ b.status = tournaments[id].book.status
        /\ b.start_votes = tournaments[id].book.start_votes
        /\ b.cancel_votes = tournaments[id].book.cancel_votes
    BY <2>1, <2>2 DEF Registered, Book
  <2> QED  BY <2>1, <2>3 DEF SameBallots, Ids
<1> QED  BY <1>2, <1>3

LEMMA SameBallotsSameCounts ==
  ASSUME PlatformInv, BitsAssigned, VerifiersGrow, SameBallots
  PROVE  \A u : /\ StartedBy(u)' = StartedBy(u) /\ CanceledBy(u)' = CanceledBy(u)
                /\ CreatedBy(u)' = CreatedBy(u) /\ RefundedTo(u)' = RefundedTo(u)
<1> SUFFICES ASSUME NEW u
             PROVE  /\ StartedBy(u)' = StartedBy(u) /\ CanceledBy(u)' = CanceledBy(u)
                    /\ CreatedBy(u)' = CreatedBy(u) /\ RefundedTo(u)' = RefundedTo(u)
  OBVIOUS
<1>1. ASSUME NEW id \in Ids
      PROVE  /\ HasBit(verifierList', u, tournaments'[id].book.start_votes)
                  <=> HasBit(verifierList, u, tournaments[id].book.start_votes)
             /\ HasBit(verifierList', u, tournaments'[id].book.cancel_votes)
                  <=> HasBit(verifierList, u, tournaments[id].book.cancel_votes)
  BY BitsStay, VerifierListTypes DEF BitsAssigned, BookOf, verifierList, SameBallots
<1>2. StartedBy(u)' = StartedBy(u) /\ CanceledBy(u)' = CanceledBy(u)
  BY <1>1 DEF StartedBy, CanceledBy, BookOf, SameBallots
<1>3. CreatedBy(u)' = CreatedBy(u) /\ RefundedTo(u)' = RefundedTo(u)
  BY DEF CreatedBy, RefundedTo, CanceledIds, BookOf, SameBallots
<1> QED  BY <1>2, <1>3

\* Creation: one more of the organizer's, without a vote.
LEMMA CreationCounted ==
  ASSUME PlatformInv, NEW o \in Users, NEW terms \in Terms, CreateTournament(o, terms)
  PROVE  /\ nonce \notin CreatedBy(o) /\ CreatedBy(o)' = CreatedBy(o) \cup {nonce}
         /\ \A u : u # o => CreatedBy(u)' = CreatedBy(u)
         /\ \A u : /\ StartedBy(u)' = StartedBy(u) /\ CanceledBy(u)' = CanceledBy(u)
                   /\ RefundedTo(u)' = RefundedTo(u)
<1> DEFINE new == [organizer |-> o, config |-> terms, book |-> NewBook,
                   precision |-> false_precision,
                   space |-> AccountSpace(Places(terms), false_precision)]
<1>1. /\ Ids' = Ids \cup {nonce} /\ nonce \notin Ids /\ tournaments'[nonce] = new
      /\ \A id \in Ids : tournaments'[id] = tournaments[id]
  BY CreateTyped
<1>2. new.organizer = o /\ new.book = NewBook
  OBVIOUS
<1> HIDE DEF new
<1>3. tournaments'[nonce].organizer = o /\ tournaments'[nonce].book = NewBook
  BY <1>1, <1>2
<1>4. NewBook.start_votes = {} /\ NewBook.cancel_votes = {} /\ NewBook.status # "Canceled"
  BY DEF NewBook
<1>5. verifierList' = verifierList
  BY DEF CreateTournament, roleVars, verifierList
<1>6. \A u : ~HasBit(verifierList, u, {})
  BY DEF HasBit
<1>7. \A u : StartedBy(u)' = StartedBy(u) /\ CanceledBy(u)' = CanceledBy(u)
  BY <1>1, <1>3, <1>4, <1>5, <1>6 DEF StartedBy, CanceledBy, BookOf
<1>8. /\ nonce \notin CreatedBy(o) /\ CreatedBy(o)' = CreatedBy(o) \cup {nonce}
      /\ \A u : u # o => CreatedBy(u)' = CreatedBy(u)
  BY <1>1, <1>3 DEF CreatedBy
<1>9. \A u : RefundedTo(u)' = RefundedTo(u)
  BY <1>1, <1>3, <1>4 DEF RefundedTo, CreatedBy, CanceledIds, BookOf
<1> QED  BY <1>7, <1>8, <1>9

\* A vote to start is one of the verifier's, and refunds nobody.
LEMMA StartCounted ==
  ASSUME PlatformInv, NEW v \in Users, NEW id \in Ids, StartTournament(v, id)
  PROVE  /\ id \notin StartedBy(v) /\ StartedBy(v)' = StartedBy(v) \cup {id}
         /\ \A u : u # v => StartedBy(u)' = StartedBy(u)
         /\ \A u : /\ CanceledBy(u)' = CanceledBy(u) /\ CreatedBy(u)' = CreatedBy(u)
                   /\ RefundedTo(u)' = RefundedTo(u)
<1> DEFINE b == tournaments[id].book
           after == Start(b, v)
<1>1. /\ CanStart(b, v) /\ tournaments' = [tournaments EXCEPT ![id].book = after]
      /\ verifierList' = verifierList
  BY DEF StartTournament, roleVars, verifierList
<1>2. b \in Book
  BY TournamentTypes
<1>3. /\ after.start_votes = b.start_votes \cup {Bit(v)} /\ after.cancel_votes = b.cancel_votes
      /\ after.status # "Canceled" /\ b.status = "New"
  BY <1>1, <1>2 DEF Start, CanStart, Book
<1>4. \A u : /\ ~HasBit(verifierList, v, b.start_votes)
             /\ HasBit(verifierList, u, b.start_votes \cup {Bit(v)})
                  <=> HasBit(verifierList, u, b.start_votes) \/ u = v
  <2>1. Contains(verifierList, v) /\ Position(verifierList, v) - 1 \notin b.start_votes
    BY <1>1 DEF CanStart, MayVote, Bit
  <2> QED  BY <2>1, VerifierListTypes, OwnBit DEF Bit
<1> HIDE DEF after
<1>5. /\ Ids' = Ids /\ tournaments'[id].book = after
      /\ tournaments'[id].organizer = tournaments[id].organizer
      /\ \A d \in Ids : d # id => tournaments'[d] = tournaments[d]
  <2>1. /\ Ids' = Ids /\ tournaments'[id] = [tournaments[id] EXCEPT !.book = after]
        /\ \A d \in Ids : d # id => tournaments'[d] = tournaments[d]
    BY <1>1 DEF Ids
  <2> QED  BY <2>1
<1>6. /\ id \notin StartedBy(v) /\ StartedBy(v)' = StartedBy(v) \cup {id}
      /\ \A u : u # v => StartedBy(u)' = StartedBy(u)
  BY <1>1, <1>3, <1>4, <1>5 DEF StartedBy, BookOf
<1>7. \A u : CanceledBy(u)' = CanceledBy(u)
  BY <1>1, <1>3, <1>5 DEF CanceledBy, BookOf
<1>8. \A u : CreatedBy(u)' = CreatedBy(u) /\ RefundedTo(u)' = RefundedTo(u)
  BY <1>3, <1>5 DEF CreatedBy, RefundedTo, CanceledIds, BookOf
<1> QED  BY <1>6, <1>7, <1>8

\* A vote to cancel is one of the verifier's; the last one refunds the organizer.
LEMMA CancelCounted ==
  ASSUME PlatformInv, NEW v \in Users, NEW id \in Ids, CancelTournament(v, id),
         NEW o \in Users, o = tournaments[id].organizer
  PROVE  /\ id \notin CanceledBy(v) /\ CanceledBy(v)' = CanceledBy(v) \cup {id}
         /\ \A u : u # v => CanceledBy(u)' = CanceledBy(u)
         /\ id \notin RefundedTo(o)
         /\ \/ /\ Cancel(tournaments[id].book, v).status = "Canceled"
               /\ RefundedTo(o)' = RefundedTo(o) \cup {id}
            \/ /\ Cancel(tournaments[id].book, v).status # "Canceled"
               /\ RefundedTo(o)' = RefundedTo(o)
         /\ \A u : u # o => RefundedTo(u)' = RefundedTo(u)
         /\ \A u : StartedBy(u)' = StartedBy(u) /\ CreatedBy(u)' = CreatedBy(u)
<1> DEFINE b == tournaments[id].book
           after == Cancel(b, v)
<1>1. /\ CanCancel(b, v) /\ tournaments' = [tournaments EXCEPT ![id].book = after]
      /\ verifierList' = verifierList
  BY DEF CancelTournament, roleVars, verifierList
<1>2. b \in Book
  BY TournamentTypes
<1>3. /\ after.cancel_votes = b.cancel_votes \cup {Bit(v)} /\ after.start_votes = b.start_votes
      /\ b.status = "New"
  BY <1>1, <1>2 DEF Cancel, CanCancel, Book
<1>4. \A u : /\ ~HasBit(verifierList, v, b.cancel_votes)
             /\ HasBit(verifierList, u, b.cancel_votes \cup {Bit(v)})
                  <=> HasBit(verifierList, u, b.cancel_votes) \/ u = v
  <2>1. Contains(verifierList, v) /\ Position(verifierList, v) - 1 \notin b.cancel_votes
    BY <1>1 DEF CanCancel, MayVote, Bit
  <2> QED  BY <2>1, VerifierListTypes, OwnBit DEF Bit
<1> HIDE DEF after
<1>5. /\ Ids' = Ids /\ tournaments'[id].book = after
      /\ tournaments'[id].organizer = o
      /\ \A d \in Ids : d # id => tournaments'[d] = tournaments[d]
  <2>1. /\ Ids' = Ids /\ tournaments'[id] = [tournaments[id] EXCEPT !.book = after]
        /\ \A d \in Ids : d # id => tournaments'[d] = tournaments[d]
    BY <1>1 DEF Ids
  <2> QED  BY <2>1
<1>6. /\ id \notin CanceledBy(v) /\ CanceledBy(v)' = CanceledBy(v) \cup {id}
      /\ \A u : u # v => CanceledBy(u)' = CanceledBy(u)
  BY <1>1, <1>3, <1>4, <1>5 DEF CanceledBy, BookOf
<1>7. \A u : StartedBy(u)' = StartedBy(u)
  BY <1>1, <1>3, <1>5 DEF StartedBy, BookOf
<1>8. \A u : CreatedBy(u)' = CreatedBy(u)
  BY <1>5 DEF CreatedBy
<1>9. id \in CreatedBy(o) /\ \A u : u # o => id \notin CreatedBy(u)
  BY DEF CreatedBy
<1>10. CASE after.status = "Canceled"
  <2>1. id \notin CanceledIds /\ CanceledIds' = CanceledIds \cup {id}
    BY <1>3, <1>5, <1>10 DEF CanceledIds, BookOf
  <2>2. /\ id \notin RefundedTo(o) /\ RefundedTo(o)' = RefundedTo(o) \cup {id}
        /\ \A u : u # o => RefundedTo(u)' = RefundedTo(u)
    BY <1>8, <1>9, <2>1 DEF RefundedTo
  <2> QED  BY <1>6, <1>7, <1>8, <1>10, <2>2 DEF after
<1>11. CASE after.status # "Canceled"
  <2>1. id \notin CanceledIds /\ CanceledIds' = CanceledIds
    BY <1>3, <1>5, <1>11 DEF CanceledIds, BookOf
  <2>2. id \notin RefundedTo(o) /\ \A u : RefundedTo(u)' = RefundedTo(u)
    BY <1>8, <2>1 DEF RefundedTo
  <2> QED  BY <1>6, <1>7, <1>8, <1>11, <2>2 DEF after
<1> QED  BY <1>10, <1>11
-----------------------------------------------------------------------------
(***************************************************************************)
(* Every step keeps the role holders whole.                                *)
(***************************************************************************)
\* Nothing is earned, drawn or paid, or what is drawn is held.
LEMMA WholeKept ==
  ASSUME NEW u \in Users, Whole(u), nome'[u] + claim'[u] = nome[u] + claim[u],
         StartedBy(u)' = StartedBy(u), CanceledBy(u)' = CanceledBy(u),
         CreatedBy(u)' = CreatedBy(u), RefundedTo(u)' = RefundedTo(u)
  PROVE  Whole(u)'
  BY DEF Whole

\* Instructions other than creation and votes.
LEMMA OthersKeepWhole ==
  ASSUME NoDismissals, WorthInv, [Next]_vars,
         \/ Administer \/ Configure \/ Settle \/ UNCHANGED vars
         \/ \E id \in Ids : RegisterTournament(id)
  PROVE  \A u \in Users : Whole(u)'
<1> SUFFICES ASSUME NEW u \in Users PROVE Whole(u)'
  OBVIOUS
<1>1. /\ StartedBy(u)' = StartedBy(u) /\ CanceledBy(u)' = CanceledBy(u)
      /\ CreatedBy(u)' = CreatedBy(u) /\ RefundedTo(u)' = RefundedTo(u)
  BY OthersKeepBallots, SameBallotsSameCounts, StepVerifiersGrow DEF WorthInv
<1>2. nome \in [Users -> Nat] /\ claim \in [Users -> Nat]
  BY DEF WorthInv, PlatformInv, PlatformTypeOK
<1>3. nome'[u] + claim'[u] = nome[u] + claim[u]
  <2>1. CASE UNCHANGED <<nome, claim>>
    BY <2>1
  <2>2. ASSUME NEW w \in Users, NEW amount \in 1..claim[w], ClaimRoleFund(w, amount)
        PROVE  nome'[u] + claim'[u] = nome[u] + claim[u]
    <3>1. /\ nome' = [nome EXCEPT ![w] = @ + amount] /\ claim' = [claim EXCEPT ![w] = @ - amount]
          /\ amount \in Nat /\ claim[w] >= amount
      BY <1>2, <2>2 DEF ClaimRoleFund, PayClaim
    <3> QED  BY <1>2, <3>1
  <2>3. CASE Administer \/ Configure \/ UNCHANGED vars \/ \E id \in Ids : RegisterTournament(id)
    <3>1. UNCHANGED <<nome, claim>>
      BY <2>3 DEF Administer, Configure, BanToken, ApproveToken, SetBloomPrecision,
                  RegisterTournament, vars, moneyVars
    <3> QED  BY <2>1, <3>1
  <2>4. ASSUME NEW amount \in Amounts, Withdraw(amount) PROVE UNCHANGED <<nome, claim>>
    BY <2>4 DEF Withdraw
  <2> QED  BY <2>1, <2>2, <2>3, <2>4 DEF Settle
<1> QED  BY <1>1, <1>3, WholeKept DEF WorthInv

\* The organizer pays the fee of the tournament it creates, or nothing.
LEMMA CreateKeepsWhole ==
  ASSUME WorthInv, NEW o \in Users, NEW terms \in Terms, CreateTournament(o, terms)
  PROVE  \A u \in Users : Whole(u)'
<1>1. nome \in [Users -> Nat] /\ claim \in [Users -> Nat] /\ PlatformInv
  BY DEF WorthInv, PlatformInv, PlatformTypeOK
<1>2. \/ UNCHANGED <<nome, claim>>
      \/ nome[o] >= PlatformFee /\ nome' = [nome EXCEPT ![o] = @ - PlatformFee] /\ claim' = claim
  BY DEF CreateTournament, PayPlatformFee, moneyVars
<1>3. ASSUME NEW u \in Users, u # o PROVE Whole(u)'
  <2>1. nome'[u] + claim'[u] = nome[u] + claim[u]
    BY <1>1, <1>2, <1>3
  <2> QED  BY <1>1, <1>3, <2>1, CreationCounted, WholeKept DEF WorthInv
<1>4. Whole(o)'
  <2> DEFINE w == nome[o] + claim[o]
             s == Cardinality(StartedBy(o))
             c == Cardinality(CanceledBy(o))
             r == Cardinality(RefundedTo(o))
             k == Cardinality(CreatedBy(o))
  <2>1. w \in Nat /\ s \in Nat /\ c \in Nat /\ r \in Nat /\ k \in Nat /\ WholeWith(w, s, c, r, k)
    BY <1>1, WholeTypes DEF WorthInv, Whole
  <2>2. /\ WholeWith(w, s, c, r, k + 1)
        /\ w >= PlatformFee => WholeWith(w - PlatformFee, s, c, r, k + 1)
    <3> HIDE DEF w, s, c, r, k
    <3> QED  BY <2>1, WholeAgain
  <2>3. Cardinality(CreatedBy(o)') = k + 1
    <3>1. IsFiniteSet(CreatedBy(o))
      BY <1>1, FiniteIds, CountedIds
    <3> QED  BY <1>1, <3>1, CreationCounted, FS_AddElement
  <2>4. \/ nome'[o] + claim'[o] = w
        \/ nome'[o] + claim'[o] = w - PlatformFee /\ w >= PlatformFee
    BY <1>1, <1>2, PlatformConstants
  <2>5. StartedBy(o)' = StartedBy(o) /\ CanceledBy(o)' = CanceledBy(o) /\ RefundedTo(o)' = RefundedTo(o)
    BY <1>1, CreationCounted
  <2>6. WholeWith(nome'[o] + claim'[o], s, c, r, k + 1)
    BY <2>2, <2>4
  <2> QED  BY <2>3, <2>5, <2>6 DEF Whole
<1> QED  BY <1>3, <1>4

\* A verifier is paid for its vote to start.
LEMMA StartKeepsWhole ==
  ASSUME WorthInv, NEW v \in Users, NEW id \in Ids, StartTournament(v, id)
  PROVE  \A u \in Users : Whole(u)'
<1>1. nome \in [Users -> Nat] /\ claim \in [Users -> Nat] /\ PlatformInv
  BY DEF WorthInv, PlatformInv, PlatformTypeOK
<1>2. nome' = nome /\ claim' = [claim EXCEPT ![v] = @ + VerifierFee]
  BY DEF StartTournament
<1>3. ASSUME NEW u \in Users, u # v PROVE Whole(u)'
  <2>1. nome'[u] + claim'[u] = nome[u] + claim[u]
    BY <1>1, <1>2, <1>3
  <2> QED  BY <1>1, <1>3, <2>1, StartCounted, WholeKept DEF WorthInv
<1>4. Whole(v)'
  <2> DEFINE w == nome[v] + claim[v]
             s == Cardinality(StartedBy(v))
             c == Cardinality(CanceledBy(v))
             r == Cardinality(RefundedTo(v))
             k == Cardinality(CreatedBy(v))
  <2>1. w \in Nat /\ s \in Nat /\ c \in Nat /\ r \in Nat /\ k \in Nat /\ WholeWith(w, s, c, r, k)
    BY <1>1, WholeTypes DEF WorthInv, Whole
  <2>2. WholeWith(w + VerifierFee, s + 1, c, r, k)
    <3> HIDE DEF w, s, c, r, k
    <3> QED  BY <2>1, WholeAgain
  <2>3. Cardinality(StartedBy(v)') = s + 1
    BY <1>1, StartCounted, FiniteIds, CountedIds
  <2>4. nome'[v] + claim'[v] = w + VerifierFee
    BY <1>1, <1>2, PlatformConstants
  <2>5. CanceledBy(v)' = CanceledBy(v) /\ CreatedBy(v)' = CreatedBy(v) /\ RefundedTo(v)' = RefundedTo(v)
    BY <1>1, StartCounted
  <2> QED  BY <2>2, <2>3, <2>4, <2>5 DEF Whole
<1> QED  BY <1>3, <1>4

\* A verifier is paid for its vote to cancel; with the last vote the organizer, who
\* is somebody else, gets its fee back.
LEMMA CancelKeepsWhole ==
  ASSUME Impartial, WorthInv, NEW v \in Users, NEW id \in Ids, CancelTournament(v, id)
  PROVE  \A u \in Users : Whole(u)'
<1>1. nome \in [Users -> Nat] /\ claim \in [Users -> Nat] /\ PlatformInv
  BY DEF WorthInv, PlatformInv, PlatformTypeOK
<1> DEFINE canceled == Cancel(tournaments[id].book, v).status = "Canceled"
           credit == IF canceled THEN PlatformFee ELSE 0
<1>2. PICK o \in Users : o = tournaments[id].organizer
  BY <1>1, TournamentTypes
<1>3. o # v
  <2>1. "Verifier" \in roles[v] /\ "Verifier" \in Role /\ "Organizer" \in Role
    BY DEF CancelTournament, CanCancel, MayVote, Role
  <2> QED  BY <1>2, <2>1 DEF Impartial, WorthInv, Appointed
<1>4. nome' = nome /\ claim' = [claim EXCEPT ![v] = @ + VerifierFee, ![o] = claim[o] + credit]
  BY <1>2 DEF CancelTournament
<1> HIDE DEF canceled
<1>5. /\ id \notin CanceledBy(v) /\ CanceledBy(v)' = CanceledBy(v) \cup {id}
      /\ \A u : u # v => CanceledBy(u)' = CanceledBy(u)
      /\ id \notin RefundedTo(o)
      /\ \/ canceled /\ RefundedTo(o)' = RefundedTo(o) \cup {id}
         \/ ~canceled /\ RefundedTo(o)' = RefundedTo(o)
      /\ \A u : u # o => RefundedTo(u)' = RefundedTo(u)
      /\ \A u : StartedBy(u)' = StartedBy(u) /\ CreatedBy(u)' = CreatedBy(u)
  BY <1>1, <1>2, CancelCounted DEF canceled
<1>6. ASSUME NEW u \in Users, u # v, u # o PROVE Whole(u)'
  <2>1. nome'[u] + claim'[u] = nome[u] + claim[u]
    BY <1>1, <1>4, <1>6
  <2> QED  BY <1>5, <1>6, <2>1, WholeKept DEF WorthInv
<1>7. Whole(v)'
  <2> DEFINE w == nome[v] + claim[v]
             s == Cardinality(StartedBy(v))
             c == Cardinality(CanceledBy(v))
             r == Cardinality(RefundedTo(v))
             k == Cardinality(CreatedBy(v))
  <2>1. w \in Nat /\ s \in Nat /\ c \in Nat /\ r \in Nat /\ k \in Nat /\ WholeWith(w, s, c, r, k)
    BY <1>1, WholeTypes DEF WorthInv, Whole
  <2>2. WholeWith(w + VerifierFee, s, c + 1, r, k)
    <3> HIDE DEF w, s, c, r, k
    <3> QED  BY <2>1, WholeAgain
  <2>3. Cardinality(CanceledBy(v)') = c + 1
    BY <1>1, <1>5, FiniteIds, CountedIds
  <2>4. nome'[v] + claim'[v] = w + VerifierFee
    BY <1>1, <1>3, <1>4, PlatformConstants
  <2>5. StartedBy(v)' = StartedBy(v) /\ CreatedBy(v)' = CreatedBy(v) /\ RefundedTo(v)' = RefundedTo(v)
    BY <1>3, <1>5
  <2> QED  BY <2>2, <2>3, <2>4, <2>5 DEF Whole
<1>8. Whole(o)'
  <2>1. StartedBy(o)' = StartedBy(o) /\ CanceledBy(o)' = CanceledBy(o) /\ CreatedBy(o)' = CreatedBy(o)
    BY <1>3, <1>5
  <2>2. nome'[o] + claim'[o] = nome[o] + claim[o] + credit
    BY <1>1, <1>3, <1>4, PlatformConstants
  <2>3. CASE ~canceled
    <3>1. nome'[o] + claim'[o] = nome[o] + claim[o]
      BY <1>1, <2>2, <2>3
    <3> QED  BY <1>5, <2>1, <2>3, <3>1, WholeKept DEF WorthInv
  <2>4. CASE canceled
    <3> DEFINE w == nome[o] + claim[o]
               s == Cardinality(StartedBy(o))
               c == Cardinality(CanceledBy(o))
               r == Cardinality(RefundedTo(o))
               k == Cardinality(CreatedBy(o))
    <3>1. w \in Nat /\ s \in Nat /\ c \in Nat /\ r \in Nat /\ k \in Nat /\ WholeWith(w, s, c, r, k)
      BY <1>1, WholeTypes DEF WorthInv, Whole
    <3>2. WholeWith(w + PlatformFee, s, c, r + 1, k)
      <4> HIDE DEF w, s, c, r, k
      <4> QED  BY <3>1, WholeAgain
    <3>3. Cardinality(RefundedTo(o)') = r + 1
      BY <1>1, <1>5, <2>4, FiniteIds, CountedIds
    <3>4. nome'[o] + claim'[o] = w + PlatformFee
      BY <2>2, <2>4
    <3> QED  BY <2>1, <3>2, <3>3, <3>4 DEF Whole
  <2> QED  BY <2>3, <2>4
<1> QED  BY <1>6, <1>7, <1>8
\* A vote sets the bit of a verifier, and none leaves.
LEMMA StepBitsAssigned ==
  ASSUME NoDismissals, PlatformInv, BitsAssigned, [Next]_vars
  PROVE  BitsAssigned'
<1>1. Len(verifierList) \in Nat /\ Len(verifierList') \in Nat /\ Len(verifierList) <= Len(verifierList')
  <2>1. PlatformInv'
    BY StepPlatformInv
  <2>2. (PlatformInv => Len(verifierList) \in Nat)'
    BY VerifierListTypes, PTL
  <2> QED  BY <2>1, <2>2, VerifierListTypes, StepVerifiersGrow
<1>2. \A id \in Ids : tournaments[id].book \in Book
  BY TournamentTypes
<1>3. ASSUME NEW b \in Book, NEW i \in b.start_votes \cup b.cancel_votes PROVE i \in Nat
  BY DEF Book
<1>4. ASSUME NEW id \in Ids, NEW i \in tournaments[id].book.start_votes \cup tournaments[id].book.cancel_votes
      PROVE  i \in Nat /\ i < Len(verifierList')
  BY <1>1, <1>2, <1>3 DEF BitsAssigned, BookOf
<1>5. CASE SameBallots
  BY <1>4, <1>5 DEF SameBallots, BitsAssigned, BookOf
<1>6. ASSUME NEW o \in Users, NEW terms \in Terms, CreateTournament(o, terms) PROVE BitsAssigned'
  <2> DEFINE new == [organizer |-> o, config |-> terms, book |-> NewBook,
                     precision |-> false_precision,
                     space |-> AccountSpace(Places(terms), false_precision)]
  <2>1. /\ Ids' = Ids \cup {nonce} /\ tournaments'[nonce] = new
        /\ \A id \in Ids : tournaments'[id] = tournaments[id]
    BY <1>6, CreateTyped
  <2>2. new.book.start_votes = {} /\ new.book.cancel_votes = {}
    BY DEF NewBook
  <2> HIDE DEF new
  <2> QED  BY <1>4, <2>1, <2>2 DEF BitsAssigned, BookOf
<1>7. ASSUME NEW id \in Ids, NEW v \in Users, StartTournament(v, id) \/ CancelTournament(v, id)
      PROVE  BitsAssigned'
  <2> DEFINE b == tournaments[id].book
  <2>1. PICK after : /\ tournaments' = [tournaments EXCEPT ![id].book = after]
                     /\ \/ CanStart(b, v) /\ after = Start(b, v)
                        \/ CanCancel(b, v) /\ after = Cancel(b, v)
    BY <1>7 DEF StartTournament, CancelTournament
  <2>2. Bit(v) \in Nat /\ Bit(v) < Len(verifierList)
    BY <2>1, BitType DEF PlatformInv, PlatformTypeOK, CanStart, CanCancel
  <2>3. b \in Book
    BY <1>2
  <2>4. after.start_votes \cup after.cancel_votes = b.start_votes \cup b.cancel_votes \cup {Bit(v)}
    <3>1. CASE after = Start(b, v)
      <4>1. after.start_votes = b.start_votes \cup {Bit(v)} /\ after.cancel_votes = b.cancel_votes
        BY <2>3, <3>1 DEF Start, Book
      <4> QED  BY <4>1
    <3>2. CASE after = Cancel(b, v)
      <4>1. after.cancel_votes = b.cancel_votes \cup {Bit(v)} /\ after.start_votes = b.start_votes
        BY <2>3, <3>2 DEF Cancel, Book
      <4> QED  BY <4>1
    <3> QED  BY <2>1, <3>1, <3>2
  <2>5. Ids' = Ids /\ tournaments'[id].book = after
        /\ \A d \in Ids : d # id => tournaments'[d] = tournaments[d]
    <3>1. /\ Ids' = Ids /\ tournaments'[id] = [tournaments[id] EXCEPT !.book = after]
          /\ \A d \in Ids : d # id => tournaments'[d] = tournaments[d]
      BY <2>1 DEF Ids
    <3> QED  BY <3>1
  <2>6. ASSUME NEW d \in Ids, NEW i \in tournaments'[d].book.start_votes \cup tournaments'[d].book.cancel_votes
        PROVE  i < Len(verifierList')
    <3>1. CASE d = id
      BY <1>1, <1>4, <2>2, <2>4, <2>5, <3>1
    <3>2. CASE d # id
      BY <1>4, <2>5, <3>2
    <3> QED  BY <3>1, <3>2
  <2> QED  BY <2>5, <2>6 DEF BitsAssigned, BookOf
<1> QED  BY <1>5, <1>6, <1>7, OthersKeepBallots DEF Next, Operate, Ids

LEMMA InitWorthInv == Init => WorthInv
<1> SUFFICES ASSUME Init PROVE WorthInv
  OBVIOUS
<1>1. PlatformInv /\ Ids = {}
  BY InitPlatformInv DEF Init, Ids
<1>2. Appointed /\ BitsAssigned
  BY <1>1 DEF Init, Appointed, BitsAssigned, MayHold
<1>3. ASSUME NEW u \in Users PROVE Whole(u)
  <2>1. StartedBy(u) = {} /\ CanceledBy(u) = {} /\ RefundedTo(u) = {} /\ CreatedBy(u) = {}
    BY <1>1, CountedIds
  <2>2. Cardinality({}) = 0 /\ nome[u] + claim[u] = UserFunds
    BY PlatformConstants, FS_EmptySet DEF Init
  <2>3. WholeWith(UserFunds, 0, 0, 0, 0)
    BY PlatformConstants DEF WholeWith
  <2> QED  BY <2>1, <2>2, <2>3 DEF Whole
<1> QED  BY <1>1, <1>2, <1>3 DEF WorthInv

LEMMA StepWorthInv ==
  ASSUME NoDismissals, Impartial PROVE WorthInv /\ [Next]_vars => WorthInv'
<1> SUFFICES ASSUME WorthInv, [Next]_vars PROVE WorthInv'
  OBVIOUS
<1>1. PlatformInv' /\ Appointed' /\ BitsAssigned'
  BY StepPlatformInv, StepAppointed, StepBitsAssigned DEF WorthInv
<1>2. \A u \in Users : Whole(u)'
  <2>1. ASSUME NEW id \in Ids, NEW v \in Users, StartTournament(v, id) \/ CancelTournament(v, id)
        PROVE  \A u \in Users : Whole(u)'
    BY <2>1, StartKeepsWhole, CancelKeepsWhole
  <2>2. ASSUME NEW o \in Users, NEW terms \in Terms, CreateTournament(o, terms)
        PROVE  \A u \in Users : Whole(u)'
    BY <2>2, CreateKeepsWhole
  <2> QED  BY <2>1, <2>2, OthersKeepWhole DEF Next, Operate, Ids
<1> QED  BY <1>1, <1>2 DEF WorthInv

\* While no verifier is dismissed and none is an organizer: however many fees are
\* earned, drawn in parts and refunded, over any number of tournaments and in any
\* order, nobody who works for the platform ends with more than it earned, or with
\* less but for the fee of each tournament it created.
THEOREM HoldersKeepTheirEarnings ==
  ASSUME NoDismissals, Impartial PROVE Spec => []RoleHoldersWhole
<1>1. WorthInv => RoleHoldersWhole
  BY WholeIsProperty DEF WorthInv
<1> QED  BY <1>1, InitWorthInv, StepWorthInv, PTL DEF Spec
-----------------------------------------------------------------------------
(***************************************************************************)
(* What the platform has taken in and what it owes.                        *)
(***************************************************************************)
\* The number of units is a sum: it grows by what one user gains.
LEMMA UnitsAdded ==
  ASSUME NEW f \in [Users -> Nat], NEW u \in Users, NEW n \in Nat,
         NEW g \in [Users -> Nat], g[u] = f[u] + n, \A w \in Users : w # u => g[w] = f[w],
         IsFiniteSet(UnitsOf(f))
  PROVE  /\ IsFiniteSet(UnitsOf(g))
         /\ Cardinality(UnitsOf(g)) = Cardinality(UnitsOf(f)) + n
<1> DEFINE added == {u} \X ((f[u] + 1)..(f[u] + n))
<1>1. g[u] = f[u] + n /\ \A w \in Users : w # u => g[w] = f[w]
  OBVIOUS
<1>2. UnitsOf(g) = UnitsOf(f) \cup added
  <2>1. ASSUME NEW x \in UnitsOf(g) PROVE x \in UnitsOf(f) \cup added
    <3>1. PICK w \in Users : x \in {w} \X (1..g[w])
      BY DEF UnitsOf
    <3>2. CASE w # u
      BY <1>1, <3>1, <3>2 DEF UnitsOf
    <3>3. CASE w = u
      <4>1. x = <<u, x[2]>> /\ x[2] \in 1..(f[u] + n)
        BY <1>1, <3>1, <3>3
      <4>2. x[2] \in 1..f[u] \/ x[2] \in (f[u] + 1)..(f[u] + n)
        BY <4>1
      <4>3. x \in {u} \X (1..f[u]) \/ x \in added
        BY <4>1, <4>2
      <4> QED  BY <4>3 DEF UnitsOf
    <3> QED  BY <3>2, <3>3
  <2>2. ASSUME NEW x \in UnitsOf(f) PROVE x \in UnitsOf(g)
    <3>1. PICK w \in Users : x \in {w} \X (1..f[w])
      BY DEF UnitsOf
    <3>2. 1..f[w] \subseteq 1..g[w]
      BY <1>1
    <3> QED  BY <3>1, <3>2 DEF UnitsOf
  <2>3. ASSUME NEW x \in added PROVE x \in UnitsOf(g)
    <3>1. (f[u] + 1)..(f[u] + n) \subseteq 1..g[u]
      BY <1>1
    <3>2. x \in {u} \X (1..g[u])
      BY <3>1
    <3> QED  BY <3>2 DEF UnitsOf
  <2> QED  BY <2>1, <2>2, <2>3
<1>3. IsFiniteSet(added) /\ Cardinality(added) = n
  <2> DEFINE interval == (f[u] + 1)..(f[u] + n)
  <2>1. IsFiniteSet(interval) /\ Cardinality(interval) = n
    <3> DEFINE a == f[u] + 1
               b == f[u] + n
    <3>1. a \in Int /\ b \in Int /\ n = b - a + 1 /\ (a > b <=> n = 0)
      OBVIOUS
    <3> HIDE DEF a, b
    <3>2. IsFiniteSet(a..b) /\ Cardinality(a..b) = IF a > b THEN 0 ELSE b - a + 1
      BY <3>1, FS_Interval
    <3>3. IsFiniteSet(a..b) /\ Cardinality(a..b) = n
      BY <3>1, <3>2
    <3> QED  BY <3>3 DEF a, b
  <2>2. IsFiniteSet({u}) /\ Cardinality({u}) = 1
    BY FS_Singleton
  <2> HIDE DEF interval
  <2>3. IsFiniteSet({u} \X interval) /\ Cardinality({u} \X interval) = 1 * n
    BY <2>1, <2>2, FS_Product
  <2> QED  BY <2>3 DEF interval
<1>4. UnitsOf(f) \cap added = {}
  <2> SUFFICES ASSUME NEW x \in UnitsOf(f), x \in added PROVE FALSE
    OBVIOUS
  <2>1. PICK w \in Users : x \in {w} \X (1..f[w])
    BY DEF UnitsOf
  <2>2. w = u /\ x[2] \in 1..f[u] /\ x[2] \in (f[u] + 1)..(f[u] + n)
    BY <2>1
  <2> QED  BY <2>2
<1> HIDE DEF added
<1>5. /\ IsFiniteSet(UnitsOf(g))
      /\ Cardinality(UnitsOf(g)) = Cardinality(UnitsOf(f)) + Cardinality(added) - Cardinality({})
  BY <1>2, <1>3, <1>4, FS_Union
<1> QED  BY <1>3, <1>5, FS_EmptySet, FS_CardinalityType

\* ... and shrinks by what one user draws.
LEMMA UnitsDrawn ==
  ASSUME NEW f \in [Users -> Nat], NEW u \in Users, NEW n \in Nat,
         NEW g \in [Users -> Nat], f[u] = g[u] + n, \A w \in Users : w # u => g[w] = f[w],
         IsFiniteSet(UnitsOf(f))
  PROVE  /\ IsFiniteSet(UnitsOf(g))
         /\ Cardinality(UnitsOf(f)) = Cardinality(UnitsOf(g)) + n
<1>1. \A w \in Users : 1..g[w] \subseteq 1..f[w]
  OBVIOUS
<1>2. UnitsOf(g) \in SUBSET UnitsOf(f)
  BY <1>1 DEF UnitsOf
<1>3. IsFiniteSet(UnitsOf(g))
  BY <1>2, FS_Subset
<1> QED  BY <1>3, UnitsAdded

\* The recorded votes to start and to cancel, as pairs of a tournament and a bit.
Bits == 0..(MaxVerifiers - 1)
StartVotes == {r \in Ids \X Bits : r[2] \in BookOf(r[1]).start_votes}
CancelVotes == {r \in Ids \X Bits : r[2] \in BookOf(r[1]).cancel_votes}

LEMMA VotesBounded ==
  ASSUME PlatformInv
  PROVE  /\ IsFiniteSet(StartVotes) /\ Cardinality(StartVotes) \in Nat
         /\ IsFiniteSet(CancelVotes) /\ Cardinality(CancelVotes) \in Nat
         /\ Cardinality(Ids) \in Nat
         /\ Cardinality(StartVotes) <= Cardinality(Ids) * MaxVerifiers
         /\ Cardinality(CancelVotes) <= Cardinality(Ids) * MaxVerifiers
<1>1. IsFiniteSet(Ids) /\ Cardinality(Ids) \in Nat
  BY FiniteIds
<1>2. IsFiniteSet(Bits) /\ Cardinality(Bits) = MaxVerifiers
  <2>1. IsFiniteSet(Bits)
        /\ Cardinality(Bits) = IF 0 > MaxVerifiers - 1 THEN 0 ELSE MaxVerifiers - 1 - 0 + 1
    BY PlatformConstants, FS_Interval DEF Bits
  <2> QED  BY <2>1, PlatformConstants
<1>3. IsFiniteSet(Ids \X Bits) /\ Cardinality(Ids \X Bits) = Cardinality(Ids) * MaxVerifiers
  BY <1>1, <1>2, FS_Product
<1>4. StartVotes \in SUBSET (Ids \X Bits) /\ CancelVotes \in SUBSET (Ids \X Bits)
  BY DEF StartVotes, CancelVotes
<1> HIDE DEF Bits
<1> QED  BY <1>1, <1>3, <1>4, FS_Subset, FS_CardinalityType
\* Instructions other than creation and votes record nothing.
LEMMA SameBallotsSameVotes ==
  ASSUME SameBallots
  PROVE  StartVotes' = StartVotes /\ CancelVotes' = CancelVotes /\ CanceledIds' = CanceledIds
<1>1. ASSUME NEW r \in Ids \X Bits
      PROVE  /\ tournaments'[r[1]].book.start_votes = tournaments[r[1]].book.start_votes
             /\ tournaments'[r[1]].book.cancel_votes = tournaments[r[1]].book.cancel_votes
  BY DEF SameBallots
<1>2. StartVotes' = StartVotes /\ CancelVotes' = CancelVotes
  BY <1>1 DEF SameBallots, StartVotes, CancelVotes, BookOf, Bits
<1> QED  BY <1>2 DEF SameBallots, CanceledIds, BookOf

\* A new tournament has no votes and is not canceled.
LEMMA CreationRecordsNoVote ==
  ASSUME PlatformInv, NEW o \in Users, NEW terms \in Terms, CreateTournament(o, terms)
  PROVE  StartVotes' = StartVotes /\ CancelVotes' = CancelVotes /\ CanceledIds' = CanceledIds
<1> DEFINE new == [organizer |-> o, config |-> terms, book |-> NewBook,
                   precision |-> false_precision,
                   space |-> AccountSpace(Places(terms), false_precision)]
<1>1. /\ Ids' = Ids \cup {nonce} /\ nonce \notin Ids /\ tournaments'[nonce] = new
      /\ \A id \in Ids : tournaments'[id] = tournaments[id]
  BY CreateTyped
<1>2. new.book.start_votes = {} /\ new.book.cancel_votes = {} /\ new.book.status # "Canceled"
  BY DEF NewBook
<1> HIDE DEF new
<1>3. CanceledIds' = CanceledIds
  BY <1>1, <1>2 DEF CanceledIds, BookOf
<1>4. ASSUME NEW r \in Ids' \X Bits
      PROVE  \/ r \in Ids \X Bits /\ tournaments'[r[1]] = tournaments[r[1]]
             \/ /\ r \notin Ids \X Bits
                /\ tournaments'[r[1]].book.start_votes = {}
                /\ tournaments'[r[1]].book.cancel_votes = {}
  BY <1>1, <1>2
<1>5. Ids \X Bits \subseteq Ids' \X Bits /\ Bits' = Bits
  BY <1>1 DEF Bits
<1>6. StartVotes' = StartVotes
  BY <1>4, <1>5 DEF StartVotes, BookOf
<1>7. CancelVotes' = CancelVotes
  BY <1>4, <1>5 DEF CancelVotes, BookOf
<1> QED  BY <1>3, <1>6, <1>7

\* A vote is recorded under a bit that was clear.
LEMMA VoteRecorded ==
  ASSUME PlatformInv, NEW v \in Users, NEW id \in Ids
  PROVE  /\ StartTournament(v, id) =>
              /\ <<id, Bit(v)>> \notin StartVotes
              /\ StartVotes' = StartVotes \cup {<<id, Bit(v)>>} /\ CancelVotes' = CancelVotes
              /\ CanceledIds' = CanceledIds
         /\ CancelTournament(v, id) =>
              /\ <<id, Bit(v)>> \notin CancelVotes
              /\ CancelVotes' = CancelVotes \cup {<<id, Bit(v)>>} /\ StartVotes' = StartVotes
              /\ CanceledIds \subseteq CanceledIds'
              /\ Cancel(tournaments[id].book, v).status = "Canceled" => CanceledIds' # {}
<1> DEFINE b == tournaments[id].book
<1>1. RoleTypeOK /\ b \in Book
  BY TournamentTypes DEF PlatformInv, PlatformTypeOK
<1>2. ASSUME NEW after, tournaments' = [tournaments EXCEPT ![id].book = after]
      PROVE  /\ Ids' = Ids /\ tournaments'[id].book = after
             /\ \A d \in Ids : d # id => tournaments'[d] = tournaments[d]
  <2>1. /\ Ids' = Ids /\ tournaments'[id] = [tournaments[id] EXCEPT !.book = after]
        /\ \A d \in Ids : d # id => tournaments'[d] = tournaments[d]
    BY <1>2 DEF Ids
  <2> QED  BY <2>1
<1>3. MayVote(v, b.start_votes) \/ MayVote(v, b.cancel_votes) => Bit(v) \in Bits
  BY <1>1, BitType, PlatformConstants DEF Bits
<1>4. ASSUME StartTournament(v, id)
      PROVE  /\ <<id, Bit(v)>> \notin StartVotes
             /\ StartVotes' = StartVotes \cup {<<id, Bit(v)>>} /\ CancelVotes' = CancelVotes
             /\ CanceledIds' = CanceledIds
  <2> DEFINE after == Start(b, v)
  <2>1. CanStart(b, v) /\ tournaments' = [tournaments EXCEPT ![id].book = after]
    BY <1>4 DEF StartTournament
  <2>2. /\ after.start_votes = b.start_votes \cup {Bit(v)} /\ after.cancel_votes = b.cancel_votes
        /\ after.status # "Canceled" /\ b.status = "New"
    BY <1>1, <2>1 DEF Start, CanStart, Book
  <2>3. Bit(v) \in Bits /\ Bit(v) \notin b.start_votes
    BY <1>3, <2>1 DEF CanStart, MayVote
  <2> HIDE DEF after
  <2>4. /\ Ids' = Ids /\ tournaments'[id].book = after
        /\ \A d \in Ids : d # id => tournaments'[d] = tournaments[d]
    BY <1>2, <2>1
  <2>5. ASSUME NEW d \in Ids, NEW i \in Bits
        PROVE  /\ i \in tournaments'[d].book.start_votes
                    <=> i \in tournaments[d].book.start_votes \/ (d = id /\ i = Bit(v))
               /\ i \in tournaments'[d].book.cancel_votes <=> i \in tournaments[d].book.cancel_votes
    BY <2>2, <2>4
  <2>6. StartVotes' = StartVotes \cup {<<id, Bit(v)>>}
    BY <2>3, <2>4, <2>5 DEF StartVotes, BookOf, Bits
  <2>7. CancelVotes' = CancelVotes
    BY <2>4, <2>5 DEF CancelVotes, BookOf, Bits
  <2>8. <<id, Bit(v)>> \notin StartVotes
    BY <2>3 DEF StartVotes, BookOf
  <2>9. CanceledIds' = CanceledIds
    BY <2>2, <2>4 DEF CanceledIds, BookOf
  <2> QED  BY <2>6, <2>7, <2>8, <2>9
<1>5. ASSUME CancelTournament(v, id)
      PROVE  /\ <<id, Bit(v)>> \notin CancelVotes
             /\ CancelVotes' = CancelVotes \cup {<<id, Bit(v)>>} /\ StartVotes' = StartVotes
             /\ CanceledIds \subseteq CanceledIds'
             /\ Cancel(b, v).status = "Canceled" => CanceledIds' # {}
  <2> DEFINE after == Cancel(b, v)
  <2>1. CanCancel(b, v) /\ tournaments' = [tournaments EXCEPT ![id].book = after]
    BY <1>5 DEF CancelTournament
  <2>2. /\ after.cancel_votes = b.cancel_votes \cup {Bit(v)} /\ after.start_votes = b.start_votes
        /\ b.status = "New"
    BY <1>1, <2>1 DEF Cancel, CanCancel, Book
  <2>3. Bit(v) \in Bits /\ Bit(v) \notin b.cancel_votes
    BY <1>3, <2>1 DEF CanCancel, MayVote
  <2> HIDE DEF after
  <2>4. /\ Ids' = Ids /\ tournaments'[id].book = after
        /\ \A d \in Ids : d # id => tournaments'[d] = tournaments[d]
    BY <1>2, <2>1
  <2>5. ASSUME NEW d \in Ids, NEW i \in Bits
        PROVE  /\ i \in tournaments'[d].book.cancel_votes
                    <=> i \in tournaments[d].book.cancel_votes \/ (d = id /\ i = Bit(v))
               /\ i \in tournaments'[d].book.start_votes <=> i \in tournaments[d].book.start_votes
    BY <2>2, <2>4
  <2>6. CancelVotes' = CancelVotes \cup {<<id, Bit(v)>>}
    BY <2>3, <2>4, <2>5 DEF CancelVotes, BookOf, Bits
  <2>7. StartVotes' = StartVotes
    BY <2>4, <2>5 DEF StartVotes, BookOf, Bits
  <2>8. <<id, Bit(v)>> \notin CancelVotes
    BY <2>3 DEF CancelVotes, BookOf
  <2>9. CanceledIds \subseteq CanceledIds' /\ (after.status = "Canceled" => id \in CanceledIds')
    BY <2>2, <2>4 DEF CanceledIds, BookOf
  <2> QED  BY <2>6, <2>7, <2>8, <2>9 DEF after
<1> QED  BY <1>4, <1>5
-----------------------------------------------------------------------------
(***************************************************************************)
(* The books of the platform balance until a tournament is canceled.       *)
(***************************************************************************)
\* All claims, what was ever paid in or out, and what was ever earned.
Balanced ==
  /\ IsFiniteSet(UnitsOf(claim))
  /\ TotalClaims + PlatformFee * Cardinality(Ids)
       = platform + adminFunds + VerifierFee * (Cardinality(StartVotes) + Cardinality(CancelVotes))

\* Before the first refund organizers have nothing to claim, so that they pay for
\* what they create.
OrganizersPay == \A u \in Users : MayHold(u, "Organizer") => claim[u] = 0

EconomyInv ==
  PlatformInv /\ Appointed /\ (CanceledIds = {} => Balanced /\ OrganizersPay)

LEMMA BalanceTypes ==
  ASSUME PlatformInv, Balanced
  PROVE  /\ TotalClaims \in Nat /\ platform \in Nat /\ adminFunds \in Nat
         /\ Cardinality(Ids) \in Nat
         /\ Cardinality(StartVotes) \in Nat /\ Cardinality(CancelVotes) \in Nat
<1>1. TotalClaims \in Nat
  BY FS_CardinalityType DEF Balanced, TotalClaims
<1> QED  BY <1>1, VotesBounded DEF PlatformInv, PlatformTypeOK

\* The product with a number of fees, once more.
LEMMA OneMoreFee ==
  ASSUME NEW n \in Nat
  PROVE  /\ VerifierFee * (n + 1) = VerifierFee * n + VerifierFee /\ VerifierFee * n \in Nat
         /\ PlatformFee * (n + 1) = PlatformFee * n + PlatformFee /\ PlatformFee * n \in Nat
  BY PlatformConstants

\* A vote credits the verifier with one more fee, and nobody else.
LEMMA VoteBalances ==
  ASSUME PlatformInv, Balanced, OrganizersPay, Impartial, NEW v \in Users, MayHold(v, "Verifier"),
         claim' = [claim EXCEPT ![v] = @ + VerifierFee],
         platform' = platform, adminFunds' = adminFunds, Ids' = Ids,
         NEW x,
         \/ StartVotes' = StartVotes \cup {x} /\ x \notin StartVotes /\ CancelVotes' = CancelVotes
         \/ CancelVotes' = CancelVotes \cup {x} /\ x \notin CancelVotes /\ StartVotes' = StartVotes
  PROVE  Balanced' /\ OrganizersPay'
<1>1. claim \in [Users -> Nat] /\ VerifierFee \in Nat
  BY PlatformConstants DEF PlatformInv, PlatformTypeOK
<1>2. /\ claim' \in [Users -> Nat] /\ claim'[v] = claim[v] + VerifierFee
      /\ \A w \in Users : w # v => claim'[w] = claim[w]
  BY <1>1
<1>3. /\ IsFiniteSet(UnitsOf(claim'))
      /\ Cardinality(UnitsOf(claim')) = Cardinality(UnitsOf(claim)) + VerifierFee
  <2> DEFINE f == claim
             g == claim'
  <2>1. /\ f \in [Users -> Nat] /\ g \in [Users -> Nat] /\ g[v] = f[v] + VerifierFee
        /\ \A w \in Users : w # v => g[w] = f[w]
        /\ IsFiniteSet(UnitsOf(f))
    BY <1>1, <1>2 DEF Balanced
  <2> HIDE DEF f, g
  <2>2. IsFiniteSet(UnitsOf(g)) /\ Cardinality(UnitsOf(g)) = Cardinality(UnitsOf(f)) + VerifierFee
    BY <1>1, <2>1, UnitsAdded
  <2> QED  BY <2>2 DEF f, g
<1> DEFINE n == Cardinality(StartVotes) + Cardinality(CancelVotes)
           p == PlatformFee * Cardinality(Ids)
<1>4. n \in Nat /\ Cardinality(StartVotes') + Cardinality(CancelVotes') = n + 1
  <2>1. /\ IsFiniteSet(StartVotes) /\ IsFiniteSet(CancelVotes)
        /\ Cardinality(StartVotes) \in Nat /\ Cardinality(CancelVotes) \in Nat
    BY VotesBounded
  <2>2. CASE StartVotes' = StartVotes \cup {x} /\ x \notin StartVotes /\ CancelVotes' = CancelVotes
    <3>1. Cardinality(StartVotes') = Cardinality(StartVotes) + 1
      BY <2>1, <2>2, FS_AddElement
    <3> QED  BY <2>1, <2>2, <3>1
  <2>3. CASE CancelVotes' = CancelVotes \cup {x} /\ x \notin CancelVotes /\ StartVotes' = StartVotes
    <3>1. Cardinality(CancelVotes') = Cardinality(CancelVotes) + 1
      BY <2>1, <2>3, FS_AddElement
    <3> QED  BY <2>1, <2>3, <3>1
  <2> QED  BY <2>2, <2>3
<1>5. TotalClaims + p = platform + adminFunds + VerifierFee * n /\ TotalClaims = Cardinality(UnitsOf(claim))
  BY DEF Balanced, TotalClaims
<1>6. p \in Nat /\ p = PlatformFee * Cardinality(Ids')
  BY BalanceTypes, OneMoreFee
<1> HIDE DEF n, p
<1>7. VerifierFee * (n + 1) = VerifierFee * n + VerifierFee /\ VerifierFee * n \in Nat
  BY <1>4, OneMoreFee
<1> DEFINE y == VerifierFee * n
           c == Cardinality(UnitsOf(claim))
<1>8. c \in Nat /\ platform \in Nat /\ adminFunds \in Nat
  BY <1>5, BalanceTypes
<1>9. c + p = platform + adminFunds + y /\ y \in Nat /\ VerifierFee * (n + 1) = y + VerifierFee
      /\ Cardinality(UnitsOf(claim')) = c + VerifierFee
  BY <1>3, <1>5, <1>7
<1> HIDE DEF y, c
<1>10. Cardinality(UnitsOf(claim')) + p = platform' + adminFunds' + VerifierFee * (n + 1)
  <2>1. c + VerifierFee + p = platform + adminFunds + (y + VerifierFee)
    BY <1>1, <1>6, <1>8, <1>9
  <2> QED  BY <1>9, <2>1
<1>11. Balanced'
  BY <1>3, <1>4, <1>6, <1>10 DEF Balanced, TotalClaims
<1>12. OrganizersPay'
  BY <1>2 DEF OrganizersPay, Impartial, MayHold
<1> QED  BY <1>11, <1>12

\* An organizer pays for what it creates.
LEMMA CreationBalances ==
  ASSUME PlatformInv, Balanced, OrganizersPay, Appointed, NEW o \in Users, NEW terms \in Terms,
         CreateTournament(o, terms)
  PROVE  Balanced' /\ OrganizersPay'
<1>1. claim[o] = 0 /\ claim \in [Users -> Nat] /\ PlatformFee \in Nat
  BY PlatformConstants DEF OrganizersPay, Appointed, CreateTournament, PlatformInv, PlatformTypeOK, Role
<1>2. claim' = claim /\ platform' = platform + PlatformFee /\ adminFunds' = adminFunds
  <2>1. CASE UNCHANGED moneyVars /\ claim[o] >= PlatformFee
    <3>1. PlatformFee = 0 /\ platform \in Nat
      BY <1>1, <2>1 DEF PlatformInv, PlatformTypeOK
    <3> QED  BY <2>1, <3>1 DEF moneyVars
  <2>2. CASE platform' = platform + PlatformFee /\ UNCHANGED <<claim, adminFunds>>
    BY <2>2
  <2> QED  BY <2>1, <2>2 DEF CreateTournament, PayPlatformFee
<1>3. Cardinality(Ids') = Cardinality(Ids) + 1
  <2>1. IsFiniteSet(Ids)
    BY FiniteIds
  <2> QED  BY <2>1, CreateTyped, FS_AddElement
<1>4. StartVotes' = StartVotes /\ CancelVotes' = CancelVotes
  BY CreationRecordsNoVote
<1> DEFINE p == PlatformFee * Cardinality(Ids)
           y == VerifierFee * (Cardinality(StartVotes) + Cardinality(CancelVotes))
<1>5. /\ p \in Nat /\ PlatformFee * Cardinality(Ids') = p + PlatformFee /\ y \in Nat
      /\ TotalClaims + p = platform + adminFunds + y
  BY <1>3, BalanceTypes, OneMoreFee DEF Balanced
<1>6. TotalClaims' = TotalClaims /\ TotalClaims \in Nat /\ platform \in Nat /\ adminFunds \in Nat
  BY <1>2, BalanceTypes DEF TotalClaims
<1>7. y = VerifierFee * (Cardinality(StartVotes') + Cardinality(CancelVotes'))
  BY <1>4
<1> HIDE DEF p, y
<1>8. TotalClaims' + PlatformFee * Cardinality(Ids') = platform' + adminFunds' + y
  <2>1. TotalClaims + (p + PlatformFee) = platform + PlatformFee + adminFunds + y
    BY <1>1, <1>5, <1>6
  <2> QED  BY <1>2, <1>5, <1>6, <2>1
<1>9. Balanced'
  BY <1>2, <1>7, <1>8 DEF Balanced
<1> QED  BY <1>2, <1>9 DEF OrganizersPay, MayHold

\* What is drawn or withdrawn is missing on both sides.
LEMMA SettleBalances ==
  ASSUME PlatformInv, Balanced, OrganizersPay, Settle
  PROVE  Balanced' /\ OrganizersPay'
<1>1. /\ claim \in [Users -> Nat] /\ TotalClaims \in Nat /\ platform \in Nat /\ adminFunds \in Nat
  BY BalanceTypes DEF PlatformInv, PlatformTypeOK
<1> DEFINE p == PlatformFee * Cardinality(Ids)
           y == VerifierFee * (Cardinality(StartVotes) + Cardinality(CancelVotes))
<1>2. p \in Nat /\ y \in Nat /\ TotalClaims + p = platform + adminFunds + y
  BY BalanceTypes, OneMoreFee DEF Balanced
<1>3. p' = p /\ y' = y
  BY OthersKeepBallots, SameBallotsSameVotes DEF SameBallots
<1>4. (Balanced <=> IsFiniteSet(UnitsOf(claim)) /\ TotalClaims + p = platform + adminFunds + y)'
  BY DEF Balanced
<1> HIDE DEF p, y
<1>5. ASSUME NEW u \in Users, NEW amount \in 1..claim[u], ClaimRoleFund(u, amount)
      PROVE  Balanced' /\ OrganizersPay'
  <2>1. /\ platform >= amount /\ platform' = platform - amount /\ adminFunds' = adminFunds
        /\ claim' = [claim EXCEPT ![u] = @ - amount] /\ claim[u] >= amount
        /\ amount \in Nat /\ claim[u] \in Nat /\ amount > 0
    BY <1>1, <1>5 DEF ClaimRoleFund, PayClaim
  <2>2. /\ claim' \in [Users -> Nat] /\ claim[u] = claim'[u] + amount
        /\ \A w \in Users : w # u => claim'[w] = claim[w]
    <3>1. claim[u] - amount \in Nat
      BY <2>1
    <3> QED  BY <1>1, <2>1, <3>1
  <2>3. /\ IsFiniteSet(UnitsOf(claim'))
        /\ Cardinality(UnitsOf(claim)) = Cardinality(UnitsOf(claim')) + amount
    <3> DEFINE f == claim
               g == claim'
    <3>1. /\ f \in [Users -> Nat] /\ g \in [Users -> Nat] /\ f[u] = g[u] + amount
          /\ \A w \in Users : w # u => g[w] = f[w]
          /\ IsFiniteSet(UnitsOf(f)) /\ amount \in Nat
      BY <1>1, <2>1, <2>2 DEF Balanced
    <3> HIDE DEF f, g
    <3>2. IsFiniteSet(UnitsOf(g)) /\ Cardinality(UnitsOf(f)) = Cardinality(UnitsOf(g)) + amount
      BY <3>1, UnitsDrawn
    <3> QED  BY <3>2 DEF f, g
  <2>4. TotalClaims = TotalClaims' + amount /\ TotalClaims' \in Nat
    BY <2>3, FS_CardinalityType DEF TotalClaims
  <2>5. TotalClaims' + p = platform' + adminFunds' + y
    <3> DEFINE c == TotalClaims
               d == TotalClaims'
    <3>1. /\ c \in Nat /\ d \in Nat /\ p \in Nat /\ y \in Nat /\ amount \in Nat
          /\ platform \in Nat /\ adminFunds \in Nat
          /\ c + p = platform + adminFunds + y /\ c = d + amount
      BY <1>1, <1>2, <2>1, <2>4
    <3> HIDE DEF c, d
    <3>2. d + p = platform - amount + adminFunds + y
      BY <3>1
    <3> QED  BY <2>1, <3>2 DEF d
  <2>6. Balanced'
    BY <1>3, <1>4, <2>3, <2>5
  <2>7. OrganizersPay'
    BY <1>1, <2>1, <2>2 DEF OrganizersPay, MayHold
  <2> QED  BY <2>6, <2>7
<1>6. ASSUME NEW amount \in Amounts, Withdraw(amount) PROVE Balanced' /\ OrganizersPay'
  <2>1. /\ amount \in Nat /\ platform >= amount /\ platform' = platform - amount
        /\ adminFunds' = adminFunds + amount /\ claim' = claim
    BY <1>6, PlatformAssumption DEF Withdraw
  <2>2. TotalClaims' + p = platform' + adminFunds' + y
    <3>1. TotalClaims' = TotalClaims
      BY <2>1 DEF TotalClaims
    <3> QED  BY <1>1, <1>2, <2>1, <3>1
  <2>3. Balanced'
    BY <1>3, <1>4, <2>1, <2>2 DEF Balanced
  <2> QED  BY <2>1, <2>3 DEF OrganizersPay, MayHold
<1> QED  BY <1>5, <1>6 DEF Settle
\* Instructions that leave claims, tournaments and votes alone.
LEMMA OthersBalance ==
  ASSUME PlatformInv, Balanced, OrganizersPay,
         \/ Administer \/ Configure \/ UNCHANGED vars
         \/ \E id \in Ids : RegisterTournament(id)
  PROVE  Balanced' /\ OrganizersPay'
<1>1. UNCHANGED moneyVars
  BY DEF Administer, Configure, BanToken, ApproveToken, SetBloomPrecision, RegisterTournament, vars
<1>2. StartVotes' = StartVotes /\ CancelVotes' = CancelVotes /\ Ids' = Ids
  BY OthersKeepBallots, SameBallotsSameVotes DEF SameBallots
<1> QED  BY <1>1, <1>2 DEF Balanced, OrganizersPay, MayHold, TotalClaims, moneyVars

LEMMA StepEconomyInv ==
  ASSUME Impartial PROVE EconomyInv /\ [Next]_vars => EconomyInv'
<1> SUFFICES ASSUME EconomyInv, [Next]_vars PROVE EconomyInv'
  OBVIOUS
<1>1. PlatformInv /\ Appointed /\ PlatformInv' /\ Appointed'
  BY StepPlatformInv, StepAppointed DEF EconomyInv
<1>2. SUFFICES ASSUME CanceledIds' = {} PROVE Balanced' /\ OrganizersPay'
  BY <1>1 DEF EconomyInv
<1>3. ASSUME NEW id \in Ids, NEW v \in Users, StartTournament(v, id)
      PROVE  Balanced' /\ OrganizersPay'
  <2>1. Balanced /\ OrganizersPay
    BY <1>1, <1>2, <1>3, VoteRecorded DEF EconomyInv
  <2>2. MayHold(v, "Verifier")
    BY <1>1, <1>3 DEF StartTournament, CanStart, MayVote, Appointed, Role
  <2>3. /\ claim' = [claim EXCEPT ![v] = @ + VerifierFee]
        /\ platform' = platform /\ adminFunds' = adminFunds /\ Ids' = Ids
    BY <1>1, <1>3, VoteTyped DEF StartTournament
  <2>4. /\ <<id, Bit(v)>> \notin StartVotes
        /\ StartVotes' = StartVotes \cup {<<id, Bit(v)>>} /\ CancelVotes' = CancelVotes
    BY <1>1, <1>3, VoteRecorded
  <2> QED  BY <1>1, <2>1, <2>2, <2>3, <2>4, VoteBalances
<1>4. ASSUME NEW id \in Ids, NEW v \in Users, CancelTournament(v, id)
      PROVE  Balanced' /\ OrganizersPay'
  <2>1. /\ <<id, Bit(v)>> \notin CancelVotes
        /\ CancelVotes' = CancelVotes \cup {<<id, Bit(v)>>} /\ StartVotes' = StartVotes
        /\ CanceledIds = {} /\ Cancel(tournaments[id].book, v).status # "Canceled"
    BY <1>1, <1>2, <1>4, VoteRecorded
  <2>2. Balanced /\ OrganizersPay
    BY <2>1 DEF EconomyInv
  <2>3. MayHold(v, "Verifier")
    BY <1>1, <1>4 DEF CancelTournament, CanCancel, MayVote, Appointed, Role
  <2>4. PICK o \in Users : o = tournaments[id].organizer
    BY <1>1, TournamentTypes
  <2>5. o # v /\ claim[o] \in Nat
    BY <1>1, <2>3, <2>4 DEF Appointed, Impartial, PlatformInv, PlatformTypeOK
  <2>6. claim' = [claim EXCEPT ![v] = @ + VerifierFee]
    <3>1. claim' = [claim EXCEPT ![v] = @ + VerifierFee, ![o] = claim[o] + 0]
      BY <1>4, <2>1, <2>4 DEF CancelTournament
    <3>2. claim[o] + 0 = claim[o]
      BY <2>5
    <3>3. claim' = [claim EXCEPT ![v] = @ + VerifierFee, ![o] = claim[o]]
      BY <3>1, <3>2
    <3> QED  BY <1>1, <2>5, <3>3 DEF PlatformInv, PlatformTypeOK
  <2>7. platform' = platform /\ adminFunds' = adminFunds /\ Ids' = Ids
    BY <1>1, <1>4, VoteTyped DEF CancelTournament
  <2> QED  BY <1>1, <2>1, <2>2, <2>3, <2>6, <2>7, VoteBalances
<1>5. ASSUME NEW o \in Users, NEW terms \in Terms, CreateTournament(o, terms)
      PROVE  Balanced' /\ OrganizersPay'
  BY <1>1, <1>2, <1>5, CreationRecordsNoVote, CreationBalances DEF EconomyInv
<1>6. CASE Settle
  BY <1>1, <1>2, <1>6, OthersKeepBallots, SameBallotsSameVotes, SettleBalances DEF EconomyInv
<1>7. CASE \/ Administer \/ Configure \/ UNCHANGED vars
           \/ \E id \in Ids : RegisterTournament(id)
  BY <1>1, <1>2, <1>7, OthersKeepBallots, SameBallotsSameVotes, OthersBalance DEF EconomyInv
<1> QED  BY <1>3, <1>4, <1>5, <1>6, <1>7 DEF Next, Operate, Ids

LEMMA InitEconomyInv == Init => EconomyInv
<1> SUFFICES ASSUME Init PROVE EconomyInv
  OBVIOUS
<1>1. PlatformInv /\ Ids = {} /\ Appointed /\ \A u \in Users : claim[u] = 0
  BY InitWorthInv DEF Init, Ids, WorthInv
<1>2. UnitsOf(claim) = {} /\ StartVotes = {} /\ CancelVotes = {}
  <2>1. \A u \in Users : 1..claim[u] = {}
    BY <1>1
  <2> QED  BY <1>1, <2>1 DEF UnitsOf, StartVotes, CancelVotes
<1>3. 0 + PlatformFee * 0 = 0 + 0 + VerifierFee * (0 + 0)
  BY PlatformConstants
<1>4. Balanced
  BY <1>1, <1>2, <1>3, FS_EmptySet DEF Init, Balanced, TotalClaims
<1> QED  BY <1>1, <1>4 DEF EconomyInv, OrganizersPay

\* What a creation brings pays every verifier for both questions.
FeesSuffice == PlatformFee >= 2 * MaxVerifiers * VerifierFee

LEMMA BalancedIsCovered == ASSUME FeesSuffice, PlatformInv, Balanced
                           PROVE  TotalClaims <= platform + adminFunds
<1> DEFINE ids == Cardinality(Ids)
           n == Cardinality(StartVotes) + Cardinality(CancelVotes)
<1>1. /\ ids \in Nat /\ n \in Nat /\ TotalClaims \in Nat /\ platform \in Nat /\ adminFunds \in Nat
      /\ TotalClaims + PlatformFee * ids = platform + adminFunds + VerifierFee * n
  BY BalanceTypes DEF Balanced
<1>2. n <= 2 * (ids * MaxVerifiers)
  <2>1. ids * MaxVerifiers \in Nat
    BY <1>1, PlatformConstants
  <2> QED  BY <1>1, <2>1, VotesBounded
<1> HIDE DEF ids, n
<1>3. /\ ids \in Nat /\ MaxVerifiers \in Nat /\ VerifierFee \in Nat /\ PlatformFee \in Nat
  BY <1>1, PlatformConstants
<1> DEFINE all == 2 * (ids * MaxVerifiers)
           each == 2 * MaxVerifiers * VerifierFee
<1>4. all \in Nat /\ each \in Nat /\ VerifierFee * all = each * ids
  BY <1>3
<1>5. each <= PlatformFee /\ n <= all
  BY <1>2 DEF FeesSuffice
<1> HIDE DEF all, each
<1>6. VerifierFee * n <= VerifierFee * all /\ each * ids <= PlatformFee * ids
  BY <1>1, <1>3, <1>4, <1>5
<1> DEFINE x == VerifierFee * n
           y == PlatformFee * ids
<1>7. x \in Int /\ y \in Int /\ x <= y /\ TotalClaims + y = platform + adminFunds + x
  <2>1. each * ids \in Int /\ VerifierFee * n \in Int /\ PlatformFee * ids \in Int
    BY <1>1, <1>3, <1>4
  <2> QED  BY <1>1, <1>4, <1>6, <2>1
<1> HIDE DEF x, y
<1> QED  BY <1>1, <1>7

\* Whatever the numbers of users, tournaments and votes, and however often claims
\* are drawn and money is withdrawn: while a creation brings what its votes can
\* cost, nobody votes on what it organizes, and nothing is canceled, the platform has
\* taken in the money for all claims.
THEOREM ClaimsAreCovered ==
  ASSUME FeesSuffice, Impartial PROVE Spec => []FeesCoverClaims
<1>1. EconomyInv => FeesCoverClaims
  BY BalancedIsCovered DEF EconomyInv, FeesCoverClaims
<1> QED  BY <1>1, InitEconomyInv, StepEconomyInv, PTL DEF Spec
=============================================================================
