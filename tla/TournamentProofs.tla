-------------------------- MODULE TournamentProofs --------------------------
(***************************************************************************)
(* Proofs about a tournament, for every value of the constants that        *)
(* ConfigAssumption allows.                                                *)
(***************************************************************************)
EXTENDS TournamentProperties, RoleRegistryProofs, TeamsProofs

\* The prize is divided by the team size only when a team has been completed.
Divisible ==
  /\ team_count # 0 => TeamSize > 0
  /\ status = "Started" => team_count # 0

\* TypeOK is not inductive by itself: a vote needs the registry to be consistent,
\* and the division of the prize needs a team size that is not zero.
TypeInv == TypeOK /\ ListsMatchRoles /\ Divisible

LEMMA Constants ==
  /\ MaxTeams \in Nat /\ EntryFee \in Nat /\ SponsorPool \in Nat /\ OrganizerFee \in Nat
  /\ ConsensusRate \in Nat /\ VerifierFee \in Nat /\ PlatformFee \in Nat
  /\ PlayerFunds \in Nat /\ SponsorCalls \in Nat /\ MaxVerifiers \in Nat /\ TeamSize \in Nat
  BY ConfigAssumption, ConsensusRateAssumption, MaxVerifiersAssumption, TeamSizeAssumption

LEMMA NatProduct == ASSUME NEW a \in Nat, NEW b \in Nat PROVE a * b \in Nat
  OBVIOUS

LEMMA InitTypeInv == Init => TypeInv
<1> SUFFICES ASSUME Init PROVE TypeInv
  OBVIOUS
<1> USE Constants DEF Init
<1>1. RoleTypeOK /\ ListsMatchRoles
  <2>1. InitVerifiers \in Seq(Users) /\ Organizer \in Users /\ IsInjective(InitVerifiers)
    BY ConfigAssumption
  <2>2. <<Organizer>> \in Seq(Users) /\ Len(<<Organizer>>) = 1
    BY <2>1, OneElement
  <2>3. roleList \in [Role -> Seq(Users)]
    BY <2>1, <2>2 DEF Role
  <2>4. roles \in [Users -> SUBSET Role]
    OBVIOUS
  <2>5. roleList["Verifier"] = InitVerifiers /\ roleList["Organizer"] = <<Organizer>>
        /\ roleList["Operator"] = <<>>
    BY DEF Role
  <2>6. Len(roleList["Verifier"]) <= MaxVerifiers
    BY <2>5, ConfigAssumption
  <2>7. ASSUME NEW u \in Users
        PROVE  /\ "Verifier" \in roles[u] <=> Contains(InitVerifiers, u)
               /\ "Organizer" \in roles[u] <=> u = Organizer
               /\ "Operator" \notin roles[u]
    BY DEF Role
  <2>8. ToSet(InitVerifiers) = {u \in Users : Contains(InitVerifiers, u)}
    BY <2>1, MembersOfList
  <2>9. ToSet(<<Organizer>>) = {Organizer} /\ IsInjective(<<Organizer>>)
    BY DEF ToSet, IsInjective
  <2>10. ToSet(<<>>) = {} /\ IsInjective(<<>>)
    BY DEF ToSet, IsInjective
  <2>11. ASSUME NEW r \in Role
         PROVE  ToSet(roleList[r]) = {u \in Users : r \in roles[u]} /\ IsInjective(roleList[r])
    <3>1. CASE r = "Verifier"
      BY <3>1, <2>1, <2>5, <2>7, <2>8
    <3>2. CASE r = "Organizer"
      BY <3>2, <2>1, <2>5, <2>7, <2>9
    <3>3. CASE r = "Operator"
      BY <3>3, <2>5, <2>7, <2>10
    <3> QED  BY <3>1, <3>2, <3>3 DEF Role
  <2> HIDE DEF Init
  <2> QED  BY <2>3, <2>4, <2>6, <2>11 DEF RoleTypeOK, ListsMatchRoles
<1>2. teams \in [Players -> Team] /\ \A c \in Players : Len(teams[c].participants) <= teams[c].team_size
  BY NoTeamSound DEF SoundTeam
<1>3. {start_votes, cancel_votes, finish_votes} \subseteq VoteMask
  BY DEF VoteMask
<1>4. ballots \in Seq(Players) /\ Len(ballots) <= Len(InitVerifiers)
  BY ConfigAssumption
<1> QED
  BY <1>1, <1>2, <1>3, <1>4 DEF TypeInv, TypeOK, Divisible, Status
-----------------------------------------------------------------------------
(***************************************************************************)
(* Registration keeps the types.                                           *)
(***************************************************************************)
LEMMA EnterTypeInv ==
  ASSUME TypeInv, NEW signer \in Players, NEW keys \in Seq(Players), NEW seats \in Nat,
         NEW c \in Players, NEW team, SoundTeam(team), TeamSize > 0,
         Enter(signer, keys, seats, c, team)
  PROVE  TypeInv'
<1> USE Constants
<1>1. seats * EntryFee \in Nat
  BY NatProduct
<1> DEFINE paid == seats * EntryFee
<1> HIDE DEF paid
<1>2. wallet' \in [Players -> Nat] /\ pool' \in Nat
  <2>1. /\ wallet[signer] >= paid /\ paid \in Nat
        /\ wallet' = [wallet EXCEPT ![signer] = @ - paid]
        /\ pool' = pool + paid
    BY <1>1 DEF Enter, paid
  <2>2. wallet \in [Players -> Nat] /\ pool \in Nat
    BY DEF TypeInv, TypeOK
  <2>3. wallet[signer] - paid \in Nat
    BY <2>1, <2>2
  <2> QED  BY <2>1, <2>2, <2>3
<1>3. teams' \in [Players -> Team] /\ \A d \in Players : Len(teams'[d].participants) <= teams'[d].team_size
  BY DEF TypeInv, TypeOK, Enter, SoundTeam
<1>4. bloom' \subseteq Players
  <2> ToSet(keys) \subseteq Players
    BY DEF ToSet
  <2> QED  BY DEF TypeInv, TypeOK, Enter
<1>5. team_count' \in Nat
  BY DEF TypeInv, TypeOK, Enter
<1>6. Divisible'
  BY DEF TypeInv, Divisible, Enter, Open
<1>7. RoleTypeOK' /\ ListsMatchRoles'
  BY RoleStutterInv DEF RoleInv, TypeInv, TypeOK, Enter, roleVars
<1>8. /\ claim' = claim /\ status' = status /\ sponsorPaid' = sponsorPaid
      /\ organizerPaid' = organizerPaid /\ UNCHANGED startVars /\ UNCHANGED finishVars
  BY DEF Enter
<1> QED
  BY <1>2, <1>3, <1>4, <1>5, <1>6, <1>7, <1>8
  DEF TypeInv, TypeOK, VoteMask, startVars, finishVars

\* Whoever signs a registration is a player.
LEMMA SignedRegistration ==
  ASSUME Register
  PROVE  \E signer, p \in Players, teammates \in MateLists :
           \/ RegisterCaptain(signer, p, teammates)
           \/ \E c \in Players : RegisterParticipant(signer, p, c, teammates)
<1>1. PICK p \in Players, teammates \in MateLists :
        \E signer \in Proxies \cup {p} :
          \/ RegisterCaptain(signer, p, teammates)
          \/ \E c \in Players : RegisterParticipant(signer, p, c, teammates)
  BY DEF Register
<1>2. Proxies \cup {p} \subseteq Players
  BY ConfigAssumption
<1> QED  BY <1>1, <1>2

\* It leaves the votes, the claims and the status New alone.
LEMMA RegisterKeeps ==
  ASSUME Register
  PROVE  status = "New" /\ UNCHANGED <<roleVars, claim, status, sponsorPaid, organizerPaid,
                                       startVars, finishVars>>
<1>1. PICK signer \in Players, p \in Players, teammates \in MateLists :
        \/ RegisterCaptain(signer, p, teammates)
        \/ \E c \in Players : RegisterParticipant(signer, p, c, teammates)
  BY SignedRegistration
<1>2. CASE RegisterCaptain(signer, p, teammates)
  BY <1>2 DEF RegisterCaptain, Enter, Open
<1>3. CASE \E c \in Players : RegisterParticipant(signer, p, c, teammates)
  BY <1>3 DEF RegisterParticipant, Enter, Open
<1> QED  BY <1>1, <1>2, <1>3

LEMMA RegisterTypeInv == ASSUME TypeInv, Register PROVE TypeInv'
<1> USE Constants
<1>1. PICK signer \in Players, p \in Players, teammates \in MateLists :
        \/ RegisterCaptain(signer, p, teammates)
        \/ \E c \in Players : RegisterParticipant(signer, p, c, teammates)
  BY SignedRegistration
<1> DEFINE all == <<p>> \o teammates
<1>2. all \in Seq(Players) /\ Len(all) = 1 + Len(teammates) /\ Len(teammates) \in Nat
  <2>1. <<p>> \in Seq(Players) /\ Len(<<p>>) = 1
    BY OneElement
  <2>2. teammates \in Seq(Players)
    BY ConfigAssumption
  <2> QED  BY <2>1, <2>2, ConcatProperties
<1> HIDE DEF all
<1>3. CASE RegisterCaptain(signer, p, teammates)
  <2>1. /\ CanAddParticipantsByCaptain(NewTeam, all)
        /\ Enter(signer, all, Len(all), p, AddParticipantsByCaptain(NewTeam, all))
    BY <1>3 DEF RegisterCaptain, all
  <2>2. SoundTeam(AddParticipantsByCaptain(NewTeam, all))
    BY <1>2, <2>1, CaptainTeamSound
  <2>3. TeamSize > 0
    BY <1>2, <2>1 DEF CanAddParticipantsByCaptain, NewTeam
  <2> QED  BY <1>2, <2>1, <2>2, <2>3, EnterTypeInv
<1>4. CASE \E c \in Players : RegisterParticipant(signer, p, c, teammates)
  <2>1. PICK c \in Players : RegisterParticipant(signer, p, c, teammates)
    BY <1>4
  <2>2. /\ CanAddParticipant(teams[c])
        /\ Enter(signer, all, 1, c, AddParticipant(teams[c], p))
    BY <2>1 DEF RegisterParticipant, all
  <2>3. SoundTeam(teams[c])
    BY DEF TypeInv, TypeOK, SoundTeam
  <2>4. SoundTeam(AddParticipant(teams[c], p)) /\ TeamSize > 0
    BY <2>2, <2>3, JoinedTeamSound
  <2> QED  BY <1>2, <2>2, <2>4, EnterTypeInv
<1> QED  BY <1>1, <1>3, <1>4
-----------------------------------------------------------------------------
(***************************************************************************)
(* Votes keep the types.                                                   *)
(***************************************************************************)
\* A verifier that may vote has a bit of the u64 mask.
LEMMA BitInMask ==
  ASSUME RoleTypeOK, NEW v, NEW votes, MayVote(v, votes)
  PROVE  Bit(v) \in 0..(MaxVerifiers - 1)
<1>1. verifierList \in Seq(Users) /\ Len(verifierList) <= MaxVerifiers
  BY DEF RoleTypeOK, verifierList, Role
<1>2. Position(verifierList, v) \in 1..Len(verifierList)
  BY <1>1, PositionIsFirst DEF MayVote
<1> QED  BY <1>1, <1>2, MaxVerifiersAssumption DEF Bit

LEMMA StartTypeInv ==
  ASSUME TypeInv, NEW v \in Users, StartTournament(v) PROVE TypeInv'
<1> USE Constants
<1>1. start_votes' \in VoteMask
  BY BitInMask DEF StartTournament, TypeInv, TypeOK, VoteMask
<1>2. claim' \in [Users -> Nat]
  BY DEF StartTournament, TypeInv, TypeOK
<1>3. status' \in Status /\ Divisible'
  BY DEF StartTournament, TypeInv, TypeOK, Divisible, Status, entryVars
<1>4. RoleTypeOK' /\ ListsMatchRoles'
  BY RoleStutterInv DEF RoleInv, TypeInv, TypeOK, StartTournament, roleVars
<1>5. UNCHANGED <<entryVars, escrowVars, cancel_votes, finishVars>>
  BY DEF StartTournament
<1> QED
  BY <1>1, <1>2, <1>3, <1>4, <1>5
  DEF TypeInv, TypeOK, VoteMask, entryVars, escrowVars, finishVars

LEMMA CancelTypeInv ==
  ASSUME TypeInv, NEW v \in Users, CancelTournament(v) PROVE TypeInv'
<1> USE Constants
<1>1. cancel_votes' \in VoteMask
  BY BitInMask DEF CancelTournament, TypeInv, TypeOK, VoteMask
<1>2. claim' \in [Users -> Nat]
  <2>1. Organizer \in Users
    BY ConfigAssumption
  <2> DEFINE organizerClaim ==
        claim[Organizer] + IF Quorum(cancel_votes') THEN PlatformFee ELSE 0
  <2>2. claim' = [claim EXCEPT ![v] = @ + VerifierFee, ![Organizer] = organizerClaim]
    BY DEF CancelTournament
  <2>3. claim \in [Users -> Nat]
    BY DEF TypeInv, TypeOK
  <2>4. organizerClaim \in Nat
    BY <2>1, <2>3
  <2> HIDE DEF organizerClaim
  <2> QED  BY <2>1, <2>2, <2>3, <2>4
<1>3. status' \in Status /\ Divisible'
  BY DEF CancelTournament, Open, TypeInv, TypeOK, Divisible, Status, entryVars
<1>4. RoleTypeOK' /\ ListsMatchRoles'
  BY RoleStutterInv DEF RoleInv, TypeInv, TypeOK, CancelTournament, roleVars
<1>5. UNCHANGED <<entryVars, escrowVars, start_votes, finishVars>>
  BY DEF CancelTournament
<1> QED
  BY <1>1, <1>2, <1>3, <1>4, <1>5
  DEF TypeInv, TypeOK, VoteMask, entryVars, escrowVars, finishVars

\* The cut is paid to a player or to somebody else; all balances stay whole.
LEMMA PayCutType ==
  ASSUME TypeInv, NEW organizer, NEW cut \in Nat, PayCut(organizer, cut)
  PROVE  /\ pool' \in Nat /\ wallet' \in [Players -> Nat] /\ organizerPaid' \in Nat
         /\ sponsorPaid' = sponsorPaid
<1>1. pool \in Nat /\ wallet \in [Players -> Nat] /\ organizerPaid \in Nat
  BY DEF TypeInv, TypeOK
<1>2. CASE organizer \in Players
  BY <1>1, <1>2 DEF PayCut
<1>3. CASE organizer \notin Players
  BY <1>1, <1>3 DEF PayCut
<1> QED  BY <1>2, <1>3

\* The organizer's cut leaves a share for the winners, and it is a whole one.
LEMMA RewardType ==
  ASSUME TypeInv, status = "Started", NEW cut \in OrganizerRewards
  PROVE  cut \in Nat /\ cut <= RewardPool /\ (RewardPool - cut) \div TeamSize \in Nat
<1> USE Constants
<1>1. team_count \in Nat /\ team_count # 0 /\ TeamSize > 0
  BY DEF TypeInv, TypeOK, Divisible
<1>2. RewardPool \in Nat
  BY <1>1, NatProduct DEF RewardPool
<1>3. cut \in 0..RewardPool
  BY DEF OrganizerRewards
<1> DEFINE rest == RewardPool - cut
<1>4. rest \in Nat
  BY <1>2, <1>3
<1> HIDE DEF rest
<1>5. rest \div TeamSize \in Nat
  BY <1>1, <1>4
<1> QED  BY <1>2, <1>3, <1>5 DEF rest

LEMMA FinishTypeInv ==
  ASSUME TypeInv, NEW v \in Users, NEW w \in Players, NEW organizer,
         FinishTournament(v, w, organizer)
  PROVE  TypeInv'
<1> USE Constants
<1>1. finish_votes' \in VoteMask
  BY BitInMask DEF FinishTournament, TypeInv, TypeOK, VoteMask
<1>2. ballots' \in Seq(Players) /\ Len(ballots') <= Len(InitVerifiers)
  <2>1. ballots \in Seq(Players) /\ ballots' = Append(ballots, w) /\ BallotsFit(ballots')
    BY DEF FinishTournament, TypeInv, TypeOK
  <2> QED  BY <2>1, AppendProperties DEF BallotsFit
<1>3. RoleTypeOK' /\ ListsMatchRoles'
  BY RoleStutterInv DEF RoleInv, TypeInv, TypeOK, FinishTournament, roleVars
<1>4. UNCHANGED <<claim, entryVars, startVars>>
  BY DEF FinishTournament
<1>5. /\ status' \in Status /\ Divisible'
      /\ captain_winner' \in Players \cup {DefaultKey}
      /\ reward' \in Nat /\ pool' \in Nat /\ wallet' \in [Players -> Nat]
      /\ organizerPaid' \in Nat /\ sponsorPaid' \in Nat
  <2>1. CASE ~Quorum(finish_votes')
    <3>1. UNCHANGED <<status, captain_winner, reward, pool, wallet, organizerPaid, sponsorPaid>>
      BY <2>1 DEF FinishTournament, escrowVars
    <3> QED  BY <3>1, <1>4 DEF TypeInv, TypeOK, Divisible, entryVars
  <2>2. CASE Quorum(finish_votes')
    <3>1. /\ status = "Started" /\ status' = "Finished"
          /\ captain_winner' \in MostVoted(ballots')
      BY <2>2 DEF FinishTournament
    <3>2. PICK cut \in OrganizerRewards :
            /\ reward' = (RewardPool - cut) \div TeamSize
            /\ PayCut(organizer, cut)
      BY <2>2 DEF FinishTournament
    <3>3. cut \in Nat /\ (RewardPool - cut) \div TeamSize \in Nat
      BY <3>1, RewardType
    <3>4. /\ pool' \in Nat /\ wallet' \in [Players -> Nat] /\ organizerPaid' \in Nat
          /\ sponsorPaid' \in Nat /\ reward' \in Nat
      BY <3>2, <3>3, PayCutType DEF TypeInv, TypeOK
    <3>5. captain_winner' \in Players
      BY <3>1, <1>2 DEF MostVoted, ToSet
    <3>6. Divisible'
      BY <3>1, <1>4 DEF TypeInv, Divisible, entryVars
    <3> QED  BY <3>1, <3>4, <3>5, <3>6 DEF Status
  <2> QED  BY <2>1, <2>2
<1> QED
  BY <1>1, <1>2, <1>3, <1>4, <1>5
  DEF TypeInv, TypeOK, VoteMask, entryVars, startVars

LEMMA VoteTypeInv == ASSUME TypeInv, Vote PROVE TypeInv'
  BY StartTypeInv, CancelTypeInv, FinishTypeInv DEF Vote
-----------------------------------------------------------------------------
(***************************************************************************)
(* Payouts and the admin keep the types.                                   *)
(***************************************************************************)
LEMMA PaySeatTypeInv ==
  ASSUME TypeInv, NEW p \in Players, NEW c \in Players, NEW amount \in Nat,
         PaySeat(p, c, amount)
  PROVE  TypeInv'
<1>1. SoundTeam(Settle(teams[c], p))
  BY SettleSound DEF TypeInv, TypeOK, SoundTeam
<1>2. teams' \in [Players -> Team] /\ \A d \in Players : Len(teams'[d].participants) <= teams'[d].team_size
  BY <1>1 DEF TypeInv, TypeOK, PaySeat, SoundTeam
<1>3. pool' \in Nat /\ wallet' \in [Players -> Nat]
  BY DEF TypeInv, TypeOK, PaySeat
<1>4. RoleTypeOK' /\ ListsMatchRoles'
  BY RoleStutterInv DEF RoleInv, TypeInv, TypeOK, PaySeat, roleVars
<1>5. UNCHANGED <<claim, status, team_count, bloom, sponsorPaid, organizerPaid, startVars, finishVars>>
  BY DEF PaySeat
<1> QED
  BY <1>2, <1>3, <1>4, <1>5
  DEF TypeInv, TypeOK, Divisible, VoteMask, startVars, finishVars

LEMMA PayoutTypeInv == ASSUME TypeInv, Payout PROVE TypeInv'
<1> USE Constants
<1>1. ASSUME NEW p \in Players, NEW c \in Players, ClaimRefund(p, c) PROVE TypeInv'
  <2>1. SoundTeam(teams[c])
    BY DEF TypeInv, TypeOK, SoundTeam
  <2> DEFINE count == RefundCount(c, teams[c], p)
             amount == EntryFee * count
  <2>2. count \in Nat
    BY <2>1, RefundCountType
  <2> HIDE DEF count
  <2>3. amount \in Nat
    BY <2>2, NatProduct
  <2>4. PaySeat(p, c, amount)
    BY <1>1 DEF ClaimRefund, count
  <2> HIDE DEF amount
  <2> QED  BY <2>3, <2>4, PaySeatTypeInv
<1>2. ASSUME NEW p \in Players, NEW c \in Players, ClaimReward(p, c) PROVE TypeInv'
  BY <1>2, PaySeatTypeInv DEF ClaimReward, TypeInv, TypeOK
<1>3. CASE ClaimSponsorRefund
  <2>1. pool' \in Nat /\ sponsorPaid' \in Nat
    BY <1>3 DEF ClaimSponsorRefund, TypeInv, TypeOK
  <2>2. RoleTypeOK' /\ ListsMatchRoles'
    BY <1>3, RoleStutterInv DEF RoleInv, TypeInv, TypeOK, ClaimSponsorRefund, roleVars
  <2>3. UNCHANGED <<claim, status, entryVars, wallet, organizerPaid, startVars, finishVars>>
    BY <1>3 DEF ClaimSponsorRefund
  <2> QED
    BY <2>1, <2>2, <2>3
    DEF TypeInv, TypeOK, Divisible, VoteMask, entryVars, startVars, finishVars
<1> QED  BY <1>1, <1>2, <1>3 DEF Payout

LEMMA AdministerTypeInv == ASSUME TypeInv, Administer PROVE TypeInv'
<1>1. RoleTypeOK' /\ ListsMatchRoles'
  <2>1. RoleInv
    BY DEF RoleInv, TypeInv, TypeOK
  <2>2. ASSUME NEW g \in Grants, GrantRole(g[1], g[2]) PROVE RoleInv'
    BY <2>1, <2>2, ConfigAssumption, GrantRoleInv
  <2>3. ASSUME NEW g \in Revokes, RevokeRole(g[1], g[2]) PROVE RoleInv'
    BY <2>1, <2>3, ConfigAssumption, RevokeRoleInv
  <2> QED  BY <2>2, <2>3 DEF Administer, RoleInv
<1>2. UNCHANGED <<claim, status, entryVars, escrowVars, startVars, finishVars>>
  BY DEF Administer
<1> QED
  BY <1>1, <1>2
  DEF TypeInv, TypeOK, Divisible, VoteMask, entryVars, escrowVars, startVars, finishVars

LEMMA StepTypeInv == TypeInv /\ [Next]_vars => TypeInv'
<1> SUFFICES ASSUME TypeInv, [Next]_vars PROVE TypeInv'
  OBVIOUS
<1>1. CASE UNCHANGED vars
  <2>1. RoleTypeOK' /\ ListsMatchRoles'
    BY <1>1, RoleStutterInv DEF RoleInv, TypeInv, TypeOK, vars
  <2>2. UNCHANGED <<claim, status, entryVars, escrowVars, startVars, finishVars>>
    BY <1>1 DEF vars
  <2> QED
    BY <2>1, <2>2
    DEF TypeInv, TypeOK, Divisible, VoteMask, entryVars, escrowVars, startVars, finishVars
<1> QED
  BY <1>1, AdministerTypeInv, RegisterTypeInv, VoteTypeInv, PayoutTypeInv DEF Next

\* No balance goes below zero, no team has more seats than its size, every vote is
\* one of the u64 mask's bits and every ballot fits its account, whatever the
\* size of the tournament and however its users interleave with the admin.
THEOREM TypeCorrect == Spec => []TypeOK
<1>1. TypeInv => TypeOK
  BY DEF TypeInv
<1> QED
  BY <1>1, InitTypeInv, StepTypeInv, PTL DEF Spec

\* RoleInfo and RoleList stay in step while a tournament runs.
THEOREM RegistryInStep == Spec => []ListsMatchRoles
<1>1. TypeInv => ListsMatchRoles
  BY DEF TypeInv
<1> QED
  BY <1>1, InitTypeInv, StepTypeInv, PTL DEF Spec
-----------------------------------------------------------------------------
(***************************************************************************)
(* Each ballot belongs to one bit of the mask.                             *)
(***************************************************************************)
LEMMA StepBallots ==
  ASSUME TypeInv, BallotsMatchVotes, [Next]_vars
  PROVE  BallotsMatchVotes'
<1>1. ASSUME NEW v \in Users, NEW w \in Players, NEW o, FinishTournament(v, w, o)
      PROVE  BallotsMatchVotes'
  <2>1. finish_votes \subseteq 0..(MaxVerifiers - 1)
    BY DEF TypeInv, TypeOK, VoteMask
  <2>2. IsFiniteSet(finish_votes)
    <3>1. 0 \in Int /\ MaxVerifiers - 1 \in Int
      BY MaxVerifiersAssumption
    <3>2. IsFiniteSet(0..(MaxVerifiers - 1))
      BY <3>1, FS_Interval
    <3> QED  BY <2>1, <3>2, FS_Subset
  <2>3. Bit(v) \notin finish_votes /\ finish_votes' = finish_votes \cup {Bit(v)}
    BY <1>1 DEF FinishTournament, MayVote
  <2>4. Cardinality(finish_votes') = Cardinality(finish_votes) + 1
    BY <2>2, <2>3, FS_AddElement
  <2>5. ballots \in Seq(Players) /\ ballots' = Append(ballots, w)
    BY <1>1 DEF FinishTournament, TypeInv, TypeOK
  <2>6. Len(ballots') = Len(ballots) + 1
    BY <2>5, AppendProperties
  <2> QED  BY <2>4, <2>6 DEF BallotsMatchVotes
<1>2. CASE UNCHANGED <<finish_votes, ballots>>
  BY <1>2 DEF BallotsMatchVotes
<1>3. CASE Register
  BY <1>2, <1>3, RegisterKeeps DEF finishVars
<1>4. CASE Vote
  BY <1>1, <1>2, <1>4 DEF Vote, StartTournament, CancelTournament, finishVars
<1>5. CASE Administer \/ Payout \/ UNCHANGED vars
  BY <1>2, <1>5 DEF Administer, Payout, ClaimRefund, ClaimReward, PaySeat, ClaimSponsorRefund,
                    vars, finishVars
<1> QED  BY <1>3, <1>4, <1>5 DEF Next

\* However the list of verifiers changes under the vote, the tally that picks the
\* winner holds exactly one ballot for each bit that is set.
THEOREM BallotsAreCounted == Spec => []BallotsMatchVotes
<1>1. Init => BallotsMatchVotes
  BY FS_EmptySet DEF Init, BallotsMatchVotes
<1>2. TypeInv /\ BallotsMatchVotes /\ [Next]_vars => BallotsMatchVotes'
  BY StepBallots
<1> QED
  BY <1>1, <1>2, InitTypeInv, StepTypeInv, PTL DEF Spec
-----------------------------------------------------------------------------
(***************************************************************************)
(* A decision is final.                                                    *)
(***************************************************************************)
\* What OutcomeIsFinal says of one step.
Final ==
  /\ status = "Started" => status' \in {"Started", "Finished"}
  /\ status \in {"Canceled", "Finished"} => status' = status
  /\ status # "New" => Seats' = Seats /\ team_count' = team_count
  /\ status = "Finished" => UNCHANGED finishVars

\* A payout neither adds nor removes a seat.
LEMMA PaySeatKeepsSeats ==
  ASSUME TypeInv, NEW p \in Players, NEW c \in Players, NEW amount, PaySeat(p, c, amount)
  PROVE  Seats' = Seats
<1>1. teams \in [Players -> Team] /\ SoundTeam(teams[c])
  BY DEF TypeInv, TypeOK, SoundTeam
<1>2. DOMAIN Settle(teams[c], p).participants = DOMAIN teams[c].participants
  BY <1>1, SettleSound
<1>3. teams' = [teams EXCEPT ![c] = Settle(teams[c], p)]
  BY DEF PaySeat
<1>4. \A d \in Players : DOMAIN teams'[d].participants = DOMAIN teams[d].participants
  BY <1>1, <1>2, <1>3
<1> QED  BY <1>4 DEF Seats

LEMMA StepFinal == ASSUME TypeInv, [Next]_vars PROVE Final
<1>1. CASE UNCHANGED vars
  BY <1>1 DEF vars, entryVars, finishVars, Final, Seats
<1>2. CASE Administer
  BY <1>2 DEF Administer, entryVars, finishVars, Final, Seats
<1>3. CASE Register
  BY <1>3, RegisterKeeps DEF Final, Seats, finishVars
<1>4. CASE Vote
  <2>1. ASSUME NEW v \in Users, StartTournament(v) \/ CancelTournament(v) PROVE Final
    BY <2>1 DEF StartTournament, CancelTournament, Open, Final
  <2>2. ASSUME NEW v \in Users, NEW w \in Players, NEW o, FinishTournament(v, w, o) PROVE Final
    BY <2>2 DEF FinishTournament, entryVars, Final, Seats
  <2> QED  BY <1>4, <2>1, <2>2 DEF Vote
<1>5. CASE Payout
  <2>1. ASSUME NEW p \in Players, NEW c \in Players, NEW amount, PaySeat(p, c, amount)
        PROVE  Final
    <3>1. Seats' = Seats
      BY <2>1, PaySeatKeepsSeats
    <3>2. UNCHANGED <<status, team_count, finishVars>>
      BY <2>1 DEF PaySeat
    <3> QED  BY <3>1, <3>2 DEF Final
  <2>2. CASE ClaimSponsorRefund
    BY <2>2 DEF ClaimSponsorRefund, entryVars, Final, Seats
  <2> QED  BY <1>5, <2>1, <2>2 DEF Payout, ClaimRefund, ClaimReward
<1> QED  BY <1>1, <1>2, <1>3, <1>4, <1>5 DEF Next

\* No vote, registration or payout, in any interleaving, takes a decision back or
\* changes who takes part once the tournament has left New.
THEOREM DecisionsAreFinal == Spec => OutcomeIsFinal
<1>1. TypeInv /\ [Next]_vars => [Final]_vars
  BY StepFinal
<1> QED
  BY <1>1, InitTypeInv, StepTypeInv, PTL DEF Spec, OutcomeIsFinal, Final
=============================================================================
