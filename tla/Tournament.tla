----------------------------- MODULE Tournament -----------------------------
(***************************************************************************)
(* One tournament of the single-chain program, from just after             *)
(* create_tournament to its last payout.                                   *)
(*                                                                         *)
(* Keys are registered and paid for into the reward pool; verifiers        *)
(* vote to start it, to cancel it and, once started, on the winner; then   *)
(* players draw refunds or rewards from the pool and the sponsor draws its *)
(* contribution back.  Meanwhile the admin may appoint and dismiss.        *)
(*                                                                         *)
(* An instruction is one atomic step: if a check, an arithmetic operation  *)
(* or a transfer fails, the runtime undoes all of it, so every failure is  *)
(* a missing step.  Steps of different users interleave in any order.      *)
(*                                                                         *)
(* Only accounts declared mut are written back.  RoleInfo is not mut in    *)
(* FinishTournament, so its fee is not stored; CancelTournament loads the  *)
(* verifier's and the organizer's RoleInfo separately and stores them in   *)
(* that order.                                                             *)
(***************************************************************************)
EXTENDS Consensus, Teams

CONSTANTS
  Organizer,       \* Tournament.organizer
  InitVerifiers,   \* the Verifier list when the tournament is created
  Grants, Revokes, \* the <<user, role>> pairs the admin may grant and revoke
  MateLists,       \* the values of RegisterParams.teammates
  Proxies,         \* the players that sign registrations of others, too
  CutAccounts,     \* whom a vote on the winner may name for the organizer's cut
  DefaultKey,      \* Pubkey::default(), no player's key
  MaxTeams, EntryFee, SponsorPool, OrganizerFee,    \* TournamentConfig
  VerifierFee, PlatformFee,                         \* GenomeSingleConfig
  PlayerFunds,     \* what a player's token account holds at first
  SponsorCalls     \* how often the sponsor asks for its refund at most

ASSUME ConfigAssumption ==
  /\ {MaxTeams, EntryFee, SponsorPool, OrganizerFee, VerifierFee,
      PlatformFee, PlayerFunds, SponsorCalls} \subseteq Nat
  /\ Organizer \in Users
  /\ InitVerifiers \in Seq(Users)
  /\ IsInjective(InitVerifiers)
  /\ Len(InitVerifiers) <= MaxVerifiers
  /\ Grants \subseteq Users \X Role
  /\ Revokes \subseteq Users \X Role
  /\ MateLists \subseteq Seq(Players)
  /\ Proxies \subseteq Players
  /\ DefaultKey \notin Players

Status == {"New", "Started", "Finished", "Canceled"}

VARIABLES
  claim,           \* claim[u]: RoleInfo.claim of u
  status,          \* Tournament.status
  team_count,      \* Tournament.team_count
  teams,           \* teams[c]: the Team account of captain c
  bloom,           \* the keys inserted into the BloomFilter account
  pool,            \* balance of reward_pool_ata
  wallet,          \* wallet[p]: balance of the token account of p
  sponsorPaid,     \* paid out to sponsor_ata
  organizerPaid,   \* paid out to organizer_ata, unless a player's
  start_votes, cancel_votes, finish_votes,   \* Consensus: the bits that are set
  ballots,         \* FinishMetaData.finish_votes
  captain_winner,  \* FinishMetaData.captain_winner
  reward           \* FinishMetaData.reward

entryVars  == <<team_count, teams, bloom>>
escrowVars == <<pool, wallet, sponsorPaid, organizerPaid>>
startVars  == <<start_votes, cancel_votes>>
finishVars == <<finish_votes, ballots, captain_winner, reward>>
vars == <<roleVars, claim, status, entryVars, escrowVars, startVars, finishVars>>
-----------------------------------------------------------------------------
\* create_tournament has taken the sponsor's contribution into the pool.
Init ==
  /\ roles = [u \in Users |-> {r \in Role : \/ r = "Verifier" /\ Contains(InitVerifiers, u)
                                            \/ r = "Organizer" /\ u = Organizer}]
  /\ roleList = [r \in Role |-> CASE r = "Verifier" -> InitVerifiers
                                  [] r = "Organizer" -> <<Organizer>>
                                  [] OTHER -> <<>>]
  /\ claim = [u \in Users |-> 0]
  /\ status = "New"
  /\ team_count = 0
  /\ teams = [c \in Players |-> NoTeam]
  /\ bloom = {}
  /\ pool = SponsorPool
  /\ wallet = [p \in Players |-> PlayerFunds]
  /\ sponsorPaid = 0
  /\ organizerPaid = 0
  /\ start_votes = {} /\ cancel_votes = {} /\ finish_votes = {}
  /\ ballots = <<>>
  /\ captain_winner = DefaultKey
  /\ reward = 0
-----------------------------------------------------------------------------
\* Faulty: the status check lets a running tournament through.
OpenUntilFinal == status \in {"New", "Started"}

\* The status check of registration and of the votes to start and to cancel.
Open == status = "New"
-----------------------------------------------------------------------------
(***************************************************************************)
(* Registration                                                            *)
(***************************************************************************)
\* The filter is created for this many keys.  One key more makes it grow, and a
\* grown filter does not fit its account, which is never reallocated.
BloomCapacity == MaxTeams * TeamSize

\* Faulty: the filter is never full; the teammates are not looked up in it.
BloomAcceptsGrowing(keys) == IsInjective(keys) /\ ToSet(keys) \cap bloom = {}

BloomAcceptsCaller(keys) ==
  /\ keys[1] \notin bloom
  /\ Cardinality(bloom) + Len(keys) <= BloomCapacity

\* bloom_check: every key is new to the filter, and the filter can be stored.
\* (A false positive only refuses a call; no call has to be accepted.)
BloomAccepts(keys) ==
  /\ IsInjective(keys)
  /\ ToSet(keys) \cap bloom = {}
  /\ Cardinality(bloom) + Len(keys) <= BloomCapacity

\* The part both branches share: the signer pays for `seats` seats, the team
\* account of c becomes `team`, a completed team is counted.  RegisterParams names
\* the keys, and nothing compares them with the signer.
Enter(signer, keys, seats, c, team) ==
  /\ Open
  /\ BloomAccepts(keys)
  /\ wallet[signer] >= seats * EntryFee
  /\ wallet' = [wallet EXCEPT ![signer] = @ - seats * EntryFee]
  /\ pool' = pool + seats * EntryFee
  /\ teams' = [teams EXCEPT ![c] = team]
  /\ team_count' = IF team.completed THEN team_count + 1 ELSE team_count
  /\ bloom' = bloom \cup ToSet(keys)
  /\ UNCHANGED <<roleVars, claim, status, sponsorPaid, organizerPaid, startVars, finishVars>>

\* p becomes the captain of a team, with a paid seat for each of its teammates.
RegisterCaptain(signer, p, teammates) ==
  LET all == <<p>> \o teammates
  IN /\ CanAddParticipantsByCaptain(NewTeam, all)
     /\ Enter(signer, all, Len(all), p, AddParticipantsByCaptain(NewTeam, all))

\* p joins the team of c.  The keys sent along as teammates go into the filter,
\* but get no seat.
RegisterParticipant(signer, p, c, teammates) ==
  /\ p # c
  /\ CanAddParticipant(teams[c])
  /\ Enter(signer, <<p>> \o teammates, 1, c, AddParticipant(teams[c], p))
-----------------------------------------------------------------------------
(***************************************************************************)
(* Votes                                                                   *)
(***************************************************************************)
StartTournament(v) ==
  /\ Open
  /\ team_count # 0
  /\ MayVote(v, start_votes)
  /\ start_votes' = start_votes \cup {Bit(v)}
  /\ claim' = [claim EXCEPT ![v] = @ + VerifierFee]
  /\ status' = IF Quorum(start_votes') THEN "Started" ELSE status
  /\ UNCHANGED <<roleVars, entryVars, escrowVars, cancel_votes, finishVars>>

\* The organizer's RoleInfo is stored after the verifier's.  When one user is
\* both, what is stored last is the copy without the verifier's fee.
CancelTournament(v) ==
  LET organizerClaim ==
        claim[Organizer] + IF Quorum(cancel_votes') THEN PlatformFee ELSE 0
  IN /\ Open
     /\ "Organizer" \in roles[Organizer]
     /\ MayVote(v, cancel_votes)
     /\ cancel_votes' = cancel_votes \cup {Bit(v)}
     /\ claim' = [claim EXCEPT ![v] = @ + VerifierFee, ![Organizer] = organizerClaim]
     /\ status' = IF Quorum(cancel_votes') THEN "Canceled" ELSE status
     /\ UNCHANGED <<roleVars, entryVars, escrowVars, start_votes, finishVars>>
-----------------------------------------------------------------------------
\* Faulty: the account has no room for the last ballot.
BallotsFitShort(list) == Len(list) < Len(InitVerifiers)

\* The account of FinishMetaData was made for the verifiers of that moment.
BallotsFit(list) == Len(list) <= Len(InitVerifiers)

\* Faulty: the ballot that reaches the threshold decides.
LastVoted(list) == {Last(list)}

\* max_by_key over a HashMap: any of the captains that most ballots name.
MostVoted(list) ==
  LET count(c) == Cardinality({i \in DOMAIN list : list[i] = c})
  IN {c \in ToSet(list) : \A d \in ToSet(list) : count(d) <= count(c)}

\* Faulty: the fees of players without a full team are shared out as well.
RewardPoolOfAll == SponsorPool + EntryFee * Cardinality(bloom)

\* What is shared out: the contribution and one entry fee per completed team.
RewardPool == SponsorPool + EntryFee * team_count

\* RewardPool * OrganizerFee / 10000 in f64, truncated.  The quotient by 10000 is
\* inexact, so an exact result may come out one unit short.  A cut above the
\* reward pool makes the subtraction that follows overflow.
OrganizerRewards ==
  {cut \in 0..RewardPool :
     /\ cut * 10000 <= RewardPool * OrganizerFee
     /\ RewardPool * OrganizerFee <= (cut + 1) * 10000}

\* The deciding vote also names the account that gets the organizer's cut; nothing
\* compares it with Tournament.organizer, and it may be a player's.
PayCut(organizer, cut) ==
  /\ cut <= pool
  /\ pool' = pool - cut
  /\ IF organizer \in Players
     THEN /\ wallet' = [wallet EXCEPT ![organizer] = @ + cut]
          /\ UNCHANGED organizerPaid
     ELSE /\ organizerPaid' = organizerPaid + cut
          /\ UNCHANGED wallet
  /\ UNCHANGED sponsorPaid

FinishTournament(v, winnerVote, organizer) ==
  /\ status = "Started"
  /\ MayVote(v, finish_votes)
  /\ finish_votes' = finish_votes \cup {Bit(v)}
  /\ ballots' = Append(ballots, winnerVote)
  /\ BallotsFit(ballots')
  /\ \/ /\ ~Quorum(finish_votes')
        /\ UNCHANGED <<status, captain_winner, reward, escrowVars>>
     \/ /\ Quorum(finish_votes')
        /\ status' = "Finished"
        /\ captain_winner' \in MostVoted(ballots')
        /\ \E cut \in OrganizerRewards :
             /\ reward' = (RewardPool - cut) \div TeamSize
             /\ PayCut(organizer, cut)
  /\ UNCHANGED <<roleVars, claim, entryVars, startVars>>
-----------------------------------------------------------------------------
(***************************************************************************)
(* Payouts                                                                 *)
(***************************************************************************)
\* The pool pays p for its seat in the team of c, and the seat is settled.
PaySeat(p, c, amount) ==
  /\ CanSettle(teams[c], p)
  /\ amount <= pool
  /\ teams' = [teams EXCEPT ![c] = Settle(@, p)]
  /\ pool' = pool - amount
  /\ wallet' = [wallet EXCEPT ![p] = @ + amount]
  /\ UNCHANGED <<roleVars, claim, status, team_count, bloom, sponsorPaid, organizerPaid,
                 startVars, finishVars>>

\* Every team is refunded after a cancellation, an incomplete one from the start on.
Refundable(c) ==
  /\ status # "New"
  /\ status = "Canceled" \/ ~teams[c].completed

ClaimRefund(p, c) ==
  /\ Refundable(c)
  /\ PaySeat(p, c, EntryFee * RefundCount(c, teams[c], p))

ClaimReward(p, c) ==
  /\ status = "Finished"
  /\ captain_winner = c
  /\ PaySeat(p, c, reward)

\* The program does not record that the sponsor was paid.  SponsorCalls bounds
\* what the sponsor does, not what the program accepts.
ClaimSponsorRefund ==
  /\ status = "Canceled"
  /\ sponsorPaid + SponsorPool <= SponsorCalls * SponsorPool
  /\ pool >= SponsorPool
  /\ pool' = pool - SponsorPool
  /\ sponsorPaid' = sponsorPaid + SponsorPool
  /\ UNCHANGED <<roleVars, claim, status, entryVars, wallet, organizerPaid, startVars, finishVars>>
-----------------------------------------------------------------------------
\* The admin at work on the registry while the tournament runs.
Administer ==
  /\ \/ \E g \in Grants : GrantRole(g[1], g[2])
     \/ \E g \in Revokes : RevokeRole(g[1], g[2])
  /\ UNCHANGED <<claim, status, entryVars, escrowVars, startVars, finishVars>>

Register ==
  \E p \in Players, teammates \in MateLists : \E signer \in Proxies \cup {p} :
    \/ RegisterCaptain(signer, p, teammates)
    \/ \E c \in Players : RegisterParticipant(signer, p, c, teammates)

Vote ==
  \E v \in Users :
    \/ StartTournament(v)
    \/ CancelTournament(v)
    \/ \E c \in Players, organizer \in CutAccounts : FinishTournament(v, c, organizer)

Payout ==
  \/ \E p, c \in Players : ClaimRefund(p, c) \/ ClaimReward(p, c)
  \/ ClaimSponsorRefund

Next == Administer \/ Register \/ Vote \/ Payout

Spec == Init /\ [][Next]_vars
=============================================================================
