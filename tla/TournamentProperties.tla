------------------------ MODULE TournamentProperties ------------------------
(***************************************************************************)
(* What a tournament promises its players, its verifiers and its sponsor.  *)
(***************************************************************************)
EXTENDS Tournament

\* The seats of the tournament as <<captain, position>> pairs.
Seats == {s \in Players \X (1..TeamSize) : s[2] \in DOMAIN teams[s[1]].participants}

SeatAt(s) == teams[s[1]].participants[s[2]]

\* Who gets the entry fee of a seat back: the captain for those it was registered
\* with, else the player itself.  Whoever signed the registration has paid it.
Creditor(s) == IF SeatAt(s).paid_by_captain THEN s[1] ELSE SeatAt(s).pubkey

\* The seats whose creditor has not settled, that is whose fee is still in the pool.
Unsettled ==
  {s \in Seats : CanSettle(teams[s[1]], Creditor(s))}

\* What a player holds and what it could get back.
Stake(p) == wallet[p] + EntryFee * Cardinality({s \in Unsettled : Creditor(s) = p})

CompletedTeams == {c \in Players : teams[c].completed}

VoteMask == SUBSET (0..(MaxVerifiers - 1))
-----------------------------------------------------------------------------
\* Types: balances and claims never go below zero, a team has at most team_size
\* seats, a vote mask has its u64 bits and no more, and the ballots fit the
\* account made for them.
TypeOK ==
  /\ RoleTypeOK
  /\ claim \in [Users -> Nat]
  /\ status \in Status
  /\ team_count \in Nat
  /\ teams \in [Players -> Team]
  /\ \A c \in Players : Len(teams[c].participants) <= teams[c].team_size
  /\ bloom \subseteq Players
  /\ pool \in Nat
  /\ wallet \in [Players -> Nat]
  /\ sponsorPaid \in Nat
  /\ organizerPaid \in Nat
  /\ {start_votes, cancel_votes, finish_votes} \subseteq VoteMask
  /\ ballots \in Seq(Players)
  /\ Len(ballots) <= Len(InitVerifiers)
  /\ captain_winner \in Players \cup {DefaultKey}
  /\ reward \in Nat

\* Nobody sits twice: over all teams a key has at most one seat.  Only the bloom
\* filter of register_tournament sees to it; the teams are separate accounts.
OneSeatPerPlayer ==
  \A s, t \in Seats : SeatAt(s).pubkey = SeatAt(t).pubkey => s = t

\* team_count, from which the prize is computed, is the number of full teams,
\* whatever mix of captains and later participants filled them.
TeamCountExact ==
  /\ team_count = Cardinality(CompletedTeams)
  /\ \A c \in Players : teams[c].completed <=>
       teams[c].team_size > 0 /\ Len(teams[c].participants) = teams[c].team_size

\* register_tournament does not look at max_teams, yet no more than max_teams
\* teams are ever completed: the size of the filter's account is the limit.
WithinMaxTeams == team_count <= MaxTeams

\* A key the filter knows, and therefore refuses as already registered, has a
\* seat in some team.
KnownKeysAreSeated == \A p \in bloom : \E s \in Seats : SeatAt(s).pubkey = p

\* Up to a final vote the pool holds the contribution not yet returned and the
\* entry fee of every seat whose creditor has not been refunded, to the unit.
EscrowBalanced ==
  status # "Finished" =>
    pool + sponsorPaid = SponsorPool + EntryFee * Cardinality(Unsettled)

\* Once money is due the pool covers all of it: every refund after a
\* cancellation; after the final, every reward of the winning team and every
\* refund of an incomplete team, in whatever order they are drawn.
PayoutsCovered ==
  /\ status = "Canceled" => pool >= EntryFee * Cardinality(Unsettled)
  /\ status = "Finished" =>
       pool >= reward * Cardinality({s \in Seats : s[1] = captain_winner /\ ~SeatAt(s).claimed})
               + EntryFee * Cardinality({s \in Unsettled : s[1] \notin CompletedTeams})

\* Until the final no vote, no payout and no registration a player signs for itself
\* changes a stake: every fee can be got back, by one key, in full.  Who signs for
\* another gives it the fees: what the signer has paid is what the other's stake grows by.
StakesKept ==
  [][status' # "Finished" =>
       \/ \A p \in Players : Stake(p)' = Stake(p)
       \/ LET fees == EntryFee * Cardinality(Unsettled' \ Unsettled)
          IN /\ status = "New"
             /\ \E signer, p \in Players :
                  /\ signer # p
                  /\ wallet'[signer] = wallet[signer] - fees
                  /\ Stake(signer)' = Stake(signer) - fees
                  /\ Stake(p)' = Stake(p) + fees
                  /\ \A q \in Players \ {signer, p} : Stake(q)' = Stake(q)]_vars

\* A player is paid only by settling a seat of its own that was open, or when the
\* final vote names its account for the organizer's cut; and a settled seat stays
\* settled: refund and reward exclude each other.
PaidOncePerSeat ==
  [][/\ \A p \in Players : wallet'[p] > wallet[p] =>
          \/ status = "Started" /\ status' = "Finished"
          \/ \E s \in Seats : /\ SeatAt(s).pubkey = p
                              /\ ~SeatAt(s).claimed
                              /\ SeatAt(s)'.claimed
     /\ \A s \in Seats : SeatAt(s).claimed => SeatAt(s)'.claimed]_vars

\* A tournament starts and then finishes, or is canceled, and that is final; no
\* seat is added or taken once it has left New; the result stays as announced.
OutcomeIsFinal ==
  [][/\ status = "Started" => status' \in {"Started", "Finished"}
     /\ status \in {"Canceled", "Finished"} => status' = status
     /\ status # "New" => Seats' = Seats /\ team_count' = team_count
     /\ status = "Finished" => UNCHANGED finishVars]_vars
-----------------------------------------------------------------------------
\* votes is enough for consensus_rate among the verifiers there are now.
Reached(votes) ==
  Cardinality(votes) * 10000 >= Len(roleList["Verifier"]) * ConsensusRate

\* A threshold that is met has taken effect: no question stays open that the
\* recorded votes decide.  (The threshold is only looked at when a vote comes.)
QuorumTakesEffect ==
  /\ status = "New" => ~Reached(start_votes) /\ ~Reached(cancel_votes)
  /\ status = "Started" => ~Reached(finish_votes)

\* Each ballot on the winner belongs to one bit of the mask, so the tally that
\* picks the winner counts each verifier's word once.
BallotsMatchVotes == Len(ballots) = Cardinality(finish_votes)

\* A captain whom more than half of the ballots name is the winner, whichever
\* way ties are broken and whatever the last ballot says.
MajorityWins ==
  status = "Finished" =>
    \A c \in Players :
      2 * Cardinality({i \in DOMAIN ballots : ballots[i] = c}) > Len(ballots)
        => captain_winner = c

Voted(v, votes) ==
  Contains(roleList["Verifier"], v) /\ Position(roleList["Verifier"], v) - 1 \in votes

FeeFor(v, votes) == IF Voted(v, votes) THEN VerifierFee ELSE 0

CompensationOf(u) == IF u = Organizer /\ status = "Canceled" THEN PlatformFee ELSE 0

\* What a user may claim is one fee for each of its recorded votes to start and
\* to cancel, and for the organizer the platform fee after a cancellation.
FeesMatchVotes ==
  \A u \in Users :
    claim[u] = FeeFor(u, start_votes) + FeeFor(u, cancel_votes) + CompensationOf(u)

\* The same with the votes on the winner: a verifier is paid for every vote.
EveryVotePaid ==
  \A u \in Users :
    claim[u] = FeeFor(u, start_votes) + FeeFor(u, cancel_votes) + FeeFor(u, finish_votes)
               + CompensationOf(u)

\* A verifier answers a question once.  Each answer to the questions of start
\* and cancel earns one fee, so no verifier earns more than two.
OneVotePerQuestion ==
  \A u \in Users \ {Organizer} : claim[u] <= 2 * VerifierFee
-----------------------------------------------------------------------------
\* The program takes no step of its own.  Fairness is a promise of its users: a
\* verifier whose vote the program would take votes in the end, and a player
\* the program would pay asks for the money.
VotesAreCast ==
  \A v \in Users :
    /\ WF_vars(StartTournament(v))
    /\ WF_vars(\E c \in Players, organizer \in CutAccounts : FinishTournament(v, c, organizer))

RefundsAreClaimed == \A p \in Players : WF_vars(\E c \in Players : ClaimRefund(p, c))

FairSpec == Spec /\ VotesAreCast /\ RefundsAreClaimed

\* Verifiers that want a tournament canceled get rid of it, whoever registers or
\* votes to start it meanwhile: it does not stay New.
NewIsDecided ==
  (\A v \in Users : WF_vars(CancelTournament(v))) => ((status = "New") ~> (status # "New"))

\* A tournament with a full team does not stay New: it is started or canceled.
FullTeamIsStarted == (status = "New" /\ team_count > 0) ~> status # "New"

\* A tournament that is started is finished.
StartedIsFinished == (status = "Started") ~> (status = "Finished")

\* After a cancellation the pool pays out every entry fee: what stays in it is the
\* sponsor's, whoever has paid for whom.
CancellationRefunds ==
  (status = "Canceled") ~> (pool + sponsorPaid = SponsorPool)
=============================================================================
