---------------------------- MODULE VotingProofs ----------------------------
(***************************************************************************)
(* Votes, fees and the winner; and the tournament as a book of the         *)
(* platform.                                                               *)
(*                                                                         *)
(* A vote is recorded by the position of its verifier in the list of the   *)
(* moment.  What is said of votes and of their fees therefore needs that   *)
(* no verifier is dismissed while the tournament runs; who is appointed    *)
(* meanwhile does not matter.                                              *)
(***************************************************************************)
EXTENDS EscrowProofs

(***************************************************************************)
(* The winner.                                                             *)
(***************************************************************************)
\* The positions of the ballots that name c.
BallotsFor(c, list) == {i \in DOMAIN list : list[i] = c}

WinnerIsMostVoted == status = "Finished" => captain_winner \in MostVoted(ballots)

\* The result is announced once, from the ballots that stay as they are.
WinnerInv == TypeInv /\ WinnerIsMostVoted

LEMMA BallotsCounted ==
  ASSUME NEW S, NEW list \in Seq(S), NEW c
  PROVE  IsFiniteSet(BallotsFor(c, list)) /\ Cardinality(BallotsFor(c, list)) \in Nat
<1>1. IsFiniteSet(1..Len(list)) /\ DOMAIN list = 1..Len(list)
  BY FS_Interval
<1>2. BallotsFor(c, list) \subseteq 1..Len(list)
  BY <1>1 DEF BallotsFor
<1> QED  BY <1>1, <1>2, FS_Subset, FS_CardinalityType

\* Two captains share no ballot.
LEMMA BallotsShared ==
  ASSUME NEW S, NEW list \in Seq(S), NEW c, NEW d, c # d
  PROVE  Cardinality(BallotsFor(c, list)) + Cardinality(BallotsFor(d, list)) <= Len(list)
<1> DEFINE A == BallotsFor(c, list)
           B == BallotsFor(d, list)
           n == Len(list)
<1>1. IsFiniteSet(1..n) /\ Cardinality(1..n) = n /\ n \in Nat /\ DOMAIN list = 1..n
  BY FS_Interval
<1>2. A \cap B = {} /\ A \cup B \subseteq 1..n
  BY <1>1 DEF BallotsFor
<1>3. /\ IsFiniteSet(A) /\ Cardinality(A) \in Nat
      /\ IsFiniteSet(B) /\ Cardinality(B) \in Nat
  BY BallotsCounted
<1> HIDE DEF A, B, n
<1>4. Cardinality(A \cup B) = Cardinality(A) + Cardinality(B) - Cardinality({})
  BY <1>2, <1>3, FS_Union
<1>5. Cardinality(A \cup B) <= n
  BY <1>1, <1>2, FS_Subset
<1>6. Cardinality(A) + Cardinality(B) <= n
  BY <1>3, <1>4, <1>5, FS_EmptySet
<1> QED  BY <1>6 DEF A, B, n

LEMMA MajorityIsMostVoted ==
  ASSUME NEW S, NEW list \in Seq(S), NEW w \in MostVoted(list), NEW c,
         2 * Cardinality(BallotsFor(c, list)) > Len(list)
  PROVE  w = c
<1> SUFFICES ASSUME w # c PROVE FALSE
  OBVIOUS
<1>1. Cardinality(BallotsFor(c, list)) \in Nat /\ Cardinality(BallotsFor(w, list)) \in Nat
  BY BallotsCounted
<1>2. c \in ToSet(list)
  <2> SUFFICES ASSUME BallotsFor(c, list) = {} PROVE FALSE
    BY DEF BallotsFor, ToSet
  <2> QED  BY FS_EmptySet
<1>3. Cardinality(BallotsFor(c, list)) <= Cardinality(BallotsFor(w, list))
  BY <1>2 DEF MostVoted, BallotsFor
<1>4. Cardinality(BallotsFor(c, list)) + Cardinality(BallotsFor(w, list)) <= Len(list)
  BY BallotsShared
<1> DEFINE a == Cardinality(BallotsFor(c, list))
           b == Cardinality(BallotsFor(w, list))
<1>5. 2 * a > Len(list) /\ a <= b /\ a + b <= Len(list) /\ a \in Nat /\ b \in Nat /\ Len(list) \in Nat
  BY <1>1, <1>3, <1>4
<1> HIDE DEF a, b
<1> QED  BY <1>5

LEMMA StepWinnerInv == WinnerInv /\ [Next]_vars => WinnerInv'
<1> SUFFICES ASSUME WinnerInv, [Next]_vars PROVE WinnerInv'
  OBVIOUS
<1>1. TypeInv'
  BY StepTypeInv DEF WinnerInv
<1>2. CASE \E v \in Users, c \in Players, o \in CutAccounts : FinishTournament(v, c, o)
  <2>1. PICK v \in Users, c \in Players, o \in CutAccounts : FinishTournament(v, c, o)
    BY <1>2
  <2>2. CASE Quorum(finish_votes')
    <3>1. captain_winner' \in MostVoted(ballots')
      BY <2>1, <2>2 DEF FinishTournament
    <3> QED  BY <1>1, <3>1 DEF WinnerInv, WinnerIsMostVoted, MostVoted
  <2>3. CASE ~Quorum(finish_votes')
    <3>1. status' = "Started"
      BY <2>1, <2>3 DEF FinishTournament
    <3> QED  BY <1>1, <3>1 DEF WinnerInv, WinnerIsMostVoted
  <2> QED  BY <2>2, <2>3
<1>3. CASE ~\E v \in Users, c \in Players, o \in CutAccounts : FinishTournament(v, c, o)
  <2>1. UNCHANGED <<ballots, captain_winner>> /\ (status' = "Finished" => status = "Finished")
    BY <1>3, RegisterKeeps
    DEF Next, vars, Administer, Vote, StartTournament, CancelTournament, Payout, ClaimRefund,
        ClaimReward, PaySeat, ClaimSponsorRefund, finishVars
  <2> QED  BY <1>1, <2>1 DEF WinnerInv, WinnerIsMostVoted, MostVoted
<1> QED  BY <1>2, <1>3

\* A captain whom more than half of the ballots name is announced as the winner,
\* however many verifiers, captains and ballots there are and whoever is appointed
\* or dismissed on the way.
THEOREM MajorityIsHeard == Spec => []MajorityWins
<1>1. Init => WinnerInv
  BY InitTypeInv DEF Init, WinnerInv, WinnerIsMostVoted
<1>2. WinnerInv => MajorityWins
  <2> SUFFICES ASSUME WinnerInv, status = "Finished", NEW c \in Players,
                      2 * Cardinality({i \in DOMAIN ballots : ballots[i] = c}) > Len(ballots)
               PROVE  captain_winner = c
    BY DEF MajorityWins
  <2>1. ballots \in Seq(Players) /\ captain_winner \in MostVoted(ballots)
    BY DEF WinnerInv, WinnerIsMostVoted, TypeInv, TypeOK
  <2> QED  BY <2>1, MajorityIsMostVoted DEF BallotsFor
<1> QED  BY <1>1, <1>2, StepWinnerInv, PTL DEF Spec
-----------------------------------------------------------------------------
(***************************************************************************)
(* The list of verifiers when nobody is dismissed from it.                 *)
(***************************************************************************)
NoDismissals == \A g \in Revokes : g[2] # "Verifier"

LEMMA VerifiersListed ==
  ASSUME TypeInv
  PROVE  /\ verifierList \in Seq(Users) /\ IsInjective(verifierList)
         /\ Len(verifierList) \in Nat
         /\ DOMAIN verifierList = 1..Len(verifierList)
         /\ ToSet(verifierList) = {u \in Users : "Verifier" \in roles[u]}
         /\ \A u \in Users : Contains(verifierList, u) <=> u \in ToSet(verifierList)
<1>1. /\ verifierList \in Seq(Users) /\ IsInjective(verifierList)
      /\ ToSet(verifierList) = {u \in Users : "Verifier" \in roles[u]}
  BY DEF TypeInv, TypeOK, RoleTypeOK, ListsMatchRoles, verifierList, Role
<1>2. ToSet(verifierList) = {u \in Users : Contains(verifierList, u)}
  BY <1>1, MembersOfList
<1> QED  BY <1>1, <1>2

LEMMA StepVerifiersGrow ==
  ASSUME NoDismissals, TypeInv, [Next]_vars
  PROVE  VerifiersGrow /\ (~Administer => UNCHANGED roleVars)
<1>1. CASE Administer
  <2>1. RoleInv
    BY DEF RoleInv, TypeInv, TypeOK
  <2>2. ASSUME NEW g \in Grants, GrantRole(g[1], g[2]) PROVE VerifiersGrow
    BY <2>1, <2>2, GrantGrows, ConfigAssumption
  <2>3. ASSUME NEW g \in Revokes, RevokeRole(g[1], g[2]) PROVE VerifiersGrow
    BY <2>1, <2>3, RevokeGrows, ConfigAssumption DEF NoDismissals
  <2> QED  BY <1>1, <2>2, <2>3 DEF Administer
<1>2. ASSUME ~Administer PROVE UNCHANGED roleVars
  BY <1>2, RegisterKeeps
  DEF Next, vars, Vote, StartTournament, CancelTournament, FinishTournament, Payout,
      ClaimRefund, ClaimReward, PaySeat, ClaimSponsorRefund
<1> QED  BY <1>1, <1>2 DEF VerifiersGrow, roleVars

LEMMA ListGrows ==
  ASSUME TypeInv, VerifiersGrow
  PROVE  Len(verifierList') \in Nat /\ Len(verifierList) <= Len(verifierList')
  BY GrownList DEF RoleInv, TypeInv, TypeOK, verifierList
-----------------------------------------------------------------------------
(***************************************************************************)
(* A threshold that is met has taken effect.                               *)
(***************************************************************************)
\* There is a threshold: without verifiers, or with a rate of zero, the votes to
\* start, to cancel and on the winner would all be decided before the first is cast.
Threshold == NoDismissals /\ Len(InitVerifiers) > 0 /\ ConsensusRate > 0

\* A started tournament has no votes on the winner yet, so that none can be decided
\* the moment it starts; and the threshold is never lowered.
QuorumInv ==
  /\ TypeInv
  /\ QuorumTakesEffect
  /\ Len(verifierList) > 0
  /\ status = "New" => finish_votes = {}

LEMMA NoVotesNoQuorum ==
  ASSUME TypeInv, ConsensusRate > 0, Len(verifierList) > 0
  PROVE  ~Reached({})
<1> DEFINE n == Len(verifierList)
<1>1. n \in Nat /\ n > 0 /\ ConsensusRate \in Nat /\ ConsensusRate > 0
  BY VerifiersListed, Constants
<1>2. Cardinality({}) = 0
  BY FS_EmptySet
<1>3. Reached({}) <=> 0 * 10000 >= n * ConsensusRate
  BY <1>2 DEF Reached, verifierList
<1> DEFINE least == n * ConsensusRate
<1> HIDE DEF n
<1>4. least \in Nat /\ least > 0
  BY <1>1
<1> HIDE DEF least
<1>5. ~(0 * 10000 >= least)
  BY <1>4
<1> QED  BY <1>3, <1>5 DEF least, n

\* More verifiers do not make a question decided.
LEMMA ThresholdGrows ==
  ASSUME TypeInv, VerifiersGrow, NEW votes, votes \subseteq Nat, IsFiniteSet(votes), ~Reached(votes)
  PROVE  ~(Cardinality(votes) * 10000 >= Len(verifierList') * ConsensusRate)
<1> DEFINE n == Len(verifierList)
           m == Len(verifierList')
           k == Cardinality(votes) * 10000
<1>1. n \in Nat /\ m \in Nat /\ n <= m /\ ConsensusRate \in Nat /\ k \in Nat
  BY ListGrows, VerifiersListed, Constants, FS_CardinalityType
<1>2. ~(k >= n * ConsensusRate)
  BY DEF Reached, verifierList
<1> HIDE DEF n, m, k
<1>3. /\ ConsensusRate * n <= ConsensusRate * m
      /\ ConsensusRate * n = n * ConsensusRate /\ ConsensusRate * m = m * ConsensusRate
      /\ ConsensusRate * n \in Nat /\ ConsensusRate * m \in Nat
  BY <1>1, Distributes
<1>4. ~(k >= m * ConsensusRate)
  <2> DEFINE x == ConsensusRate * n
             y == ConsensusRate * m
  <2>1. x \in Nat /\ y \in Nat /\ x <= y /\ ~(k >= x) /\ k \in Nat
    BY <1>1, <1>2, <1>3
  <2> HIDE DEF x, y
  <2>2. ~(k >= y)
    BY <2>1
  <2> QED  BY <2>2, <1>3 DEF y
<1> QED  BY <1>4 DEF k, m

LEMMA MasksFinite ==
  ASSUME TypeInv, NEW votes \in {start_votes, cancel_votes, finish_votes}
  PROVE  votes \subseteq Nat /\ IsFiniteSet(votes)
<1>1. votes \subseteq 0..(MaxVerifiers - 1)
  BY DEF TypeInv, TypeOK, VoteMask
<1>2. IsFiniteSet(0..(MaxVerifiers - 1))
  BY FS_Interval, Constants
<1>3. votes \subseteq Nat
  BY <1>1, Constants
<1> QED  BY <1>1, <1>2, <1>3, FS_Subset

LEMMA StepQuorumInv == Threshold /\ QuorumInv /\ [Next]_vars => QuorumInv'
<1> SUFFICES ASSUME Threshold, QuorumInv, [Next]_vars PROVE QuorumInv'
  OBVIOUS
<1>1. TypeInv /\ TypeInv'
  BY StepTypeInv DEF QuorumInv
<1>2. VerifiersGrow /\ (~Administer => UNCHANGED roleVars)
  BY <1>1, StepVerifiersGrow DEF Threshold
<1>3. Len(verifierList') > 0
  BY <1>1, <1>2, ListGrows, VerifiersListed DEF QuorumInv
<1>4. \A votes : Reached(votes) <=> Quorum(votes)
  BY DEF Reached, Quorum, verifierList
<1>5. ASSUME NEW votes \in {start_votes, cancel_votes, finish_votes}, ~Reached(votes)
      PROVE  ~(Cardinality(votes) * 10000 >= Len(verifierList') * ConsensusRate)
  BY <1>1, <1>2, <1>5, MasksFinite, ThresholdGrows
<1>6. CASE \/ UNCHANGED <<status, start_votes, cancel_votes, finish_votes>>
           \/ UNCHANGED <<start_votes, cancel_votes, finish_votes>> /\ status' \notin {"New", "Started"}
  <2>1. Len(roleList'["Verifier"]) = Len(verifierList')
    BY DEF verifierList
  <2>2. QuorumTakesEffect'
    BY <1>5, <1>6, <2>1 DEF QuorumInv, QuorumTakesEffect, Reached
  <2> QED  BY <1>1, <1>3, <1>6, <2>2 DEF QuorumInv
<1>7. CASE \E v \in Users : StartTournament(v) \/ CancelTournament(v)
  <2>1. PICK v \in Users : StartTournament(v) \/ CancelTournament(v)
    BY <1>7
  <2>2. /\ status = "New" /\ finish_votes = {} /\ UNCHANGED <<finish_votes, roleVars>>
        /\ ~Reached(start_votes) /\ ~Reached(cancel_votes)
    BY <2>1 DEF StartTournament, CancelTournament, Open, finishVars, QuorumInv, QuorumTakesEffect
  <2>3. /\ status' \in {"New", "Started", "Canceled"}
        /\ status' = "New" => ~Reached(start_votes') /\ ~Reached(cancel_votes')
    BY <1>4, <2>1, <2>2 DEF StartTournament, CancelTournament
  <2>5. ~Reached({})
    BY <1>1, NoVotesNoQuorum DEF QuorumInv, Threshold
  <2>6. QuorumTakesEffect'
    BY <2>2, <2>3, <2>5 DEF QuorumTakesEffect, Reached, roleVars
  <2> QED  BY <1>1, <1>3, <2>2, <2>6 DEF QuorumInv
<1>8. CASE \E v \in Users, c \in Players, o \in CutAccounts : FinishTournament(v, c, o)
  <2>1. PICK v \in Users, c \in Players, o \in CutAccounts : FinishTournament(v, c, o)
    BY <1>8
  <2>2. /\ UNCHANGED <<start_votes, cancel_votes, roleVars>> /\ status = "Started"
        /\ status' \in {"Started", "Finished"}
        /\ status' = "Started" => ~Reached(finish_votes')
    BY <1>4, <2>1 DEF FinishTournament, startVars
  <2>3. QuorumTakesEffect'
    BY <2>2 DEF QuorumTakesEffect, Reached, roleVars
  <2> QED  BY <1>1, <1>3, <2>2, <2>3 DEF QuorumInv
<1>9. CASE Administer \/ Register \/ Payout \/ UNCHANGED vars
  <2>1. UNCHANGED <<status, start_votes, cancel_votes, finish_votes>>
    BY <1>9, RegisterKeeps DEF vars, Administer, Payout, ClaimRefund, ClaimReward, PaySeat,
                               ClaimSponsorRefund, startVars, finishVars
  <2> QED  BY <1>6, <2>1
<1> QED  BY <1>7, <1>8, <1>9 DEF Next, Vote

\* Votes to start and to cancel, and on the winner, that are enough have decided,
\* though the threshold is only looked at when a vote comes: an appointment between
\* two votes raises it and never leaves a question decided and open.
THEOREM QuorumDecides == ASSUME Threshold PROVE Spec => []QuorumTakesEffect
<1>1. Init => QuorumInv
  <2> SUFFICES ASSUME Init PROVE QuorumInv
    OBVIOUS
  <2>1. TypeInv /\ verifierList = InitVerifiers
    BY InitTypeInv DEF Init, verifierList, Role
  <2>2. ~Reached({})
    BY <2>1, NoVotesNoQuorum DEF Threshold
  <2> QED  BY <2>1, <2>2 DEF Init, QuorumInv, QuorumTakesEffect, Threshold
<1>2. QuorumInv /\ [Next]_vars => QuorumInv'
  BY StepQuorumInv
<1>3. QuorumInv => QuorumTakesEffect
  BY DEF QuorumInv
<1> QED  BY <1>1, <1>2, <1>3, PTL DEF Spec
-----------------------------------------------------------------------------
(***************************************************************************)
(* One fee for each vote.                                                  *)
(***************************************************************************)
\* The organizer's claim is its own affair: when it cancels as a verifier, its
\* fee is overwritten, and a verifier's claim would hide the compensation.
Impartial ==
  /\ Organizer \notin ToSet(InitVerifiers)
  /\ <<Organizer, "Verifier">> \notin Grants

\* The bits that are set belong to verifiers of today: a newcomer's bit is clear.
BitsAssigned ==
  \A i \in start_votes \cup cancel_votes : i \in Nat /\ i < Len(verifierList)

FeesInv ==
  /\ TypeInv /\ FeesMatchVotes
  /\ BitsAssigned
  /\ Organizer \notin ToSet(verifierList)

LEMMA VotedIsBit == \A u, votes : Voted(u, votes) <=> HasBit(verifierList, u, votes)
  BY DEF Voted, HasBit, verifierList

\* A vote gives its fee to the one who casts it.
LEMMA VoteCounts ==
  ASSUME TypeInv, NEW v, NEW votes, MayVote(v, votes), NEW u
  PROVE  /\ Bit(v) \in Nat /\ Bit(v) < Len(verifierList)
         /\ ~Voted(v, votes)
         /\ Voted(u, votes \cup {Bit(v)}) <=> Voted(u, votes) \/ u = v
<1>1. verifierList \in Seq(Users) /\ IsInjective(verifierList)
  BY VerifiersListed
<1> QED  BY <1>1, OwnBit, VotedIsBit DEF Bit, MayVote

\* What is due to each user after a step that leaves claims and votes alone.
LEMMA QuietFees ==
  ASSUME FeesInv, TypeInv', VerifiersGrow,
         UNCHANGED <<claim, status, start_votes, cancel_votes>>
  PROVE  FeesMatchVotes' /\ BitsAssigned'
<1>1. TypeInv /\ start_votes \subseteq Nat /\ cancel_votes \subseteq Nat
  BY MasksFinite DEF FeesInv
<1>2. ASSUME NEW u \in Users, NEW votes \in {start_votes, cancel_votes}
      PROVE  Voted(u, votes) <=> /\ Contains(roleList'["Verifier"], u)
                                 /\ Position(roleList'["Verifier"], u) - 1 \in votes
  <2>1. \A i \in votes : i < Len(verifierList)
    BY DEF FeesInv, BitsAssigned
  <2>2. HasBit(roleList'["Verifier"], u, votes) <=> HasBit(roleList["Verifier"], u, votes)
    BY <1>1, <2>1, BitsStay DEF RoleInv, TypeInv, TypeOK, verifierList
  <2> QED  BY <2>2 DEF Voted, HasBit
<1>3. \A u \in Users : /\ FeeFor(u, start_votes)' = FeeFor(u, start_votes)
                       /\ FeeFor(u, cancel_votes)' = FeeFor(u, cancel_votes)
                       /\ CompensationOf(u)' = CompensationOf(u)
  BY <1>2 DEF FeeFor, Voted, CompensationOf
<1>4. FeesMatchVotes'
  BY <1>3 DEF FeesInv, FeesMatchVotes
<1>5. BitsAssigned'
  <2>1. Len(verifierList) \in Nat /\ Len(verifierList') \in Nat /\ Len(verifierList) <= Len(verifierList')
    BY <1>1, ListGrows, VerifiersListed
  <2> QED  BY <2>1 DEF FeesInv, BitsAssigned
<1> QED  BY <1>4, <1>5

\* The fees for one mask after a vote on it, and after a vote on another question.
LEMMA FeeForVote ==
  ASSUME TypeInv, NEW v \in Users, NEW votes, votes \subseteq Nat, MayVote(v, votes), NEW u \in Users
  PROVE  /\ FeeFor(u, votes \cup {Bit(v)}) = FeeFor(u, votes) + (IF u = v THEN VerifierFee ELSE 0)
         /\ FeeFor(u, votes) \in Nat
<1>1. ~Voted(v, votes) /\ (Voted(u, votes \cup {Bit(v)}) <=> Voted(u, votes) \/ u = v)
  BY VoteCounts
<1>2. VerifierFee \in Nat
  BY Constants
<1>3. CASE u = v
  BY <1>1, <1>2, <1>3 DEF FeeFor
<1>4. CASE u # v
  BY <1>1, <1>2, <1>4 DEF FeeFor
<1> QED  BY <1>3, <1>4

LEMMA FeeTypes == ASSUME NEW u, NEW votes PROVE FeeFor(u, votes) \in Nat /\ CompensationOf(u) \in Nat
  BY Constants DEF FeeFor, CompensationOf

LEMMA StartFees ==
  ASSUME FeesInv, TypeInv', NEW v \in Users, StartTournament(v)
  PROVE  FeesMatchVotes' /\ BitsAssigned'
<1>1. /\ TypeInv /\ start_votes \subseteq Nat /\ cancel_votes \subseteq Nat
      /\ claim \in [Users -> Nat]
  BY MasksFinite DEF FeesInv, TypeInv, TypeOK
<1>2. /\ MayVote(v, start_votes) /\ start_votes' = start_votes \cup {Bit(v)}
      /\ claim' = [claim EXCEPT ![v] = @ + VerifierFee]
      /\ status = "New" /\ status' \in {"New", "Started"}
      /\ UNCHANGED <<roleVars, cancel_votes>>
  BY DEF StartTournament, Open
<1>3. ASSUME NEW u \in Users
      PROVE  claim'[u] = FeeFor(u, start_votes)' + FeeFor(u, cancel_votes)' + CompensationOf(u)'
  <2>1. /\ FeeFor(u, start_votes)' = FeeFor(u, start_votes \cup {Bit(v)})
        /\ FeeFor(u, cancel_votes)' = FeeFor(u, cancel_votes)
    BY <1>2 DEF FeeFor, Voted, roleVars
  <2>2. CompensationOf(u) = 0 /\ CompensationOf(u)' = 0
    BY <1>2 DEF CompensationOf
  <2>3. claim[u] = FeeFor(u, start_votes) + FeeFor(u, cancel_votes) + CompensationOf(u)
    BY DEF FeesInv, FeesMatchVotes
  <2>4. claim'[u] = claim[u] + (IF u = v THEN VerifierFee ELSE 0)
    BY <1>1, <1>2, Constants
  <2>5. FeeFor(u, start_votes \cup {Bit(v)}) = FeeFor(u, start_votes) + (IF u = v THEN VerifierFee ELSE 0)
    BY <1>1, <1>2, FeeForVote
  <2>6. FeeFor(u, start_votes) \in Nat /\ FeeFor(u, cancel_votes) \in Nat
    BY FeeTypes
  <2> DEFINE a == FeeFor(u, start_votes)
             b == FeeFor(u, cancel_votes)
             d == IF u = v THEN VerifierFee ELSE 0
  <2>7. /\ a \in Nat /\ b \in Nat /\ d \in Nat /\ claim[u] = a + b + 0
        /\ claim'[u] = claim[u] + d
    BY <2>2, <2>3, <2>4, <2>6, Constants
  <2>8. FeeFor(u, start_votes)' = a + d /\ FeeFor(u, cancel_votes)' = b
    BY <2>1, <2>5
  <2> HIDE DEF a, b, d
  <2> QED  BY <2>2, <2>7, <2>8
<1>4. BitsAssigned'
  <2>1. Bit(v) \in Nat /\ Bit(v) < Len(verifierList)
    BY <1>1, <1>2, VoteCounts
  <2> QED  BY <1>2, <2>1 DEF FeesInv, BitsAssigned, roleVars, verifierList
<1> QED  BY <1>3, <1>4 DEF FeesMatchVotes

LEMMA CancelFees ==
  ASSUME FeesInv, TypeInv', NEW v \in Users, CancelTournament(v)
  PROVE  FeesMatchVotes' /\ BitsAssigned'
<1>1. /\ TypeInv /\ start_votes \subseteq Nat /\ cancel_votes \subseteq Nat
      /\ claim \in [Users -> Nat] /\ Organizer \in Users
  BY MasksFinite, ConfigAssumption DEF FeesInv, TypeInv, TypeOK
<1> DEFINE more == IF Quorum(cancel_votes') THEN PlatformFee ELSE 0
<1>2. /\ MayVote(v, cancel_votes) /\ cancel_votes' = cancel_votes \cup {Bit(v)}
      /\ claim' = [claim EXCEPT ![v] = @ + VerifierFee, ![Organizer] = claim[Organizer] + more]
      /\ status = "New" /\ status' = IF Quorum(cancel_votes') THEN "Canceled" ELSE "New"
      /\ UNCHANGED <<roleVars, start_votes>>
  BY DEF CancelTournament, Open
<1>3. v # Organizer
  BY <1>1, <1>2, VerifiersListed DEF FeesInv, MayVote
<1>4. ASSUME NEW u \in Users
      PROVE  claim'[u] = FeeFor(u, start_votes)' + FeeFor(u, cancel_votes)' + CompensationOf(u)'
  <2>1. /\ FeeFor(u, cancel_votes)' = FeeFor(u, cancel_votes \cup {Bit(v)})
        /\ FeeFor(u, start_votes)' = FeeFor(u, start_votes)
    BY <1>2 DEF FeeFor, Voted, roleVars
  <2> DEFINE a == FeeFor(u, start_votes)
             b == FeeFor(u, cancel_votes)
             d == IF u = v THEN VerifierFee ELSE 0
             e == IF u = Organizer THEN more ELSE 0
  <2>2. CompensationOf(u) = 0 /\ CompensationOf(u)' = e
    BY <1>2 DEF CompensationOf
  <2>3. claim[u] = a + b + 0
    BY <2>2 DEF FeesInv, FeesMatchVotes
  <2>4. a \in Nat /\ b \in Nat /\ d \in Nat /\ e \in Nat
    BY FeeTypes, Constants
  <2>5. claim'[u] = claim[u] + d + e
    <3>1. VerifierFee \in Nat /\ more \in Nat /\ claim[u] \in Nat
      BY <1>1, Constants
    <3> HIDE DEF more
    <3>2. CASE u = Organizer
      BY <1>1, <1>2, <1>3, <3>1, <3>2
    <3>3. CASE u # Organizer
      BY <1>1, <1>2, <1>3, <3>1, <3>3
    <3> QED  BY <3>2, <3>3
  <2>6. FeeFor(u, cancel_votes \cup {Bit(v)}) = FeeFor(u, cancel_votes) + (IF u = v THEN VerifierFee ELSE 0)
    BY <1>1, <1>2, FeeForVote
  <2>7. FeeFor(u, cancel_votes)' = b + d /\ FeeFor(u, start_votes)' = a
    BY <2>1, <2>6
  <2> HIDE DEF a, b, d, e
  <2> QED  BY <2>2, <2>3, <2>4, <2>5, <2>7
<1>5. BitsAssigned'
  <2>1. Bit(v) \in Nat /\ Bit(v) < Len(verifierList)
    BY <1>1, <1>2, VoteCounts
  <2> QED  BY <1>2, <2>1 DEF FeesInv, BitsAssigned, roleVars, verifierList
<1> QED  BY <1>4, <1>5 DEF FeesMatchVotes
\* Nobody makes the organizer a verifier.
LEMMA OrganizerNoVerifier ==
  ASSUME Impartial, FeesInv, TypeInv', [Next]_vars, ~Administer => UNCHANGED roleVars
  PROVE  Organizer \notin ToSet(verifierList')
<1>1. Organizer \in Users /\ "Verifier" \notin roles[Organizer] /\ roles \in [Users -> SUBSET Role]
  BY ConfigAssumption, VerifiersListed DEF FeesInv, TypeInv, TypeOK, RoleTypeOK
<1>2. ToSet(verifierList') = {u \in Users : "Verifier" \in roles'[u]}
  BY DEF TypeInv, ListsMatchRoles, verifierList, Role
<1>3. CASE \E g \in Grants : GrantRole(g[1], g[2])
  <2>1. PICK g \in Grants : GrantRole(g[1], g[2])
    BY <1>3
  <2>2. g = <<g[1], g[2]>> /\ g[1] \in Users
    BY ConfigAssumption
  <2>3. roles' = [roles EXCEPT ![g[1]] = @ \cup {g[2]}]
    BY <2>1 DEF GrantRole
  <2>4. "Verifier" \notin roles'[Organizer]
    BY <1>1, <2>2, <2>3 DEF Impartial
  <2> QED  BY <1>2, <2>4
<1>4. CASE \E g \in Revokes : RevokeRole(g[1], g[2])
  <2>1. PICK g \in Revokes : RevokeRole(g[1], g[2])
    BY <1>4
  <2>2. "Verifier" \notin roles'[Organizer]
    BY <1>1, <2>1, ConfigAssumption DEF RevokeRole
  <2> QED  BY <1>2, <2>2
<1>5. CASE ~Administer
  BY <1>1, <1>2, <1>5 DEF roleVars
<1> QED  BY <1>3, <1>4, <1>5 DEF Administer

LEMMA StepFeesInv == NoDismissals /\ Impartial /\ FeesInv /\ [Next]_vars => FeesInv'
<1> SUFFICES ASSUME NoDismissals, Impartial, FeesInv, [Next]_vars PROVE FeesInv'
  OBVIOUS
<1>1. TypeInv /\ TypeInv'
  BY StepTypeInv DEF FeesInv
<1>2. VerifiersGrow /\ (~Administer => UNCHANGED roleVars)
  BY <1>1, StepVerifiersGrow
<1>3. Organizer \notin ToSet(verifierList')
  BY <1>1, <1>2, OrganizerNoVerifier
<1>4. FeesMatchVotes' /\ BitsAssigned'
  <2>1. CASE \E v \in Users : StartTournament(v)
    BY <1>1, <2>1, StartFees
  <2>2. CASE \E v \in Users : CancelTournament(v)
    BY <1>1, <2>2, CancelFees
  <2>3. CASE \E v \in Users, c \in Players, o \in CutAccounts : FinishTournament(v, c, o)
    <3>1. /\ UNCHANGED <<claim, start_votes, cancel_votes, roleVars>>
          /\ status = "Started" /\ status' \in {"Started", "Finished"}
      BY <2>3 DEF FinishTournament, startVars
    <3>2. \A u : CompensationOf(u) = 0 /\ CompensationOf(u)' = 0
      BY <3>1 DEF CompensationOf
    <3>3. \A u : /\ FeeFor(u, start_votes)' = FeeFor(u, start_votes)
                 /\ FeeFor(u, cancel_votes)' = FeeFor(u, cancel_votes)
      BY <3>1 DEF FeeFor, Voted, roleVars
    <3>4. FeesMatchVotes'
      BY <3>1, <3>2, <3>3 DEF FeesInv, FeesMatchVotes
    <3> QED  BY <3>1, <3>4 DEF FeesInv, BitsAssigned, verifierList, roleVars
  <2>4. CASE Administer \/ Register \/ Payout \/ UNCHANGED vars
    <3>1. UNCHANGED <<claim, status, start_votes, cancel_votes>>
      BY <2>4, RegisterKeeps DEF vars, Administer, Payout, ClaimRefund, ClaimReward, PaySeat,
                                 ClaimSponsorRefund, startVars
    <3> QED  BY <1>1, <1>2, <3>1, QuietFees
  <2> QED  BY <2>1, <2>2, <2>3, <2>4 DEF Next, Vote
<1> QED  BY <1>1, <1>3, <1>4 DEF FeesInv

\* Every recorded vote to start or to cancel has earned its verifier one fee, and
\* nobody else earns one: an appointment in between disturbs no one's account.
THEOREM FeesAreForVotes == ASSUME NoDismissals, Impartial PROVE Spec => []FeesMatchVotes
<1>1. Init => FeesInv
  <2> SUFFICES ASSUME Init PROVE FeesInv
    OBVIOUS
  <2>1. TypeInv /\ verifierList = InitVerifiers
    BY InitTypeInv DEF Init, verifierList, Role
  <2>2. ASSUME NEW u \in Users
        PROVE  claim[u] = FeeFor(u, start_votes) + FeeFor(u, cancel_votes) + CompensationOf(u)
    BY DEF Init, FeeFor, Voted, CompensationOf
  <2> QED  BY <2>1, <2>2 DEF Init, FeesInv, FeesMatchVotes, BitsAssigned, Impartial
<1>2. FeesInv /\ [Next]_vars => FeesInv'
  BY StepFeesInv
<1>3. FeesInv => FeesMatchVotes
  BY DEF FeesInv
<1> QED  BY <1>1, <1>2, <1>3, PTL DEF Spec
-----------------------------------------------------------------------------
(***************************************************************************)
(* The tournament as a book of the platform.                               *)
(***************************************************************************)
\* A full team has as many seats as a team can have.
LEMMA TeamsWithinSeats == SeatInv => team_count * TeamSize <= Cardinality(Seats)
<1> SUFFICES ASSUME SeatInv PROVE team_count * TeamSize <= Cardinality(Seats)
  OBVIOUS
<1> DEFINE full == CompletedTeams \X (1..TeamSize)
<1>1. full \subseteq Seats
  <2> SUFFICES ASSUME NEW c \in CompletedTeams, NEW i \in 1..TeamSize PROVE <<c, i>> \in Seats
    OBVIOUS
  <2>1. c \in Players /\ teams[c].completed /\ teams[c].team_size \in {0, TeamSize}
    BY TeamTypes DEF SeatInv, CompletedTeams, Team
  <2>2. Len(teams[c].participants) = TeamSize
    BY <2>1 DEF SeatInv, TeamCountExact
  <2> QED  BY <2>1, <2>2, TeamTypes, PositionIsSeat DEF SeatInv
<1>2. IsFiniteSet(1..TeamSize) /\ Cardinality(1..TeamSize) = TeamSize
  BY FS_Interval, Constants
<1>3. IsFiniteSet(CompletedTeams) /\ Cardinality(CompletedTeams) = team_count
  BY CompletedTeamsFinite DEF SeatInv, TeamCountExact
<1>4. Cardinality(full) = team_count * TeamSize
  BY <1>2, <1>3, FS_Product
<1>5. Cardinality(full) <= Cardinality(Seats)
  <2> HIDE DEF full
  <2> QED  BY <1>1, FiniteSeats, FS_Subset
<1> QED  BY <1>4, <1>5

\* What the platform knows of a tournament stays within its places.
LEMMA WithinPlacesNext ==
  (SeatInv => /\ team_count * TeamSize <= Cardinality(Seats)
              /\ Cardinality(Seats) \in Nat /\ Cardinality(Seats) <= MaxTeams * TeamSize)'
<1>1. SeatInv => /\ team_count * TeamSize <= Cardinality(Seats)
                 /\ Cardinality(Seats) \in Nat /\ Cardinality(Seats) <= MaxTeams * TeamSize
  <2> SUFFICES ASSUME SeatInv
               PROVE  /\ team_count * TeamSize <= Cardinality(Seats)
                      /\ Cardinality(Seats) \in Nat /\ Cardinality(Seats) <= MaxTeams * TeamSize
    OBVIOUS
  <2>1. /\ Cardinality(Seats) \in Nat /\ Cardinality(bloom) \in Nat
        /\ Cardinality(Seats) <= Cardinality(bloom) /\ Cardinality(bloom) <= BloomCapacity
    BY FiniteSeats, FS_CardinalityType DEF SeatInv, FilterFits
  <2> DEFINE places == MaxTeams * TeamSize
  <2>2. places \in Nat /\ BloomCapacity = places
    BY Constants, NatProduct DEF BloomCapacity
  <2> HIDE DEF places
  <2>3. Cardinality(Seats) <= places
    BY <2>1, <2>2
  <2> QED  BY <2>1, <2>3, TeamsWithinSeats DEF places
<1> QED  BY <1>1, PTL

\* What StepsKeepBook says of one step.
KeepsBook ==
  \/ book' = book
  \/ CanRegister(book) /\ book' \in Registered(book, TeamSize, MaxTeams * TeamSize)
  \/ \E v \in Users : \/ CanStart(book, v) /\ book' = Start(book, v)
                      \/ CanCancel(book, v) /\ book' = Cancel(book, v)

BookWith(phase, seats, full, start, cancel) ==
  [status |-> phase, seats |-> seats, team_count |-> full,
   start_votes |-> start, cancel_votes |-> cancel]

BookAfter(b, seats, full) == [b EXCEPT !.seats = seats, !.team_count = full]

LEMMA BookGrown ==
  ASSUME NEW phase, NEW seats, NEW full, NEW start, NEW cancel, NEW newSeats, NEW newFull
  PROVE  BookWith(phase, newSeats, newFull, start, cancel)
           = BookAfter(BookWith(phase, seats, full, start, cancel), newSeats, newFull)
<1> DEFINE old == BookWith(phase, seats, full, start, cancel)
           mid == BookWith(phase, newSeats, full, start, cancel)
           new == BookWith(phase, newSeats, newFull, start, cancel)
<1>1. mid = [old EXCEPT !.seats = newSeats]
  BY DEF BookWith
<1>2. new = [mid EXCEPT !.team_count = newFull]
  BY DEF BookWith
<1> HIDE DEF old, mid, new
<1>3. [old EXCEPT !.seats = newSeats, !.team_count = newFull]
        = [[old EXCEPT !.seats = newSeats] EXCEPT !.team_count = newFull]
  BY Zenon
<1> QED  BY <1>1, <1>2, <1>3 DEF old, new, BookAfter

\* A registration fills one seat or more of one team, and may complete it.
LEMMA EnterKeepsBook ==
  ASSUME SeatInv, SeatInv', NEW signer \in Players, NEW p \in Players,
         NEW keys \in Seq(Players), NEW n \in Nat, NEW c \in Players, NEW team,
         Entered(signer, p, keys, n, c, team)
  PROVE  CanRegister(book) /\ book' \in Registered(book, TeamSize, MaxTeams * TeamSize)
<1> DEFINE k == IF team.completed THEN 1 ELSE 0
           seats == Cardinality(Seats)
           places == MaxTeams * TeamSize
<1>1. n \in 1..TeamSize
  <2> DEFINE a == Len(teams[c].participants)
             b == Len(team.participants)
  <2>1. a \in Nat /\ b \in Nat /\ b > a /\ b = a + n /\ b <= TeamSize
    BY TeamTypes DEF Entered, SeatInv, Grows, OwedTo, SoundTeam, Team
  <2>2. TeamSize \in Nat
    BY Constants
  <2> HIDE DEF a, b
  <2> QED  BY <2>1, <2>2
<1>2. /\ Seats' = Seats \cup Added(c, team) /\ Seats \cap Added(c, team) = {}
      /\ IsFiniteSet(Added(c, team)) /\ Cardinality(Added(c, team)) = n
  BY EnterUnsettled
<1>3. seats \in Nat /\ Cardinality(Seats') = seats + n
  <2>1. Cardinality(Seats \cup Added(c, team))
          = Cardinality(Seats) + Cardinality(Added(c, team)) - Cardinality({})
    BY <1>2, FiniteSeats, FS_Union
  <2> QED  BY <1>2, <2>1, FiniteSeats, FS_EmptySet
<1>4. team_count \in Nat /\ k \in {0, 1} /\ team_count' = team_count + k
  BY DEF Entered, Enter, SeatInv, TypeInv, TypeOK
<1>5. seats + n <= places /\ (team_count + k) * TeamSize <= seats + n
  BY <1>3, <1>4, WithinPlacesNext
<1>6. status = "New" /\ UNCHANGED <<status, start_votes, cancel_votes>>
  BY DEF Entered, Enter, Open, startVars
<1>7. /\ book.status = "New" /\ book.seats = seats /\ book.team_count = team_count
      /\ book.start_votes = start_votes /\ book.cancel_votes = cancel_votes
  BY <1>6 DEF book
<1>8. book' = [book EXCEPT !.seats = seats + n, !.team_count = team_count + k]
  <2>1. book = BookWith("New", seats, team_count, start_votes, cancel_votes)
    BY <1>6 DEF book, BookWith
  <2>2. book' = BookWith("New", seats + n, team_count + k, start_votes, cancel_votes)
    BY <1>3, <1>4, <1>6 DEF book, BookWith
  <2> DEFINE more == seats + n
             full == team_count + k
  <2>3. book' = BookWith("New", more, full, start_votes, cancel_votes)
    BY <2>2
  <2> HIDE DEF k, seats, places, more, full
  <2>4. book' = BookAfter(book, more, full)
    BY <2>1, <2>3, BookGrown
  <2>5. book' = [book EXCEPT !.seats = more, !.team_count = full]
    BY <2>4 DEF BookAfter
  <2> QED  BY <2>5 DEF more, full
<1> DEFINE m == <<n, k>>
<1>9. /\ m \in (1..TeamSize) \X {0, 1}
      /\ book.seats + m[1] <= places
      /\ (book.team_count + m[2]) * TeamSize <= book.seats + m[1]
  BY <1>1, <1>4, <1>5, <1>7
<1>10. book' = [book EXCEPT !.seats = @ + m[1], !.team_count = @ + m[2]]
  BY <1>7, <1>8
<1> HIDE DEF m, k, seats, places
<1>11. book' \in Registered(book, TeamSize, places)
  BY <1>9, <1>10 DEF Registered
<1> QED  BY <1>7, <1>11 DEF CanRegister, places

LEMMA VoteKeepsBook ==
  ASSUME SeatInv, NEW v \in Users, StartTournament(v) \/ CancelTournament(v)
  PROVE  \/ CanStart(book, v) /\ book' = Start(book, v)
         \/ CanCancel(book, v) /\ book' = Cancel(book, v)
<1>1. status = "New" /\ UNCHANGED <<teams, team_count, roleVars>>
  BY DEF StartTournament, CancelTournament, Open, entryVars
<1>2. Seats' = Seats
  BY <1>1, SameTeams
<1>3. /\ book.status = "New" /\ book.seats = Cardinality(Seats) /\ book.team_count = team_count
      /\ book.start_votes = start_votes /\ book.cancel_votes = cancel_votes
  BY <1>1 DEF book
<1>4. CASE StartTournament(v)
  <2>1. /\ team_count # 0 /\ MayVote(v, start_votes)
        /\ start_votes' = start_votes \cup {Bit(v)} /\ cancel_votes' = cancel_votes
        /\ status' = IF Quorum(start_votes \cup {Bit(v)}) THEN "Started" ELSE "New"
    BY <1>1, <1>4 DEF StartTournament
  <2>2. CanStart(book, v)
    BY <1>3, <2>1 DEF CanStart
  <2> DEFINE votes == start_votes \cup {Bit(v)}
             phase == IF Quorum(votes) THEN "Started" ELSE "New"
             seats == Cardinality(Seats)
  <2>3. book = BookWith("New", seats, team_count, start_votes, cancel_votes)
    BY <1>1 DEF book, BookWith
  <2>4. book' = BookWith(phase, seats, team_count, votes, cancel_votes)
    BY <1>1, <1>2, <2>1 DEF book, BookWith
  <2>5. Start(book, v) = [book EXCEPT !.start_votes = votes, !.status = phase]
    BY <1>3 DEF Start
  <2> HIDE DEF votes, phase, seats
  <2>6. book' = Start(book, v)
    BY <2>3, <2>4, <2>5 DEF BookWith
  <2> QED  BY <2>2, <2>6
<1>5. CASE CancelTournament(v)
  <2>1. /\ MayVote(v, cancel_votes)
        /\ cancel_votes' = cancel_votes \cup {Bit(v)} /\ start_votes' = start_votes
        /\ status' = IF Quorum(cancel_votes \cup {Bit(v)}) THEN "Canceled" ELSE "New"
    BY <1>1, <1>5 DEF CancelTournament
  <2>2. CanCancel(book, v)
    BY <1>3, <2>1 DEF CanCancel
  <2> DEFINE votes == cancel_votes \cup {Bit(v)}
             phase == IF Quorum(votes) THEN "Canceled" ELSE "New"
             seats == Cardinality(Seats)
  <2>3. book = BookWith("New", seats, team_count, start_votes, cancel_votes)
    BY <1>1 DEF book, BookWith
  <2>4. book' = BookWith(phase, seats, team_count, start_votes, votes)
    BY <1>1, <1>2, <2>1 DEF book, BookWith
  <2>5. Cancel(book, v) = [book EXCEPT !.cancel_votes = votes, !.status = phase]
    BY <1>3 DEF Cancel
  <2> HIDE DEF votes, phase, seats
  <2>6. book' = Cancel(book, v)
    BY <2>3, <2>4, <2>5 DEF BookWith
  <2> QED  BY <2>2, <2>6
<1> QED  BY <1>4, <1>5

LEMMA StepKeepsBook ==
  ASSUME SeatInv, SeatInv', [Next]_vars
  PROVE  KeepsBook
<1>1. CASE Register
  BY <1>1, RegistrationEnters, EnterKeepsBook DEF KeepsBook
<1>2. ASSUME NEW p \in Players, NEW c \in Players, NEW amount, PaySeat(p, c, amount)
      PROVE  KeepsBook
  <2>1. Seats' = Seats
    BY <1>2, PaySeatUnsettled
  <2> QED  BY <1>2, <2>1 DEF PaySeat, KeepsBook, book, startVars
<1>3. CASE \E v \in Users, c \in Players, o \in CutAccounts : FinishTournament(v, c, o)
  <2>1. /\ UNCHANGED <<teams, team_count, start_votes, cancel_votes>>
        /\ status = "Started" /\ status' \in {"Started", "Finished"}
    BY <1>3 DEF FinishTournament, entryVars, startVars
  <2> QED  BY <2>1, SameTeams DEF KeepsBook, book
<1>4. CASE \E v \in Users : StartTournament(v) \/ CancelTournament(v)
  BY <1>4, VoteKeepsBook DEF KeepsBook
<1>5. CASE Administer \/ ClaimSponsorRefund \/ UNCHANGED vars
  <2>1. UNCHANGED <<status, teams, team_count, start_votes, cancel_votes>>
    BY <1>5 DEF Administer, ClaimSponsorRefund, vars, entryVars, startVars
  <2> QED  BY <2>1, SameTeams DEF KeepsBook, book
<1> QED
  BY <1>1, <1>2, <1>3, <1>4, <1>5 DEF Next, Vote, Payout, ClaimRefund, ClaimReward

\* What the platform is told of a tournament is all there is to know of it: every
\* step of the tournament is one of the book, or none, whatever the constants.
THEOREM TournamentKeepsBook == Spec => StepsKeepBook
<1>1. SeatInv /\ SeatInv' /\ [Next]_vars => [KeepsBook]_vars
  BY StepKeepsBook
<1> QED
  BY <1>1, InitSeatInv, StepSeatInv, PTL DEF Spec, StepsKeepBook, KeepsBook
=============================================================================
