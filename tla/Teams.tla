------------------------------- MODULE Teams --------------------------------
(***************************************************************************)
(* Team accounts: the seats of a team, to whom their fees are owed and     *)
(* what has been settled (team.rs), as pure operators.                     *)
(*                                                                         *)
(* The account of a team lies at an address derived from its captain, and  *)
(* Team::new stores the same captain in it, so the captain is a parameter  *)
(* c of the operators here and not a field of the record.  An operator     *)
(* whose name starts with Can is the condition under which the method of   *)
(* the same name returns Ok.                                               *)
(***************************************************************************)
EXTENDS Naturals, Sequences, SequencesExt, FiniteSets

CONSTANTS Players,     \* the keys that may register
          TeamSize     \* TournamentConfig.team_size

ASSUME TeamSizeAssumption == TeamSize \in Nat

Seat == [pubkey : Players, paid_by_captain : BOOLEAN, claimed : BOOLEAN]
Team == [participants : Seq(Seat), team_size : {0, TeamSize}, completed : BOOLEAN]

\* The zeroed account that init_if_needed makes for a captain nobody registered.
NoTeam == [participants |-> <<>>, team_size |-> 0, completed |-> FALSE]

\* Team::new
NewTeam == [participants |-> <<>>, team_size |-> TeamSize, completed |-> FALSE]
-----------------------------------------------------------------------------
NewSeat(p, byCaptain) == [pubkey |-> p, paid_by_captain |-> byCaptain, claimed |-> FALSE]

\* A faulty variant for the mutation runs: a team is completed one seat early.
WithSeatsEarly(team, seats) ==
  LET all == team.participants \o seats
  IN [team EXCEPT !.participants = all,
                  !.completed = @ \/ Len(all) + 1 >= team.team_size]

\* The end of both add methods: the seats are pushed, a full team is completed.
WithSeats(team, seats) ==
  LET all == team.participants \o seats
  IN [team EXCEPT !.participants = all,
                  !.completed = @ \/ Len(all) = team.team_size]

CanAddParticipantsByCaptain(team, ps) ==
  Len(team.participants) + Len(ps) <= team.team_size

AddParticipantsByCaptain(team, ps) ==
  WithSeats(team, [i \in DOMAIN ps |-> NewSeat(ps[i], TRUE)])

\* Faulty: a player may join any team, full or not yet founded.
CanAddParticipantAlways(team) == TRUE

CanAddParticipant(team) == Len(team.participants) # team.team_size

AddParticipant(team, p) == WithSeats(team, <<NewSeat(p, FALSE)>>)
-----------------------------------------------------------------------------
IsSeated(team, p) == \E i \in DOMAIN team.participants : team.participants[i].pubkey = p

\* participants.iter_mut().find(..): the first seat of p.
SeatOf(team, p) ==
  CHOOSE i \in DOMAIN team.participants :
    /\ team.participants[i].pubkey = p
    /\ \A j \in DOMAIN team.participants : team.participants[j].pubkey = p => i <= j

\* p has a seat and has not been paid for it: the checks that refund_participant
\* and reward_participant share.
CanSettle(team, p) == IsSeated(team, p) /\ ~team.participants[SeatOf(team, p)].claimed

\* Faulty: the flag is not set.
SettleNothing(team, p) == team

\* The flag the two methods share: a seat is settled once, by refund or reward.
Settle(team, p) == [team EXCEPT !.participants[SeatOf(team, p)].claimed = TRUE]

\* Faulty: the captain gets the fees of the whole team, or only its own.
RefundCountWholeTeam(c, team, p) ==
  IF ~team.participants[SeatOf(team, p)].paid_by_captain THEN 1
  ELSE IF p # c THEN 0 ELSE Len(team.participants)

RefundCountOwnSeat(c, team, p) ==
  IF ~team.participants[SeatOf(team, p)].paid_by_captain \/ p = c THEN 1 ELSE 0

\* What refund_participant returns: the entry fees p gets back from the team of c.
RefundCount(c, team, p) ==
  IF ~team.participants[SeatOf(team, p)].paid_by_captain THEN 1
  ELSE IF p # c THEN 0
  ELSE Cardinality({i \in DOMAIN team.participants : team.participants[i].paid_by_captain})
=============================================================================
