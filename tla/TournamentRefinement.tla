------------------------ MODULE TournamentRefinement ------------------------
(***************************************************************************)
(* The tournament, seat by seat and vote by vote, implements two simpler   *)
(* specifications: the escrow its players and its sponsor rely on, and the *)
(* book from which the accounts of the platform are served.                *)
(***************************************************************************)
EXTENDS TournamentProperties, TournamentBook

\* The seats whose fee is refundable: the creditor has not settled, and after the
\* final only those of incomplete teams.
OpenSeats == {s \in Unsettled : status = "Finished" => ~teams[s[1]].completed}

\* After the final: the members of the winning team that have not settled.
UnpaidWinners ==
  {p \in Players : /\ status = "Finished"
                   /\ captain_winner \in Players
                   /\ CanSettle(teams[captain_winner], p)}

Escrow ==
  INSTANCE PrizeEscrow WITH
    Holders <- Players,
    Places <- Players \X (1..TeamSize),
    Fee <- EntryFee,
    Contribution <- SponsorPool,
    Funds <- PlayerFunds,
    phase <- status,
    tickets <- {<<s, Creditor(s)>> : s \in OpenSeats},
    winners <- UnpaidWinners,
    prize <- reward,
    contribution <- IF status = "Finished" THEN 0 ELSE SponsorPool - sponsorPaid

\* With a sponsor that asks once, the tournament is such an escrow: everything
\* paid out is a refund of the tickets a player holds, its prize as a winner, the
\* contribution or the organizer's share, each drawn once, and what the last
\* vote on the winner leaves in the pool covers all that is due.
IsEscrow == Escrow!Spec
-----------------------------------------------------------------------------
book ==
  [status |-> IF status = "Finished" THEN "Started" ELSE status,
   seats |-> Cardinality(Seats), team_count |-> team_count,
   start_votes |-> start_votes, cancel_votes |-> cancel_votes]

\* Every step of a tournament is, for the platform, a registration within the
\* places of the filter, a vote to start or to cancel, or nothing: a team is
\* counted only when a registration fills it, and no payout, late registration or
\* vote on the winner reaches the book.
StepsKeepBook ==
  [][\/ book' = book
     \/ CanRegister(book) /\ book' \in Registered(book, TeamSize, MaxTeams * TeamSize)
     \/ \E v \in Users : \/ CanStart(book, v) /\ book' = Start(book, v)
                         \/ CanCancel(book, v) /\ book' = Cancel(book, v)]_vars
=============================================================================
