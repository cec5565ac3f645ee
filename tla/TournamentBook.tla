--------------------------- MODULE TournamentBook ---------------------------
(***************************************************************************)
(* A tournament as the accounts of the platform see it: how far it is, how *)
(* many seats are taken and teams full, and who has voted to start or to   *)
(* cancel it.                                                              *)
(*                                                                         *)
(* Votes on the winner and payouts touch no account of the platform, so    *)
(* that a book ends at Started or Canceled.  The operators give the book   *)
(* after an instruction; who called it, and the terms, are parameters.     *)
(***************************************************************************)
EXTENDS Consensus

Book == [status : {"New", "Started", "Canceled"},
         seats : Nat, team_count : Nat,
         start_votes : SUBSET Nat, cancel_votes : SUBSET Nat]

NewBook == [status |-> "New", seats |-> 0, team_count |-> 0,
            start_votes |-> {}, cancel_votes |-> {}]

\* The books that a registration can lead to: it fills one seat or more of one
\* team of that size, and may complete this team.
Registered(b, size, places) ==
  {[b EXCEPT !.seats = @ + n[1], !.team_count = @ + n[2]] :
     n \in {m \in (1..size) \X {0, 1} :
        /\ b.seats + m[1] <= places
        /\ (b.team_count + m[2]) * size <= b.seats + m[1]}}

CanRegister(b) == b.status = "New"

CanStart(b, v) == b.status = "New" /\ b.team_count # 0 /\ MayVote(v, b.start_votes)

Start(b, v) ==
  LET votes == b.start_votes \cup {Bit(v)}
  IN [b EXCEPT !.start_votes = votes, !.status = IF Quorum(votes) THEN "Started" ELSE @]

CanCancel(b, v) == b.status = "New" /\ MayVote(v, b.cancel_votes)

Cancel(b, v) ==
  LET votes == b.cancel_votes \cup {Bit(v)}
  IN [b EXCEPT !.cancel_votes = votes, !.status = IF Quorum(votes) THEN "Canceled" ELSE @]
=============================================================================
