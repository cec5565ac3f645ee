---------------------------- MODULE TeamsProofs -----------------------------
(***************************************************************************)
(* What the operations of a team account return, for any set of players    *)
(* and any team size.                                                      *)
(***************************************************************************)
EXTENDS Teams, SequenceTheorems, FiniteSetTheorems, TLAPS

\* A sequence of one element, and the image of a sequence.
LEMMA OneElement ==
  ASSUME NEW S, NEW x \in S
  PROVE  <<x>> \in Seq(S) /\ Len(<<x>>) = 1
  OBVIOUS

LEMMA MappedSequence ==
  ASSUME NEW S, NEW n \in Nat, NEW f, DOMAIN f = 1..n, f = [i \in 1..n |-> f[i]],
         \A i \in 1..n : f[i] \in S
  PROVE  f \in Seq(S) /\ Len(f) = n
  OBVIOUS

\* A seat whose claimed flag is set is a seat.
LEMMA ClaimedSeat ==
  ASSUME NEW seat \in Seat
  PROVE  LET new == [seat EXCEPT !.claimed = TRUE] IN
         /\ new \in Seat /\ new.claimed
         /\ new.pubkey = seat.pubkey /\ new.paid_by_captain = seat.paid_by_captain
  BY DEF Seat

\* A team account whose seats do not exceed its size.
SoundTeam(team) == team \in Team /\ Len(team.participants) <= team.team_size

LEMMA NoTeamSound == SoundTeam(NoTeam)
  BY TeamSizeAssumption DEF SoundTeam, NoTeam, Team, Seat

LEMMA NewTeamSound == SoundTeam(NewTeam)
  BY TeamSizeAssumption DEF SoundTeam, NewTeam, Team, Seat

\* Pushing seats that fit leaves the seats that were there where they are.
LEMMA WithSeatsSound ==
  ASSUME NEW team \in Team, NEW seats \in Seq(Seat),
         Len(team.participants) + Len(seats) <= team.team_size
  PROVE  LET new == WithSeats(team, seats) IN
         /\ SoundTeam(new)
         /\ new.team_size = team.team_size
         /\ new.participants = team.participants \o seats
         /\ Len(new.participants) = Len(team.participants) + Len(seats)
         /\ new.completed = (team.completed \/ Len(new.participants) = team.team_size)
<1> DEFINE all == team.participants \o seats
<1>1. /\ team.participants \in Seq(Seat) /\ team.team_size \in {0, TeamSize}
      /\ team.completed \in BOOLEAN
  BY DEF Team
<1>2. all \in Seq(Seat) /\ Len(all) = Len(team.participants) + Len(seats)
  BY <1>1, ConcatProperties
<1> HIDE DEF all
<1> DEFINE full == team.completed \/ Len(all) = team.team_size
           new == [team EXCEPT !.participants = all, !.completed = full]
<1>3. WithSeats(team, seats) = new
  BY DEF WithSeats, all
<1>4. full \in BOOLEAN
  OBVIOUS
<1> HIDE DEF full
<1>5. /\ new \in Team /\ new.participants = all /\ new.team_size = team.team_size
      /\ new.completed = full
  BY <1>1, <1>2, <1>4 DEF Team
<1> HIDE DEF new
<1> QED
  BY <1>2, <1>3, <1>5 DEF SoundTeam, all, full

\* A captain registers with its teammates: one seat each, all paid by the captain.
LEMMA CaptainTeamSound ==
  ASSUME NEW ps \in Seq(Players), CanAddParticipantsByCaptain(NewTeam, ps)
  PROVE  LET new == AddParticipantsByCaptain(NewTeam, ps) IN
         /\ SoundTeam(new)
         /\ new.team_size = TeamSize
         /\ new.participants = [i \in 1..Len(ps) |-> NewSeat(ps[i], TRUE)]
         /\ Len(new.participants) = Len(ps)
         /\ new.completed = (Len(ps) = TeamSize)
<1> DEFINE seats == [i \in DOMAIN ps |-> NewSeat(ps[i], TRUE)]
<1>1. DOMAIN ps = 1..Len(ps) /\ Len(ps) \in Nat
  OBVIOUS
<1>2. \A i \in 1..Len(ps) : NewSeat(ps[i], TRUE) \in Seat
  BY DEF NewSeat, Seat
<1>3. seats \in Seq(Seat) /\ Len(seats) = Len(ps)
  <2>1. DOMAIN seats = 1..Len(ps) /\ \A i \in 1..Len(ps) : seats[i] \in Seat
    BY <1>1, <1>2
  <2>2. seats = [i \in 1..Len(ps) |-> seats[i]]
    BY <1>1
  <2> HIDE DEF seats
  <2> QED  BY <1>1, <2>1, <2>2, MappedSequence
<1>8. seats = [i \in 1..Len(ps) |-> NewSeat(ps[i], TRUE)]
  BY <1>1
<1> HIDE DEF seats
<1>4. NewTeam \in Team /\ Len(NewTeam.participants) = 0 /\ NewTeam.team_size = TeamSize
      /\ NewTeam.completed = FALSE /\ NewTeam.participants = <<>>
  BY NewTeamSound DEF SoundTeam, NewTeam
<1>5. Len(NewTeam.participants) + Len(seats) <= NewTeam.team_size
  BY <1>1, <1>3, <1>4 DEF CanAddParticipantsByCaptain
<1>6. <<>> \o seats = seats
  BY <1>3, ConcatEmptySeq
<1>7. AddParticipantsByCaptain(NewTeam, ps) = WithSeats(NewTeam, seats)
  BY DEF AddParticipantsByCaptain, seats
<1> DEFINE new == WithSeats(NewTeam, seats)
<1>9. /\ SoundTeam(new) /\ new.team_size = TeamSize /\ new.participants = seats
      /\ Len(new.participants) = Len(ps)
      /\ new.completed = (Len(ps) = TeamSize)
  <2>1. /\ SoundTeam(new) /\ new.team_size = NewTeam.team_size
        /\ new.participants = NewTeam.participants \o seats
        /\ new.completed = (NewTeam.completed \/ Len(new.participants) = NewTeam.team_size)
    BY <1>3, <1>4, <1>5, WithSeatsSound
  <2> HIDE DEF new
  <2>2. new.participants = seats
    BY <2>1, <1>4, <1>6
  <2>3. new.completed = (Len(ps) = TeamSize)
    BY <2>1, <2>2, <1>3, <1>4
  <2> QED  BY <2>1, <2>2, <2>3, <1>3, <1>4
<1> QED
  BY <1>7, <1>8, <1>9

\* A player joins: one more seat, paid by itself.
LEMMA JoinedTeamSound ==
  ASSUME NEW team, SoundTeam(team), NEW p \in Players, CanAddParticipant(team)
  PROVE  LET new == AddParticipant(team, p) IN
         /\ SoundTeam(new)
         /\ team.team_size = TeamSize /\ TeamSize > 0
         /\ new.team_size = TeamSize
         /\ new.participants = Append(team.participants, NewSeat(p, FALSE))
         /\ Len(new.participants) = Len(team.participants) + 1
         /\ new.completed = (team.completed \/ Len(new.participants) = TeamSize)
<1>1. /\ team \in Team /\ team.participants \in Seq(Seat) /\ Len(team.participants) \in Nat
      /\ team.team_size \in {0, TeamSize} /\ Len(team.participants) < team.team_size
  BY TeamSizeAssumption DEF SoundTeam, Team, CanAddParticipant
<1>2. NewSeat(p, FALSE) \in Seat
  BY DEF NewSeat, Seat
<1>3. <<NewSeat(p, FALSE)>> \in Seq(Seat) /\ Len(<<NewSeat(p, FALSE)>>) = 1
  BY <1>2, OneElement
<1>4. team.participants \o <<NewSeat(p, FALSE)>> = Append(team.participants, NewSeat(p, FALSE))
  BY <1>1, <1>2, AppendIsConcat
<1>5. Len(team.participants) + Len(<<NewSeat(p, FALSE)>>) <= team.team_size
  BY <1>1, <1>3, TeamSizeAssumption
<1>6. team.team_size = TeamSize /\ TeamSize > 0
  BY <1>1, TeamSizeAssumption
<1> QED
  BY <1>1, <1>3, <1>4, <1>5, <1>6, WithSeatsSound DEF AddParticipant

\* A settlement changes nothing but the claimed flag of one seat.
LEMMA SettleSound ==
  ASSUME NEW team, SoundTeam(team), NEW p
  PROVE  LET new == Settle(team, p) IN
         /\ SoundTeam(new)
         /\ new.team_size = team.team_size
         /\ new.completed = team.completed
         /\ Len(new.participants) = Len(team.participants)
         /\ DOMAIN new.participants = DOMAIN team.participants
<1> DEFINE s == team.participants
           k == SeatOf(team, p)
           t == [s EXCEPT ![k].claimed = TRUE]
<1>1. s \in Seq(Seat) /\ team \in Team
  BY DEF SoundTeam, Team
<1>2. DOMAIN s = 1..Len(s) /\ Len(s) \in Nat
  BY <1>1
<1> HIDE DEF k
<1>3. \A i \in 1..Len(s) : s[i] \in Seat /\ [s[i] EXCEPT !.claimed = TRUE] \in Seat
  BY <1>1, ClaimedSeat
<1>4. t \in Seq(Seat) /\ Len(t) = Len(s) /\ DOMAIN t = DOMAIN s
  <2>1. DOMAIN t = 1..Len(s) /\ \A i \in 1..Len(s) : t[i] \in Seat
    BY <1>2, <1>3
  <2>2. t = [i \in 1..Len(s) |-> t[i]]
    BY <2>1
  <2> HIDE DEF t
  <2> QED  BY <2>1, <2>2, <1>2, MappedSequence
<1>5. Settle(team, p) = [team EXCEPT !.participants = t]
  BY <1>1 DEF Settle, Team, k
<1> HIDE DEF t
<1> QED
  BY <1>1, <1>4, <1>5 DEF SoundTeam, Team

\* The seat that is settled keeps its player and who settles it, the others all they have.
LEMMA SettledSeats ==
  ASSUME NEW team, SoundTeam(team), NEW p, NEW i \in DOMAIN team.participants
  PROVE  LET old == team.participants[i]
             new == Settle(team, p).participants[i]
         IN /\ new.pubkey = old.pubkey
            /\ new.paid_by_captain = old.paid_by_captain
            /\ new.claimed = (old.claimed \/ i = SeatOf(team, p))
<1> DEFINE s == team.participants
           k == SeatOf(team, p)
           t == [s EXCEPT ![k].claimed = TRUE]
<1>1. s \in Seq(Seat) /\ team \in Team
  BY DEF SoundTeam, Team
<1>2. s[i] \in Seat /\ s[i].claimed \in BOOLEAN
  <2>1. i \in 1..Len(s)
    BY <1>1
  <2>2. s[i] \in Seat
    BY <1>1, <2>1
  <2> QED  BY <2>2 DEF Seat
<1>3. Settle(team, p).participants = t
  BY <1>1 DEF Settle, Team
<1> HIDE DEF k
<1>4. t[i] = IF i = k THEN [s[i] EXCEPT !.claimed = TRUE] ELSE s[i]
  BY <1>1
<1> HIDE DEF t
<1>5. CASE i = k
  BY <1>2, <1>3, <1>4, <1>5, ClaimedSeat DEF k
<1>6. CASE i # k
  BY <1>2, <1>3, <1>4, <1>6 DEF k
<1> QED  BY <1>5, <1>6

\* A refund is a whole number of entry fees.
LEMMA RefundCountType ==
  ASSUME NEW team, SoundTeam(team), NEW c, NEW p
  PROVE  RefundCount(c, team, p) \in Nat
<1> DEFINE byCaptain == {i \in DOMAIN team.participants : team.participants[i].paid_by_captain}
<1>1. DOMAIN team.participants = 1..Len(team.participants) /\ Len(team.participants) \in Nat
  BY DEF SoundTeam, Team
<1>2. IsFiniteSet(1..Len(team.participants))
  BY <1>1, FS_Interval
<1>3. byCaptain \subseteq 1..Len(team.participants)
  BY <1>1
<1>4. Cardinality(byCaptain) \in Nat
  BY <1>2, <1>3, FS_Subset, FS_CardinalityType
<1> QED
  BY <1>4 DEF RefundCount
=============================================================================
