---------------------------- MODULE EscrowProofs ----------------------------
(***************************************************************************)
(* The money of a tournament: for any number of players and teams and any  *)
(* order of registrations and payouts nobody is paid twice, the pool       *)
(* balances to the unit and covers all that is due, and the tournament     *)
(* implements the abstract escrow.                                         *)
(***************************************************************************)
EXTENDS SeatProofs, TournamentRefinement

\* The seat whose settlement pays for s back: the captain's first one or s itself.
CreditorSeat(s) == IF SeatAt(s).paid_by_captain THEN 1 ELSE s[2]

\* The seats whose fee p can get back.  What a player gets back is settled here; who
\* paid for it is not recorded.
FeesOf(p) == {s \in Unsettled : Creditor(s) = p}
-----------------------------------------------------------------------------
(***************************************************************************)
(* Seats and their creditors.                                              *)
(***************************************************************************)
LEMMA SeatTypes ==
  ASSUME TypeInv, NEW s \in Seats
  PROVE  /\ s[1] \in Players /\ s[2] \in DOMAIN teams[s[1]].participants
         /\ s[2] \in 1..TeamSize /\ s = <<s[1], s[2]>> /\ SeatAt(s) \in Seat
<1>1. s[1] \in Players /\ s[2] \in DOMAIN teams[s[1]].participants /\ s[2] \in 1..TeamSize
      /\ s = <<s[1], s[2]>>
  BY DEF Seats
<1>2. teams[s[1]].participants[s[2]] \in Seat
  BY <1>1, TeamTypes
<1> QED  BY <1>1, <1>2 DEF SeatAt

\* Every position of a team is a seat of the tournament.
LEMMA PositionIsSeat ==
  ASSUME TypeInv, NEW c \in Players, NEW i \in DOMAIN teams[c].participants
  PROVE  <<c, i>> \in Seats /\ SeatAt(<<c, i>>) = teams[c].participants[i]
<1>1. /\ SoundTeam(teams[c]) /\ teams[c] \in Team /\ i \in 1..Len(teams[c].participants)
      /\ Len(teams[c].participants) \in Nat
  BY TeamTypes
<1>2. Len(teams[c].participants) <= TeamSize
  BY <1>1, TeamSizeAssumption DEF SoundTeam, Team
<1>3. i \in 1..TeamSize
  BY <1>1, <1>2, TeamSizeAssumption
<1> QED  BY <1>3 DEF Seats, SeatAt

\* As nobody sits twice, find returns the one seat a player has.
LEMMA SeatOfPlayer ==
  ASSUME SeatInv, NEW c \in Players, NEW i \in DOMAIN teams[c].participants
  PROVE  LET p == teams[c].participants[i].pubkey
         IN IsSeated(teams[c], p) /\ SeatOf(teams[c], p) = i
<1> DEFINE seats == teams[c].participants
           p == seats[i].pubkey
<1>1. \A j \in DOMAIN seats : seats[j].pubkey = p <=> j = i
  BY DEF SeatInv, SeatsDiffer
<1>2. DOMAIN seats = 1..Len(seats) /\ Len(seats) \in Nat
  BY TeamTypes DEF SeatInv
<1>3. \A j \in DOMAIN seats :
        /\ seats[j].pubkey = p /\ \A k \in DOMAIN seats : seats[k].pubkey = p => j <= k
        <=> j = i
  BY <1>1, <1>2
<1> HIDE DEF p
<1>4. SeatOf(teams[c], p) = i
  BY <1>3 DEF SeatOf
<1>5. IsSeated(teams[c], p)
  BY <1>1 DEF IsSeated
<1> QED  BY <1>4, <1>5 DEF p

\* The converse: a player that may settle has a seat, open and its own.
LEMMA SettlingSeat ==
  ASSUME SeatInv, NEW c \in Players, NEW p, CanSettle(teams[c], p)
  PROVE  LET k == SeatOf(teams[c], p)
         IN /\ k \in DOMAIN teams[c].participants
            /\ teams[c].participants[k].pubkey = p
            /\ ~teams[c].participants[k].claimed
<1>1. PICK i \in DOMAIN teams[c].participants : teams[c].participants[i].pubkey = p
  BY DEF CanSettle, IsSeated
<1>2. SeatOf(teams[c], p) = i
  BY <1>1, SeatOfPlayer
<1> QED  BY <1>1, <1>2 DEF CanSettle

\* Whoever is owed for a seat sits in the same team, a captain on the first seat.
LEMMA CreditorSeated ==
  ASSUME SeatInv, NEW s \in Seats
  PROVE  LET k == CreditorSeat(s)
         IN /\ k \in DOMAIN teams[s[1]].participants
            /\ teams[s[1]].participants[k].pubkey = Creditor(s)
            /\ teams[s[1]].participants[k].paid_by_captain = SeatAt(s).paid_by_captain
            /\ Creditor(s) \in Players
<1>1. /\ s[1] \in Players /\ s[2] \in DOMAIN teams[s[1]].participants /\ SeatAt(s) \in Seat
  BY SeatTypes DEF SeatInv
<1>2. CASE SeatAt(s).paid_by_captain
  <2>1. teams[s[1]].team_size > 0 /\ 1 \in DOMAIN teams[s[1]].participants
    BY <1>1, TeamTypes DEF SeatInv, SoundTeam
  <2>2. /\ teams[s[1]].participants[1].pubkey = s[1]
        /\ teams[s[1]].participants[1].paid_by_captain
    BY <1>1, <2>1 DEF SeatInv, FoundedByCaptain
  <2>3. teams[s[1]].participants[1] \in Seat
    BY <1>1, <2>1, TeamTypes DEF SeatInv
  <2> QED  BY <1>1, <1>2, <2>1, <2>2, <2>3 DEF CreditorSeat, Creditor, Seat
<1>3. CASE ~SeatAt(s).paid_by_captain
  BY <1>1, <1>3 DEF CreditorSeat, Creditor, SeatAt, Seat
<1> QED  BY <1>2, <1>3

\* The fee of a seat is in the pool as long as its creditor's seat is not settled.
LEMMA UnsettledSeats ==
  SeatInv => Unsettled = {s \in Seats : ~teams[s[1]].participants[CreditorSeat(s)].claimed}
<1> SUFFICES ASSUME SeatInv, NEW s \in Seats
             PROVE  CanSettle(teams[s[1]], Creditor(s)) <=>
                      ~teams[s[1]].participants[CreditorSeat(s)].claimed
  BY DEF Unsettled
<1>1. s[1] \in Players
  BY SeatTypes DEF SeatInv
<1>2. IsSeated(teams[s[1]], Creditor(s)) /\ SeatOf(teams[s[1]], Creditor(s)) = CreditorSeat(s)
  BY <1>1, CreditorSeated, SeatOfPlayer
<1> QED  BY <1>2 DEF CanSettle

\* What one player is owed for lies in one team and is settled by one seat.
LEMMA SameCreditor ==
  ASSUME SeatInv, NEW c \in Players, NEW k \in DOMAIN teams[c].participants, NEW s \in Seats
  PROVE  Creditor(s) = teams[c].participants[k].pubkey <=> s[1] = c /\ CreditorSeat(s) = k
<1>1. s[1] \in Players
  BY SeatTypes DEF SeatInv
<1> QED  BY <1>1, CreditorSeated DEF SeatInv, SeatsDiffer

\* There are no more seats than keys in the filter.
LEMMA FiniteSeats ==
  ASSUME SeatInv
  PROVE  /\ IsFiniteSet(Seats) /\ Cardinality(Seats) \in Nat
         /\ Cardinality(Seats) <= Cardinality(bloom) /\ Cardinality(bloom) <= BloomCapacity
<1> DEFINE player == [s \in Seats |-> SeatAt(s).pubkey]
<1>1. player \in [Seats -> bloom]
  BY SeatTypes DEF SeatInv, SeatedAreInFilter, SeatAt
<1>2. \A s, t \in Seats : player[s] = player[t] => s = t
  BY SeatInvOneSeat DEF OneSeatPerPlayer
<1> HIDE DEF player
<1>3. player \in Injection(Seats, bloom)
  BY <1>1, <1>2, Fun_IsInj
<1> QED  BY <1>3, FS_Injection, FS_CardinalityType DEF SeatInv, FilterFits

\* Unsettled is a part of the seats, and so are the fees of one player.
LEMMA FiniteFees ==
  ASSUME SeatInv, NEW S, S \subseteq Seats
  PROVE  IsFiniteSet(S) /\ Cardinality(S) \in Nat
  BY FiniteSeats, FS_Subset, FS_CardinalityType
-----------------------------------------------------------------------------
(***************************************************************************)
(* Settlements.                                                            *)
(***************************************************************************)
\* While the seat of a player is open, its fees are those of the seats it is owed for.
LEMMA FeesOfSeat ==
  ASSUME SeatInv, NEW c \in Players, NEW k \in DOMAIN teams[c].participants,
         ~teams[c].participants[k].claimed
  PROVE  FeesOf(teams[c].participants[k].pubkey) = {s \in Seats : s[1] = c /\ CreditorSeat(s) = k}
<1>1. ASSUME NEW s \in Seats, s[1] = c, CreditorSeat(s) = k PROVE s \in Unsettled
  BY <1>1, UnsettledSeats
<1>2. Unsettled \subseteq Seats
  BY DEF Unsettled
<1> QED  BY <1>1, <1>2, SameCreditor DEF FeesOf

\* What refund_participant counts is what its caller is owed for: for a captain the
\* seats of the team it brought, for a later player one, for a teammate nothing.
LEMMA RefundIsFees ==
  ASSUME SeatInv, NEW c \in Players, NEW p, CanSettle(teams[c], p)
  PROVE  /\ RefundCount(c, teams[c], p) = Cardinality(FeesOf(p))
         /\ FeesOf(p) \subseteq Unsettled
         /\ \A s \in FeesOf(p) : s[1] = c
<1> DEFINE seats == teams[c].participants
           k == SeatOf(teams[c], p)
<1>1. /\ k \in DOMAIN seats /\ seats[k].pubkey = p /\ ~seats[k].claimed
      /\ DOMAIN seats = 1..Len(seats) /\ Len(seats) \in Nat
  BY SettlingSeat, TeamTypes DEF SeatInv
<1>2. FeesOf(p) = {s \in Seats : s[1] = c /\ CreditorSeat(s) = k}
  BY <1>1, FeesOfSeat
<1>3. 1 \in DOMAIN seats /\ seats[1].pubkey = c /\ seats[1].paid_by_captain
  <2>1. teams[c].team_size > 0
    BY <1>1, TeamTypes DEF SeatInv, SoundTeam
  <2> QED  BY <1>1, <2>1 DEF SeatInv, FoundedByCaptain
<1>4. \A i \in DOMAIN seats : <<c, i>> \in Seats /\ SeatAt(<<c, i>>) = seats[i]
  BY PositionIsSeat DEF SeatInv
<1>5. \A s \in Seats : s = <<s[1], s[2]>> /\ (s[1] = c => s[2] \in DOMAIN seats)
  BY SeatTypes DEF SeatInv
<1>6. p = c <=> k = 1
  BY <1>1, <1>3 DEF SeatInv, SeatsDiffer
<1> HIDE DEF k, seats
<1>7. CASE ~seats[k].paid_by_captain
  <2>1. k # 1
    BY <1>7, <1>3
  <2>2. CreditorSeat(<<c, k>>) = k
    BY <1>7, <1>1, <1>4 DEF CreditorSeat
  <2>3. ASSUME NEW s \in Seats, s[1] = c, CreditorSeat(s) = k PROVE s = <<c, k>>
    BY <2>3, <2>1, <1>5 DEF CreditorSeat
  <2>4. FeesOf(p) = {<<c, k>>}
    BY <2>2, <2>3, <1>1, <1>2, <1>4
  <2>5. Cardinality(FeesOf(p)) = 1
    BY <2>4, FS_Singleton
  <2>6. RefundCount(c, teams[c], p) = 1
    BY <1>7 DEF RefundCount, k, seats
  <2> QED  BY <1>2, <2>5, <2>6 DEF FeesOf
<1>8. CASE seats[k].paid_by_captain /\ p # c
  <2>1. k # 1
    BY <1>6, <1>8
  <2>2. ASSUME NEW s \in Seats, s[1] = c, CreditorSeat(s) = k PROVE FALSE
    <3>1. s = <<c, k>> /\ ~SeatAt(s).paid_by_captain
      BY <2>2, <2>1, <1>5 DEF CreditorSeat
    <3> QED  BY <3>1, <1>8, <1>1, <1>4
  <2>3. FeesOf(p) = {}
    BY <2>2, <1>2
  <2>4. RefundCount(c, teams[c], p) = 0
    BY <1>8 DEF RefundCount, k, seats
  <2> QED  BY <1>2, <2>3, <2>4, FS_EmptySet DEF FeesOf
<1>9. CASE seats[k].paid_by_captain /\ p = c
  <2> DEFINE brought == {i \in DOMAIN seats : seats[i].paid_by_captain}
             place == [i \in brought |-> <<c, i>>]
  <2>1. k = 1
    BY <1>6, <1>9
  <2>2. \A i \in brought : <<c, i>> \in FeesOf(p)
    BY <2>1, <1>2, <1>4 DEF CreditorSeat
  <2>3. \A s \in FeesOf(p) : s[2] \in brought /\ s = <<c, s[2]>>
    <3> SUFFICES ASSUME NEW s \in FeesOf(p) PROVE s[2] \in brought /\ s = <<c, s[2]>>
      OBVIOUS
    <3>1. s \in Seats /\ s[1] = c /\ CreditorSeat(s) = 1
      BY <2>1, <1>2
    <3>2. s = <<c, s[2]>> /\ s[2] \in DOMAIN seats /\ SeatAt(s) = seats[s[2]]
      BY <3>1, <1>4, <1>5
    <3>3. seats[s[2]].paid_by_captain
      BY <3>1, <3>2, <1>3 DEF CreditorSeat
    <3> QED  BY <3>2, <3>3
  <2>4. place \in Bijection(brought, FeesOf(p))
    <3>1. place \in [brought -> FeesOf(p)]
      BY <2>2
    <3>2. \A i, j \in brought : place[i] = place[j] => i = j
      OBVIOUS
    <3>3. \A s \in FeesOf(p) : \E i \in brought : place[i] = s
      BY <2>3
    <3> HIDE DEF place, brought
    <3> QED  BY <3>1, <3>2, <3>3, Fun_IsBij
  <2>5. IsFiniteSet(brought)
    <3>1. IsFiniteSet(1..Len(seats)) /\ brought \subseteq 1..Len(seats)
      BY <1>1, FS_Interval
    <3> HIDE DEF brought
    <3> QED  BY <3>1, FS_Subset
  <2>6. Cardinality(FeesOf(p)) = Cardinality(brought)
    <3> HIDE DEF place, brought
    <3> QED  BY <2>4, <2>5, FS_Bijection DEF ExistsBijection
  <2>7. RefundCount(c, teams[c], p) = Cardinality(brought)
    BY <1>9 DEF RefundCount, k, seats
  <2> QED  BY <1>2, <2>6, <2>7 DEF FeesOf
<1> QED  BY <1>7, <1>8, <1>9

\* The lemmas about unsettled seats, for the state after a step.
LEMMA UnsettledSeatsNext ==
  (SeatInv => Unsettled = {s \in Seats : ~teams[s[1]].participants[CreditorSeat(s)].claimed})'
  BY UnsettledSeats, PTL

\* A settlement takes the creditor's fees out of the pool's dues, and nobody else's.
LEMMA PaySeatUnsettled ==
  ASSUME SeatInv, SeatInv', NEW p \in Players, NEW c \in Players, NEW amount,
         PaySeat(p, c, amount)
  PROVE  /\ Seats' = Seats
         /\ \A s \in Seats : Creditor(s)' = Creditor(s) /\ CreditorSeat(s)' = CreditorSeat(s)
         /\ Unsettled' = Unsettled \ FeesOf(p)
<1> DEFINE k == SeatOf(teams[c], p)
<1>1. /\ k \in DOMAIN teams[c].participants /\ teams[c].participants[k].pubkey = p
      /\ ~teams[c].participants[k].claimed
  BY SettlingSeat DEF PaySeat
<1>2. Seats' = Seats /\ SameSeats
  BY PaySeatKeepsSeats, PaySeatSameSeats DEF SeatInv
<1>3. ASSUME NEW s \in Seats
      PROVE  /\ SeatAt(s)'.pubkey = SeatAt(s).pubkey
             /\ SeatAt(s)'.paid_by_captain = SeatAt(s).paid_by_captain
             /\ Creditor(s)' = Creditor(s) /\ CreditorSeat(s)' = CreditorSeat(s)
  <2>1. s[1] \in Players /\ s[2] \in DOMAIN teams[s[1]].participants
    BY SeatTypes DEF SeatInv
  <2>2. /\ SeatAt(s)'.pubkey = SeatAt(s).pubkey
        /\ SeatAt(s)'.paid_by_captain = SeatAt(s).paid_by_captain
    BY <2>1, <1>2 DEF SameSeats, SeatAt
  <2> QED  BY <2>2 DEF Creditor, CreditorSeat
<1>4. ASSUME NEW s \in Seats
      PROVE  LET i == CreditorSeat(s)
             IN ~teams'[s[1]].participants[i].claimed <=>
                  ~teams[s[1]].participants[i].claimed /\ ~(s[1] = c /\ i = k)
  <2> DEFINE i == CreditorSeat(s)
  <2>1. s[1] \in Players /\ i \in DOMAIN teams[s[1]].participants
    BY SeatTypes, CreditorSeated DEF SeatInv
  <2>2. teams' = [teams EXCEPT ![c] = Settle(teams[c], p)] /\ teams \in [Players -> Team]
    BY DEF PaySeat, SeatInv, TypeInv, TypeOK
  <2> HIDE DEF i, k
  <2>3. CASE s[1] = c
    <3>1. SoundTeam(teams[c])
      BY TeamTypes DEF SeatInv
    <3>2. Settle(teams[c], p).participants[i].claimed =
            (teams[c].participants[i].claimed \/ i = SeatOf(teams[c], p))
      BY <2>1, <2>3, <3>1, SettledSeats
    <3> QED  BY <2>2, <2>3, <3>2 DEF k, i
  <2>4. CASE s[1] # c
    BY <2>1, <2>2, <2>4 DEF i
  <2> QED  BY <2>3, <2>4
<1>5. FeesOf(p) = {s \in Seats : s[1] = c /\ CreditorSeat(s) = k}
  BY <1>1, FeesOfSeat
<1>6. Unsettled' = {s \in Seats : ~teams'[s[1]].participants[CreditorSeat(s)].claimed}
  <2>1. Unsettled' = {s \in Seats' : ~teams'[s[1]].participants[CreditorSeat(s)'].claimed}
    BY UnsettledSeatsNext
  <2> QED  BY <2>1, <1>2, <1>3
<1> HIDE DEF k
<1> QED  BY <1>2, <1>3, <1>4, <1>5, <1>6, UnsettledSeats
-----------------------------------------------------------------------------
(***************************************************************************)
(* Registrations.                                                          *)
(***************************************************************************)
\* The seats a registration adds to the team of c.
Added(c, team) == {c} \X ((Len(teams[c].participants) + 1)..Len(team.participants))

\* Each of these n seats is open, and p is owed for it: as the captain, who brings
\* nobody to a team that has members, or for itself.
OwedTo(p, n, c, team) ==
  LET old == Len(teams[c].participants)
  IN /\ Len(team.participants) = old + n
     /\ \A i \in (old + 1)..(old + n) :
          LET seat == team.participants[i]
          IN /\ ~seat.claimed
             /\ IF seat.paid_by_captain THEN p = c /\ old = 0 ELSE seat.pubkey = p

LEMMA CaptainIsOwed ==
  ASSUME SeatInv, NEW p \in Players, NEW keys \in Seq(Players),
         CanAddParticipantsByCaptain(NewTeam, keys),
         Grows(p, keys, AddParticipantsByCaptain(NewTeam, keys)), BloomAccepts(keys), keys[1] = p
  PROVE  OwedTo(p, Len(keys), p, AddParticipantsByCaptain(NewTeam, keys))
<1> DEFINE team == AddParticipantsByCaptain(NewTeam, keys)
           old == teams[p].participants
<1>1. /\ Len(old) \in Nat /\ DOMAIN old = 1..Len(old) /\ Len(old) <= teams[p].team_size
      /\ teams[p].team_size \in Nat /\ Len(keys) \in Nat
  BY TeamTypes DEF SeatInv, SoundTeam
<1>2. /\ team.participants = [i \in 1..Len(keys) |-> NewSeat(keys[i], TRUE)]
      /\ Len(team.participants) = Len(keys)
  BY CaptainTeamSound
<1>3. Len(keys) > 0
  BY <1>1, <1>2 DEF Grows
<1>4. Len(old) = 0
  <2> SUFFICES ASSUME Len(old) > 0 PROVE FALSE
    BY <1>1
  <2>1. 1 \in DOMAIN old /\ old[1].pubkey = p
    BY <1>1 DEF SeatInv, FoundedByCaptain
  <2>2. p \in bloom
    BY <2>1 DEF SeatInv, SeatedAreInFilter
  <2>3. p \in ToSet(keys)
    BY <1>1, <1>3 DEF ToSet
  <2> QED  BY <2>2, <2>3 DEF BloomAccepts
<1> HIDE DEF team, old
<1>5. \A i \in 1..Len(keys) : /\ ~team.participants[i].claimed
                              /\ team.participants[i].paid_by_captain
  BY <1>2 DEF NewSeat
<1>6. Len(team.participants) = Len(old) + Len(keys)
  BY <1>1, <1>2, <1>4
<1>7. ASSUME NEW i \in (Len(old) + 1)..(Len(old) + Len(keys))
      PROVE  ~team.participants[i].claimed /\ team.participants[i].paid_by_captain
  <2>1. i \in 1..Len(keys)
    BY <1>1, <1>4
  <2> QED  BY <2>1, <1>5
<1>8. OwedTo(p, Len(keys), p, team)
  BY <1>4, <1>6, <1>7 DEF OwedTo, old
<1> QED  BY <1>8 DEF team

LEMMA JoinerIsOwed ==
  ASSUME SeatInv, NEW p \in Players, NEW c \in Players, CanAddParticipant(teams[c])
  PROVE  OwedTo(p, 1, c, AddParticipant(teams[c], p))
<1> DEFINE team == AddParticipant(teams[c], p)
           old == teams[c].participants
           seat == NewSeat(p, FALSE)
<1>1. /\ Len(old) \in Nat /\ SoundTeam(teams[c]) /\ old \in Seq(Seat)
  BY TeamTypes DEF SeatInv
<1>2. team.participants = Append(old, seat) /\ Len(team.participants) = Len(old) + 1
  BY <1>1, JoinedTeamSound
<1>3. ~seat.claimed /\ ~seat.paid_by_captain /\ seat.pubkey = p
  BY DEF NewSeat
<1> HIDE DEF team, seat, old
<1>4. team.participants[Len(old) + 1] = seat
  BY <1>1, <1>2
<1>5. \A i \in (Len(old) + 1)..(Len(old) + 1) : i = Len(old) + 1
  BY <1>1
<1>6. OwedTo(p, 1, c, team)
  BY <1>2, <1>3, <1>4, <1>5 DEF OwedTo, old
<1> QED  BY <1>6 DEF team

\* The keys of a registration: the player's own, then those of its teammates.
SuppliedKeys(p, keys) == keys \in Seq(Players) /\ Len(keys) \in Nat /\ Len(keys) > 0 /\ keys[1] = p

LEMMA RegisteredKeys ==
  ASSUME NEW p \in Players, NEW teammates \in Seq(Players)
  PROVE  SuppliedKeys(p, <<p>> \o teammates)
<1>1. <<p>> \in Seq(Players) /\ Len(<<p>>) = 1 /\ <<p>>[1] = p
  BY OneElement
<1> QED  BY <1>1, ConcatProperties DEF SuppliedKeys

\* Either kind of registration enters a team that grows by seats p is owed for,
\* whoever has signed it.
LEMMA CaptainEnters ==
  ASSUME SeatInv, NEW signer, NEW p \in Players, NEW teammates,
         SuppliedKeys(p, <<p>> \o teammates), RegisterCaptain(signer, p, teammates)
  PROVE  \E n \in Nat, c \in Players : \E team :
           /\ Enter(signer, <<p>> \o teammates, n, c, team)
           /\ Grows(c, <<p>> \o teammates, team) /\ OwedTo(p, n, c, team)
<1> DEFINE keys == <<p>> \o teammates
           team == AddParticipantsByCaptain(NewTeam, keys)
<1>1. keys \in Seq(Players) /\ Len(keys) \in Nat /\ Len(keys) > 0 /\ keys[1] = p
  BY DEF SuppliedKeys
<1>2. CanAddParticipantsByCaptain(NewTeam, keys) /\ Enter(signer, keys, Len(keys), p, team)
  BY DEF RegisterCaptain
<1> HIDE DEF keys
<1>3. BloomAccepts(keys) /\ Grows(p, keys, team)
  BY <1>1, <1>2, CaptainGrows DEF Enter
<1>4. OwedTo(p, Len(keys), p, team)
  BY <1>1, <1>2, <1>3, CaptainIsOwed
<1> QED  BY <1>1, <1>2, <1>3, <1>4 DEF keys

LEMMA JoinerEnters ==
  ASSUME SeatInv, NEW signer, NEW p \in Players, NEW teammates,
         SuppliedKeys(p, <<p>> \o teammates),
         \E c \in Players : RegisterParticipant(signer, p, c, teammates)
  PROVE  \E n \in Nat, c \in Players : \E team :
           /\ Enter(signer, <<p>> \o teammates, n, c, team)
           /\ Grows(c, <<p>> \o teammates, team) /\ OwedTo(p, n, c, team)
<1>1. PICK c \in Players : RegisterParticipant(signer, p, c, teammates)
  OBVIOUS
<1> DEFINE keys == <<p>> \o teammates
           team == AddParticipant(teams[c], p)
<1>2. CanAddParticipant(teams[c]) /\ Enter(signer, keys, 1, c, team)
  BY <1>1 DEF RegisterParticipant
<1>3. Grows(c, keys, team)
  BY <1>2, JoinerGrows DEF SuppliedKeys
<1>4. OwedTo(p, 1, c, team)
  BY <1>2, JoinerIsOwed
<1> QED  BY <1>2, <1>3, <1>4

\* What one registration does, in the terms of the lemmas below.
Entered(signer, p, keys, n, c, team) ==
  Enter(signer, keys, n, c, team) /\ Grows(c, keys, team) /\ OwedTo(p, n, c, team)

LEMMA RegistrationEnters ==
  ASSUME SeatInv, Register
  PROVE  \E signer, p, c \in Players, keys \in Seq(Players), n \in Nat : \E team :
           Entered(signer, p, keys, n, c, team)
<1>1. PICK signer \in Players, p \in Players, teammates \in MateLists :
        \/ RegisterCaptain(signer, p, teammates)
        \/ \E c \in Players : RegisterParticipant(signer, p, c, teammates)
  BY SignedRegistration
<1>2. SuppliedKeys(p, <<p>> \o teammates)
  BY ConfigAssumption, RegisteredKeys
<1>3. PICK n, c, team :
        /\ n \in Nat /\ c \in Players
        /\ Enter(signer, <<p>> \o teammates, n, c, team)
        /\ Grows(c, <<p>> \o teammates, team) /\ OwedTo(p, n, c, team)
  BY <1>1, <1>2, CaptainEnters, JoinerEnters
<1>4. <<p>> \o teammates \in Seq(Players)
  BY <1>2 DEF SuppliedKeys
<1>5. Entered(signer, p, <<p>> \o teammates, n, c, team)
  BY <1>3 DEF Entered
<1> QED  BY <1>3, <1>4, <1>5

\* A registration adds as many seats as its signer has paid for; they are the only
\* new dues, and p is owed for all of them.
LEMMA EnterUnsettled ==
  ASSUME SeatInv, SeatInv', NEW signer \in Players, NEW p \in Players,
         NEW keys \in Seq(Players), NEW n \in Nat, NEW c \in Players, NEW team,
         Entered(signer, p, keys, n, c, team)
  PROVE  /\ Seats' = Seats \cup Added(c, team)
         /\ Seats \cap Added(c, team) = {}
         /\ IsFiniteSet(Added(c, team)) /\ Cardinality(Added(c, team)) = n
         /\ \A s \in Seats : Creditor(s)' = Creditor(s) /\ SeatAt(s)' = SeatAt(s)
         /\ \A s \in Added(c, team) : Creditor(s)' = p /\ ~SeatAt(s)'.claimed
         /\ Unsettled' = Unsettled \cup Added(c, team)
<1> USE DEF Entered
<1> DEFINE old == teams[c].participants
           new == team.participants
<1>1. /\ Len(old) \in Nat /\ DOMAIN old = 1..Len(old)
      /\ Len(new) = Len(old) + n /\ DOMAIN new = 1..Len(new) /\ new \in Seq(Seat)
      /\ Len(new) <= TeamSize /\ TeamSize \in Nat
  <2>1. team \in Team /\ Len(new) <= team.team_size /\ team.team_size = TeamSize
    BY DEF Grows, SoundTeam
  <2> QED  BY <2>1, TeamTypes, TeamSizeAssumption DEF SeatInv, OwedTo, Team
<1>2. teams'[c] = team /\ \A d \in Players : d # c => teams'[d] = teams[d]
  BY DEF Enter, SeatInv, TypeInv, TypeOK
<1>3. \A i \in 1..Len(old) : new[i] = old[i]
  BY DEF Grows
<1>4. Added(c, team) = {c} \X ((Len(old) + 1)..(Len(old) + n))
  BY <1>1 DEF Added
<1> HIDE DEF old, new
<1>5. Seats' = Seats \cup Added(c, team) /\ Seats \cap Added(c, team) = {}
  <2>1. \A s \in Players \X (1..TeamSize) :
          s \in Seats' <=> IF s[1] = c THEN s[2] \in 1..Len(new)
                                       ELSE s[2] \in DOMAIN teams[s[1]].participants
    BY <1>1, <1>2 DEF Seats, new
  <2>2. \A s \in Players \X (1..TeamSize) :
          s \in Seats <=> IF s[1] = c THEN s[2] \in 1..Len(old)
                                      ELSE s[2] \in DOMAIN teams[s[1]].participants
    BY <1>1 DEF Seats, old
  <2>3. \A s \in Players \X (1..TeamSize) :
          s \in Added(c, team) <=> s[1] = c /\ s[2] \in (Len(old) + 1)..(Len(old) + n)
    BY <1>4
  <2>4. Seats \subseteq Players \X (1..TeamSize) /\ Seats' \subseteq Players \X (1..TeamSize)
    BY DEF Seats
  <2>5. Added(c, team) \subseteq Players \X (1..TeamSize)
    <3>1. (Len(old) + 1)..(Len(old) + n) \subseteq 1..TeamSize
      BY <1>1
    <3> QED  BY <3>1, <1>4
  <2>6. \A i \in 1..TeamSize :
          i \in 1..Len(new) <=> i \in 1..Len(old) \/ i \in (Len(old) + 1)..(Len(old) + n)
    BY <1>1
  <2>7. \A i \in 1..TeamSize : ~(i \in 1..Len(old) /\ i \in (Len(old) + 1)..(Len(old) + n))
    BY <1>1
  <2>8. \A s \in Players \X (1..TeamSize) : s[2] \in 1..TeamSize
    OBVIOUS
  <2>9. \A s \in Players \X (1..TeamSize) : s \in Seats' <=> s \in Seats \/ s \in Added(c, team)
    BY <2>1, <2>2, <2>3, <2>6, <2>8
  <2>10. \A s \in Players \X (1..TeamSize) : ~(s \in Seats /\ s \in Added(c, team))
    BY <2>2, <2>3, <2>7, <2>8
  <2> QED  BY <2>4, <2>5, <2>9, <2>10
<1>6. IsFiniteSet(Added(c, team)) /\ Cardinality(Added(c, team)) = n
  <2>1. /\ IsFiniteSet((Len(old) + 1)..(Len(old) + n))
        /\ Cardinality((Len(old) + 1)..(Len(old) + n)) = n
    BY <1>1, FS_Interval
  <2>2. IsFiniteSet({c}) /\ Cardinality({c}) = 1
    BY FS_Singleton
  <2>3. Cardinality(Added(c, team)) = 1 * n /\ IsFiniteSet(Added(c, team))
    BY <2>1, <2>2, <1>4, FS_Product
  <2> QED  BY <2>3
<1>7. ASSUME NEW s \in Seats
      PROVE  /\ SeatAt(s)' = SeatAt(s) /\ Creditor(s)' = Creditor(s) /\ CreditorSeat(s)' = CreditorSeat(s)
             /\ teams'[s[1]].participants[CreditorSeat(s)] = teams[s[1]].participants[CreditorSeat(s)]
  <2>1. /\ s[1] \in Players /\ s[2] \in DOMAIN teams[s[1]].participants
        /\ CreditorSeat(s) \in DOMAIN teams[s[1]].participants
    BY SeatTypes, CreditorSeated DEF SeatInv
  <2>2. \A i \in DOMAIN teams[s[1]].participants :
          teams'[s[1]].participants[i] = teams[s[1]].participants[i]
    BY <2>1, <1>1, <1>2, <1>3 DEF old, new
  <2>3. SeatAt(s)' = SeatAt(s)
    BY <2>1, <2>2 DEF SeatAt
  <2>4. Creditor(s)' = Creditor(s) /\ CreditorSeat(s)' = CreditorSeat(s)
    BY <2>3 DEF Creditor, CreditorSeat
  <2> QED  BY <2>1, <2>2, <2>3, <2>4
<1>8. ASSUME NEW s \in Added(c, team)
      PROVE  /\ Creditor(s)' = p /\ ~SeatAt(s)'.claimed
             /\ ~teams'[s[1]].participants[CreditorSeat(s)'].claimed
  <2>1. s[1] = c /\ s[2] \in (Len(old) + 1)..(Len(old) + n) /\ SeatAt(s)' = new[s[2]]
    BY <1>2, <1>4 DEF SeatAt, new
  <2>2. \A i \in (Len(old) + 1)..(Len(old) + n) :
          /\ ~new[i].claimed
          /\ new[i].paid_by_captain => p = c /\ Len(old) = 0
          /\ ~new[i].paid_by_captain => new[i].pubkey = p
    BY DEF OwedTo, old, new
  <2>3. CASE new[s[2]].paid_by_captain
    <3>1. p = c /\ Len(old) = 0
      BY <2>1, <2>2, <2>3
    <3>2. Creditor(s)' = p /\ CreditorSeat(s)' = 1
      BY <2>1, <2>3, <3>1 DEF Creditor, CreditorSeat
    <3>3. 1 \in (Len(old) + 1)..(Len(old) + n)
      BY <2>1, <3>1
    <3> QED  BY <2>1, <2>2, <3>2, <3>3, <1>2 DEF new
  <2>4. CASE ~new[s[2]].paid_by_captain
    <3>1. Creditor(s)' = p /\ CreditorSeat(s)' = s[2]
      BY <2>1, <2>2, <2>4 DEF Creditor, CreditorSeat
    <3> QED  BY <2>1, <2>2, <3>1, <1>2 DEF new
  <2> QED  BY <2>3, <2>4
<1>9. Unsettled' = Unsettled \cup Added(c, team)
  <2>1. Unsettled' = {s \in Seats' : ~teams'[s[1]].participants[CreditorSeat(s)'].claimed}
    BY UnsettledSeatsNext
  <2>2. Unsettled = {s \in Seats : ~teams[s[1]].participants[CreditorSeat(s)].claimed}
    BY UnsettledSeats
  <2> QED  BY <2>1, <2>2, <1>5, <1>7, <1>8
<1> QED  BY <1>5, <1>6, <1>7, <1>8, <1>9
-----------------------------------------------------------------------------
(***************************************************************************)
(* The invariant of the money.                                             *)
(***************************************************************************)
\* No seat is settled before the tournament is decided, none of a full team before
\* the final, and the sponsor gets nothing back from a tournament that takes place.
NothingDrawnEarly ==
  /\ status \in {"New", "Started"} => sponsorPaid = 0
  /\ \A s \in Seats : SeatAt(s).claimed =>
       status # "New" /\ (status = "Started" => s[1] \notin CompletedTeams)

\* After the final: seats with a prize to draw, and seats with a fee to draw.
PrizeSeats == {s \in Seats : s[1] = captain_winner /\ ~SeatAt(s).claimed}
RefundSeats == {s \in Unsettled : s[1] \notin CompletedTeams}

FinalCovered ==
  status = "Finished" =>
    pool >= reward * Cardinality(PrizeSeats) + EntryFee * Cardinality(RefundSeats)

\* The balance up to the final decides what is there for the prizes, and the fees of
\* full teams become prize money only if none has been refunded before.
MoneyInv == SeatInv /\ EscrowBalanced /\ NothingDrawnEarly /\ FinalCovered

LEMMA PrizeSeatsDef ==
  PayoutsCovered <=> FinalCovered /\ (status = "Canceled" => pool >= EntryFee * Cardinality(Unsettled))
  BY DEF PayoutsCovered, FinalCovered, PrizeSeats, RefundSeats

LEMMA Distributes ==
  ASSUME NEW a \in Nat, NEW b \in Nat, NEW c \in Nat
  PROVE  /\ a * (b + c) = a * b + a * c
         /\ a * b \in Nat /\ a * c \in Nat /\ a * b = b * a
         /\ b <= c => a * b <= a * c
  OBVIOUS

LEMMA ProductCovers == ASSUME NEW a \in Nat, NEW b \in Nat, b > 0 PROVE a <= a * b
<1>1. a * 1 <= a * b
  OBVIOUS
<1> QED  BY <1>1

LEMMA FeesArePart == ASSUME NEW p PROVE FeesOf(p) \subseteq Unsettled /\ Unsettled \subseteq Seats
  BY DEF FeesOf, Unsettled

\* A part and the rest of a set of seats.
LEMMA SplitSeats ==
  ASSUME SeatInv, NEW S, S \subseteq Seats, NEW T, T \subseteq S
  PROVE  /\ Cardinality(S) = Cardinality(S \ T) + Cardinality(T)
         /\ Cardinality(S \ T) \in Nat /\ Cardinality(T) \in Nat /\ Cardinality(S) \in Nat
         /\ Cardinality(T) <= Cardinality(S)
<1>1. IsFiniteSet(S) /\ IsFiniteSet(T) /\ IsFiniteSet(S \ T)
  BY FiniteFees
<1>2. /\ Cardinality(S) \in Nat /\ Cardinality(T) \in Nat /\ Cardinality(S \ T) \in Nat
  BY FiniteFees
<1>3. S \cap T = T
  OBVIOUS
<1>4. Cardinality(S \ T) = Cardinality(S) - Cardinality(T)
  BY <1>1, <1>3, FS_Difference
<1>5. Cardinality(T) <= Cardinality(S)
  BY <1>1, FS_Subset
<1> QED  BY <1>2, <1>4, <1>5

LEMMA InitMoneyInv == Init => MoneyInv
<1> SUFFICES ASSUME Init PROVE MoneyInv
  OBVIOUS
<1>1. Seats = {} /\ Unsettled = {}
  BY DEF Init, NoTeam, Seats, Unsettled
<1>2. EntryFee * 0 = 0
  BY Constants
<1>3. EscrowBalanced
  BY <1>1, <1>2, FS_EmptySet, Constants DEF Init, EscrowBalanced
<1>4. NothingDrawnEarly /\ FinalCovered
  BY <1>1 DEF Init, NothingDrawnEarly, FinalCovered
<1> QED  BY <1>3, <1>4, InitSeatInv DEF MoneyInv

\* A registration puts into the pool what its seats cost.
LEMMA EnterMoneyInv ==
  ASSUME MoneyInv, SeatInv', NEW signer \in Players, NEW p \in Players,
         NEW keys \in Seq(Players), NEW n \in Nat, NEW c \in Players, NEW team,
         Entered(signer, p, keys, n, c, team)
  PROVE  MoneyInv'
<1> USE Constants
<1> DEFINE A == Added(c, team)
           paid == n * EntryFee
<1>1. /\ Seats' = Seats \cup A /\ Seats \cap A = {} /\ IsFiniteSet(A) /\ Cardinality(A) = n
      /\ \A s \in Seats : Creditor(s)' = Creditor(s) /\ SeatAt(s)' = SeatAt(s)
      /\ \A s \in A : Creditor(s)' = p /\ ~SeatAt(s)'.claimed
      /\ Unsettled' = Unsettled \cup A
  BY EnterUnsettled DEF MoneyInv
<1>2. /\ status = "New" /\ status' = "New" /\ sponsorPaid' = sponsorPaid
      /\ pool' = pool + paid
  BY DEF Entered, Enter, Open
<1>3. pool \in Nat /\ sponsorPaid \in Nat /\ paid \in Nat
  BY Distributes DEF MoneyInv, SeatInv, TypeInv, TypeOK
<1>4. ASSUME NEW S, S \subseteq Seats
      PROVE  /\ EntryFee * Cardinality(S \cup A) = EntryFee * Cardinality(S) + paid
             /\ EntryFee * Cardinality(S) \in Nat
  <2>1. IsFiniteSet(S) /\ Cardinality(S) \in Nat
    BY <1>4, FiniteFees DEF MoneyInv
  <2>2. S \cap A = {}
    BY <1>1, <1>4
  <2>3. Cardinality(S \cup A) = Cardinality(S) + Cardinality(A) - 0
    BY <2>1, <2>2, <1>1, FS_Union, FS_EmptySet
  <2>4. Cardinality(S \cup A) = Cardinality(S) + n
    BY <2>1, <2>3, <1>1
  <2> QED  BY <2>1, <2>4, Distributes
<1> HIDE DEF A, paid
<1>5. EscrowBalanced'
  <2>1. pool + sponsorPaid = SponsorPool + EntryFee * Cardinality(Unsettled)
    BY <1>2 DEF MoneyInv, EscrowBalanced
  <2>2. EntryFee * Cardinality(Unsettled') = EntryFee * Cardinality(Unsettled) + paid
        /\ EntryFee * Cardinality(Unsettled) \in Nat
    BY <1>1, <1>4, FeesArePart
  <2> DEFINE before == EntryFee * Cardinality(Unsettled)
             after == EntryFee * Cardinality(Unsettled')
  <2>3. after = before + paid /\ before \in Nat /\ pool + sponsorPaid = SponsorPool + before
    BY <2>1, <2>2
  <2>4. pool' + sponsorPaid' = SponsorPool + after
    <3> HIDE DEF before, after
    <3> QED  BY <2>3, <1>2, <1>3
  <2> QED  BY <2>4 DEF EscrowBalanced
<1>6. NothingDrawnEarly' /\ FinalCovered'
  BY <1>1, <1>2 DEF MoneyInv, NothingDrawnEarly, FinalCovered
<1> QED  BY <1>5, <1>6 DEF MoneyInv

\* A step that leaves the teams alone leaves the seats and the dues alone.
LEMMA SameTeams ==
  ASSUME UNCHANGED teams
  PROVE  /\ Seats' = Seats /\ Unsettled' = Unsettled /\ CompletedTeams' = CompletedTeams
         /\ \A s \in Seats : SeatAt(s)' = SeatAt(s) /\ Creditor(s)' = Creditor(s)
         /\ \A p \in Players : FeesOf(p)' = FeesOf(p)
<1>1. Seats' = Seats /\ CompletedTeams' = CompletedTeams
  BY DEF Seats, CompletedTeams
<1>2. \A s \in Seats : SeatAt(s)' = SeatAt(s) /\ Creditor(s)' = Creditor(s)
  BY DEF SeatAt, Creditor
<1>3. Unsettled' = Unsettled
  BY <1>1, <1>2 DEF Unsettled
<1>4. Unsettled \subseteq Seats
  BY DEF Unsettled
<1> QED  BY <1>1, <1>2, <1>3, <1>4 DEF FeesOf

\* A step that moves no money and announces no result.
LEMMA QuietMoneyInv ==
  ASSUME MoneyInv, SeatInv', UNCHANGED <<teams, pool, sponsorPaid>>,
         status = "New" \/ status' = status,
         status' = "Finished" => UNCHANGED <<status, captain_winner, reward>>
  PROVE  MoneyInv'
<1>1. /\ Seats' = Seats /\ Unsettled' = Unsettled /\ CompletedTeams' = CompletedTeams
      /\ \A s \in Seats : SeatAt(s)' = SeatAt(s) /\ Creditor(s)' = Creditor(s)
  BY SameTeams
<1>2. status' # "Finished" => status # "Finished"
  OBVIOUS
<1>3. EscrowBalanced'
  BY <1>1, <1>2 DEF MoneyInv, EscrowBalanced
<1>4. NothingDrawnEarly'
  BY <1>1 DEF MoneyInv, NothingDrawnEarly
<1>5. FinalCovered'
  <2> SUFFICES ASSUME status' = "Finished"
               PROVE  pool' >= reward' * Cardinality(PrizeSeats') + EntryFee * Cardinality(RefundSeats')
    BY DEF FinalCovered
  <2>1. PrizeSeats' = PrizeSeats
    BY <1>1 DEF PrizeSeats
  <2>2. RefundSeats' = RefundSeats
    BY <1>1 DEF RefundSeats
  <2> QED  BY <2>1, <2>2 DEF MoneyInv, FinalCovered
<1> QED  BY <1>3, <1>4, <1>5 DEF MoneyInv

\* Which seat a settlement closes.
LEMMA PaySeatClaims ==
  ASSUME SeatInv, NEW p \in Players, NEW c \in Players, NEW amount, PaySeat(p, c, amount)
  PROVE  LET t == <<c, SeatOf(teams[c], p)>>
         IN /\ t \in Seats /\ SeatAt(t).pubkey = p /\ ~SeatAt(t).claimed
            /\ \A s \in Seats : /\ SeatAt(s)'.claimed <=> SeatAt(s).claimed \/ s = t
                                /\ SeatAt(s)'.pubkey = SeatAt(s).pubkey
            /\ CompletedTeams' = CompletedTeams
<1> DEFINE k == SeatOf(teams[c], p)
<1>1. /\ k \in DOMAIN teams[c].participants /\ teams[c].participants[k].pubkey = p
      /\ ~teams[c].participants[k].claimed
  BY SettlingSeat DEF PaySeat
<1>2. <<c, k>> \in Seats /\ SeatAt(<<c, k>>) = teams[c].participants[k]
  BY <1>1, PositionIsSeat DEF SeatInv
<1>3. ASSUME NEW s \in Seats
      PROVE  /\ SeatAt(s)'.claimed <=> SeatAt(s).claimed \/ s = <<c, k>>
             /\ SeatAt(s)'.pubkey = SeatAt(s).pubkey
  <2>1. s[1] \in Players /\ s[2] \in DOMAIN teams[s[1]].participants /\ s = <<s[1], s[2]>>
    BY SeatTypes DEF SeatInv
  <2>2. teams' = [teams EXCEPT ![c] = Settle(teams[c], p)] /\ teams \in [Players -> Team]
    BY DEF PaySeat, SeatInv, TypeInv, TypeOK
  <2>3. CASE s[1] = c
    <3>1. SoundTeam(teams[c])
      BY TeamTypes DEF SeatInv
    <3>2. LET old == teams[c].participants[s[2]]
              new == Settle(teams[c], p).participants[s[2]]
          IN /\ new.pubkey = old.pubkey
             /\ new.claimed = (old.claimed \/ s[2] = SeatOf(teams[c], p))
      BY <2>1, <2>3, <3>1, SettledSeats
    <3> HIDE DEF k
    <3>3. s[2] = k <=> s = <<c, k>>
      BY <2>1, <2>3
    <3> QED  BY <2>2, <2>3, <3>2, <3>3 DEF k, SeatAt
  <2>4. CASE s[1] # c
    BY <2>1, <2>2, <2>4 DEF SeatAt
  <2> QED  BY <2>3, <2>4
<1>4. CompletedTeams' = CompletedTeams
  BY PaySeatSameSeats DEF SeatInv, SameSeats, CompletedTeams
<1> QED  BY <1>1, <1>2, <1>3, <1>4

\* A payout of the fees a player is owed.
LEMMA RefundMoneyInv ==
  ASSUME MoneyInv, SeatInv', NEW p \in Players, NEW c \in Players, ClaimRefund(p, c)
  PROVE  MoneyInv'
<1> USE Constants
<1> DEFINE F == FeesOf(p)
           t == <<c, SeatOf(teams[c], p)>>
           refund == EntryFee * Cardinality(F)
<1>1. PaySeat(p, c, refund) /\ status # "New" /\ (status = "Canceled" \/ ~teams[c].completed)
  BY RefundIsFees DEF MoneyInv, ClaimRefund, PaySeat, Refundable
<1>2. /\ F \subseteq Unsettled /\ Unsettled \subseteq Seats /\ \A s \in F : s[1] = c
  BY <1>1, RefundIsFees DEF MoneyInv, PaySeat, Unsettled
<1> HIDE DEF refund, F
<1>3. /\ Seats' = Seats /\ \A s \in Seats : Creditor(s)' = Creditor(s)
      /\ Unsettled' = Unsettled \ F
  BY <1>1, PaySeatUnsettled DEF MoneyInv, F
<1>4. /\ t \in Seats
      /\ \A s \in Seats : SeatAt(s)'.claimed <=> SeatAt(s).claimed \/ s = t
      /\ CompletedTeams' = CompletedTeams
  BY <1>1, PaySeatClaims DEF MoneyInv
<1>5. /\ refund <= pool /\ pool' = pool - refund
      /\ UNCHANGED <<status, sponsorPaid, reward, captain_winner>>
  BY <1>1 DEF PaySeat, finishVars
<1>6. pool \in Nat /\ sponsorPaid \in Nat
  BY DEF MoneyInv, SeatInv, TypeInv, TypeOK
<1>7. ASSUME NEW S, S \subseteq Seats, F \subseteq S
      PROVE  /\ EntryFee * Cardinality(S) = EntryFee * Cardinality(S \ F) + refund
             /\ EntryFee * Cardinality(S \ F) \in Nat /\ refund \in Nat
  <2>1. /\ Cardinality(S) = Cardinality(S \ F) + Cardinality(F)
        /\ Cardinality(S \ F) \in Nat /\ Cardinality(F) \in Nat
    BY <1>7, SplitSeats DEF MoneyInv
  <2> QED  BY <2>1, Distributes DEF refund
<1>8. EscrowBalanced'
  <2> SUFFICES ASSUME status # "Finished"
               PROVE  pool' + sponsorPaid' = SponsorPool + EntryFee * Cardinality(Unsettled')
    BY <1>5 DEF EscrowBalanced
  <2> DEFINE before == EntryFee * Cardinality(Unsettled)
             after == EntryFee * Cardinality(Unsettled')
  <2>1. before = after + refund /\ after \in Nat /\ refund \in Nat
    BY <1>2, <1>3, <1>7
  <2>2. pool + sponsorPaid = SponsorPool + before
    BY DEF MoneyInv, EscrowBalanced
  <2> HIDE DEF before, after
  <2>3. pool' + sponsorPaid' = SponsorPool + after
    BY <2>1, <2>2, <1>5, <1>6
  <2> QED  BY <2>3 DEF after
<1>9. NothingDrawnEarly'
  <2>1. t[1] = c /\ c \in Players
    OBVIOUS
  <2>2. status = "Started" => c \notin CompletedTeams
    BY <1>1 DEF CompletedTeams
  <2> HIDE DEF t
  <2> QED  BY <2>1, <2>2, <1>1, <1>3, <1>4, <1>5 DEF MoneyInv, NothingDrawnEarly
<1>10. FinalCovered'
  <2> SUFFICES ASSUME status = "Finished"
               PROVE  pool' >= reward' * Cardinality(PrizeSeats') + EntryFee * Cardinality(RefundSeats')
    BY <1>5 DEF FinalCovered
  <2>1. F \subseteq RefundSeats /\ RefundSeats \subseteq Seats /\ RefundSeats' = RefundSeats \ F
    BY <1>1, <1>2, <1>3, <1>4 DEF RefundSeats, CompletedTeams
  <2>2. PrizeSeats' \subseteq PrizeSeats /\ PrizeSeats \subseteq Seats
    BY <1>3, <1>4, <1>5 DEF PrizeSeats
  <2> DEFINE before == EntryFee * Cardinality(RefundSeats)
             after == EntryFee * Cardinality(RefundSeats')
             prizes == reward * Cardinality(PrizeSeats)
             left == reward * Cardinality(PrizeSeats')
  <2>3. before = after + refund /\ after \in Nat /\ refund \in Nat
    BY <2>1, <1>7
  <2>4. left <= prizes /\ left \in Nat /\ prizes \in Nat
    <3>1. /\ Cardinality(PrizeSeats') <= Cardinality(PrizeSeats)
          /\ Cardinality(PrizeSeats') \in Nat /\ Cardinality(PrizeSeats) \in Nat
      BY <2>2, SplitSeats DEF MoneyInv
    <3>2. reward \in Nat
      BY DEF MoneyInv, SeatInv, TypeInv, TypeOK
    <3> QED  BY <3>1, <3>2, Distributes
  <2>5. pool >= prizes + before
    BY DEF MoneyInv, FinalCovered
  <2> HIDE DEF before, after, prizes, left
  <2>6. pool' >= left + after
    BY <2>3, <2>4, <2>5, <1>5, <1>6
  <2> QED  BY <2>6, <1>5 DEF left, after
<1> QED  BY <1>8, <1>9, <1>10 DEF MoneyInv

\* A payout of the prize for one seat.
LEMMA RewardMoneyInv ==
  ASSUME MoneyInv, SeatInv', NEW p \in Players, NEW c \in Players, ClaimReward(p, c)
  PROVE  MoneyInv'
<1> USE Constants
<1> DEFINE F == FeesOf(p)
           t == <<c, SeatOf(teams[c], p)>>
<1>1. PaySeat(p, c, reward) /\ status = "Finished" /\ captain_winner = c
  BY DEF ClaimReward
<1>2. /\ Seats' = Seats /\ \A s \in Seats : Creditor(s)' = Creditor(s)
      /\ Unsettled' = Unsettled \ F
  BY <1>1, PaySeatUnsettled DEF MoneyInv
<1>3. /\ t \in Seats /\ ~SeatAt(t).claimed
      /\ \A s \in Seats : SeatAt(s)'.claimed <=> SeatAt(s).claimed \/ s = t
      /\ CompletedTeams' = CompletedTeams
  BY <1>1, PaySeatClaims DEF MoneyInv
<1>4. /\ reward <= pool /\ pool' = pool - reward
      /\ UNCHANGED <<status, sponsorPaid, reward, captain_winner>>
  BY <1>1 DEF PaySeat, finishVars
<1>5. pool \in Nat /\ reward \in Nat
  BY DEF MoneyInv, SeatInv, TypeInv, TypeOK
<1>6. EscrowBalanced'
  BY <1>1, <1>4 DEF EscrowBalanced
<1>7. NothingDrawnEarly'
  BY <1>1, <1>4 DEF NothingDrawnEarly
<1>8. FinalCovered'
  <2>1. t \in PrizeSeats /\ PrizeSeats' = PrizeSeats \ {t} /\ PrizeSeats \subseteq Seats
    <3>1. t[1] = c
      OBVIOUS
    <3> HIDE DEF t
    <3> QED  BY <3>1, <1>1, <1>2, <1>3, <1>4 DEF PrizeSeats
  <2>2. RefundSeats' \subseteq RefundSeats /\ RefundSeats \subseteq Seats
    BY <1>2, <1>3 DEF RefundSeats, Unsettled
  <2> HIDE DEF t, F
  <2> DEFINE prizes == reward * Cardinality(PrizeSeats)
             left == reward * Cardinality(PrizeSeats')
             before == EntryFee * Cardinality(RefundSeats)
             after == EntryFee * Cardinality(RefundSeats')
  <2>3. prizes = left + reward /\ left \in Nat
    <3>1. /\ Cardinality(PrizeSeats) = Cardinality(PrizeSeats \ {t}) + Cardinality({t})
          /\ Cardinality(PrizeSeats \ {t}) \in Nat
      BY <2>1, SplitSeats DEF MoneyInv
    <3>2. Cardinality({t}) = 1
      BY FS_Singleton
    <3>3. Cardinality(PrizeSeats) = Cardinality(PrizeSeats') + 1 /\ Cardinality(PrizeSeats') \in Nat
      BY <2>1, <3>1, <3>2
    <3>4. reward * 1 = reward
      BY <1>5
    <3> QED  BY <3>3, <3>4, <1>5, Distributes
  <2>4. after <= before /\ after \in Nat /\ before \in Nat
    <3>1. /\ Cardinality(RefundSeats') <= Cardinality(RefundSeats)
          /\ Cardinality(RefundSeats') \in Nat /\ Cardinality(RefundSeats) \in Nat
      BY <2>2, SplitSeats DEF MoneyInv
    <3> QED  BY <3>1, Distributes
  <2>5. pool >= prizes + before
    BY <1>1 DEF MoneyInv, FinalCovered
  <2> HIDE DEF prizes, left, before, after
  <2>6. pool' >= left + after
    BY <2>3, <2>4, <2>5, <1>4, <1>5
  <2> QED  BY <2>6, <1>4 DEF FinalCovered, left, after
<1> QED  BY <1>6, <1>7, <1>8 DEF MoneyInv
-----------------------------------------------------------------------------
(***************************************************************************)
(* The final.                                                              *)
(***************************************************************************)
\* A full team has paid at least one entry fee, and before the final it has not
\* got it back.
LEMMA PrizeMoneyIsThere ==
  ASSUME MoneyInv, status = "Started"
  PROVE  team_count <= Cardinality(Unsettled \ RefundSeats)
<1> DEFINE first == [c \in CompletedTeams |-> <<c, 1>>]
           S == Unsettled \ RefundSeats
<1>1. ASSUME NEW c \in CompletedTeams PROVE <<c, 1>> \in S
  <2>1. c \in Players /\ teams[c].completed /\ teams[c].team_size > 0
    BY DEF CompletedTeams, MoneyInv, SeatInv, TeamCountExact
  <2>2. 1 \in DOMAIN teams[c].participants /\ teams[c].participants[1].paid_by_captain
    BY <2>1, TeamTypes DEF MoneyInv, SeatInv, FoundedByCaptain
  <2>3. <<c, 1>> \in Seats /\ SeatAt(<<c, 1>>) = teams[c].participants[1]
    BY <2>1, <2>2, PositionIsSeat DEF MoneyInv, SeatInv
  <2>4. CreditorSeat(<<c, 1>>) = 1
    BY <2>2, <2>3 DEF CreditorSeat
  <2>5. ~teams[c].participants[1].claimed
    BY <2>3 DEF MoneyInv, NothingDrawnEarly
  <2>6. <<c, 1>> \in Unsettled
    BY <2>3, <2>4, <2>5, UnsettledSeats DEF MoneyInv
  <2> QED  BY <2>6 DEF RefundSeats
<1>2. first \in Injection(CompletedTeams, S)
  <2>1. first \in [CompletedTeams -> S]
    BY <1>1
  <2>2. \A c, d \in CompletedTeams : first[c] = first[d] => c = d
    OBVIOUS
  <2> HIDE DEF first, S
  <2> QED  BY <2>1, <2>2, Fun_IsInj
<1>3. IsFiniteSet(S)
  BY FiniteFees DEF MoneyInv, Unsettled
<1> HIDE DEF first, S
<1>4. Cardinality(CompletedTeams) <= Cardinality(S)
  BY <1>2, <1>3, FS_Injection
<1> QED  BY <1>4 DEF MoneyInv, SeatInv, TeamCountExact, S

\* What the last vote on the winner leaves in the pool is the prize of a whole team
\* and the fees of all teams that were never full.
LEMMA FinalShares ==
  ASSUME MoneyInv, NEW v \in Users, NEW w \in Players, NEW organizer,
         FinishTournament(v, w, organizer), Quorum(finish_votes')
  PROVE  /\ status = "Started" /\ status' = "Finished"
         /\ captain_winner' \in Players /\ reward' \in Nat /\ TeamSize > 0
         /\ UNCHANGED <<entryVars, sponsorPaid>>
         /\ \/ UNCHANGED wallet
            \/ \E p \in Players : wallet' = [wallet EXCEPT ![p] = @ + (pool - pool')]
         /\ pool' \in Nat /\ pool' <= pool
         /\ reward' * TeamSize + EntryFee * Cardinality(RefundSeats) <= pool'
<1> USE Constants
<1>1. /\ status = "Started" /\ status' = "Finished" /\ UNCHANGED entryVars
      /\ captain_winner' \in MostVoted(ballots')
  BY DEF FinishTournament
<1>2. captain_winner' \in Players
  <2>1. ballots \in Seq(Players) /\ ballots' = Append(ballots, w)
    BY DEF FinishTournament, MoneyInv, SeatInv, TypeInv, TypeOK
  <2>2. ballots' \in Seq(Players)
    BY <2>1, AppendProperties
  <2> QED  BY <1>1, <2>2 DEF MostVoted, ToSet
<1>3. PICK cut \in OrganizerRewards :
        reward' = (RewardPool - cut) \div TeamSize /\ PayCut(organizer, cut)
  BY DEF FinishTournament
<1>4. cut \in Nat /\ cut <= RewardPool /\ reward' \in Nat
  BY <1>1, <1>3, RewardType DEF MoneyInv, SeatInv
<1>5. TeamSize > 0 /\ team_count \in Nat /\ pool \in Nat
  BY <1>1 DEF MoneyInv, SeatInv, TypeInv, TypeOK, Divisible
<1>6. RewardPool = SponsorPool + EntryFee * team_count
  BY DEF RewardPool
<1>7. pool = SponsorPool + EntryFee * Cardinality(Unsettled)
  BY <1>1, <1>5 DEF MoneyInv, EscrowBalanced, NothingDrawnEarly
<1> DEFINE won == EntryFee * team_count
           dues == EntryFee * Cardinality(RefundSeats)
           kept == EntryFee * Cardinality(Unsettled \ RefundSeats)
           fees == EntryFee * Cardinality(Unsettled)
           total == reward' * TeamSize
<1>8. /\ won \in Nat /\ dues \in Nat /\ kept \in Nat /\ fees = kept + dues /\ won <= kept
  <2>1. /\ Cardinality(Unsettled) = Cardinality(Unsettled \ RefundSeats) + Cardinality(RefundSeats)
        /\ Cardinality(Unsettled \ RefundSeats) \in Nat /\ Cardinality(RefundSeats) \in Nat
    BY SplitSeats DEF MoneyInv, RefundSeats, Unsettled
  <2>2. team_count <= Cardinality(Unsettled \ RefundSeats)
    BY <1>1, PrizeMoneyIsThere
  <2> QED  BY <2>1, <2>2, <1>5, Distributes
<1>9. total <= RewardPool - cut /\ total \in Nat
  <2> DEFINE rest == RewardPool - cut
  <2>1. rest \in Nat
    BY <1>4, <1>6, <1>8
  <2>2. reward' = rest \div TeamSize
    BY <1>3
  <2> HIDE DEF rest
  <2>3. (rest \div TeamSize) * TeamSize <= rest
    BY <2>1, <1>5
  <2> QED  BY <2>1, <2>2, <2>3, <1>4, Distributes DEF rest
<1>10. /\ pool' = pool - cut /\ pool' \in Nat /\ pool' <= pool /\ cut = pool - pool'
       /\ sponsorPaid' = sponsorPaid
  BY <1>3, <1>4, <1>5 DEF PayCut
<1>13. \/ UNCHANGED wallet
       \/ \E p \in Players : wallet' = [wallet EXCEPT ![p] = @ + (pool - pool')]
  BY <1>3, <1>10 DEF PayCut
<1>11. SponsorPool + won = RewardPool /\ pool = SponsorPool + fees
  BY <1>6, <1>7
<1> HIDE DEF won, dues, kept, fees, total
<1>12. total + dues <= pool'
  <2>1. pool' = pool - cut /\ RewardPool \in Nat
    BY <1>10, <1>11, <1>8
  <2> QED  BY <2>1, <1>4, <1>5, <1>8, <1>9, <1>11
<1> QED  BY <1>1, <1>2, <1>4, <1>5, <1>10, <1>12, <1>13 DEF total, dues

\* A team has no more seats than team_size.
LEMMA SeatsOfTeam ==
  ASSUME SeatInv, NEW c, NEW S, S \subseteq Seats, \A s \in S : s[1] = c
  PROVE  Cardinality(S) <= TeamSize /\ Cardinality(S) \in Nat
<1> DEFINE place == [s \in S |-> s[2]]
<1>1. \A s \in S : s = <<c, s[2]>> /\ s[2] \in 1..TeamSize
  BY SeatTypes DEF SeatInv
<1>2. place \in Injection(S, 1..TeamSize)
  <2>1. place \in [S -> 1..TeamSize] /\ \A s, t \in S : place[s] = place[t] => s = t
    BY <1>1
  <2> HIDE DEF place
  <2> QED  BY <2>1, Fun_IsInj
<1>3. IsFiniteSet(1..TeamSize) /\ Cardinality(1..TeamSize) = TeamSize
  BY FS_Interval, TeamSizeAssumption
<1> QED  BY <1>2, <1>3, FS_Injection, FS_CardinalityType

LEMMA FinalMoneyInv ==
  ASSUME MoneyInv, SeatInv', NEW v \in Users, NEW w \in Players, NEW organizer,
         FinishTournament(v, w, organizer), Quorum(finish_votes')
  PROVE  MoneyInv'
<1> USE Constants
<1>1. /\ status' = "Finished" /\ captain_winner' \in Players /\ reward' \in Nat
      /\ UNCHANGED teams /\ pool' \in Nat
      /\ reward' * TeamSize + EntryFee * Cardinality(RefundSeats) <= pool'
  BY FinalShares DEF entryVars
<1>2. /\ Seats' = Seats /\ Unsettled' = Unsettled /\ CompletedTeams' = CompletedTeams
      /\ \A s \in Seats : SeatAt(s)' = SeatAt(s)
  BY <1>1, SameTeams
<1>3. RefundSeats' = RefundSeats /\ RefundSeats \subseteq Seats
  BY <1>2 DEF RefundSeats, Unsettled
<1>4. Cardinality(PrizeSeats') <= TeamSize /\ Cardinality(PrizeSeats') \in Nat
  <2>1. PrizeSeats' \subseteq Seats /\ \A s \in PrizeSeats' : s[1] = captain_winner'
    BY <1>2 DEF PrizeSeats
  <2> QED  BY <2>1, SeatsOfTeam DEF MoneyInv
<1> DEFINE team == reward' * TeamSize
           prizes == reward' * Cardinality(PrizeSeats')
           dues == EntryFee * Cardinality(RefundSeats)
<1>5. prizes <= team /\ prizes \in Nat /\ team \in Nat
  BY <1>1, <1>4, Distributes
<1>6. dues \in Nat
  BY <1>3, FiniteFees, Distributes DEF MoneyInv
<1>9. team + dues <= pool'
  BY <1>1
<1> HIDE DEF team, prizes, dues
<1>7. prizes + dues <= pool'
  BY <1>1, <1>5, <1>6, <1>9
<1>8. FinalCovered'
  BY <1>3, <1>7 DEF FinalCovered, prizes, dues
<1> QED
  BY <1>1, <1>8 DEF MoneyInv, EscrowBalanced, NothingDrawnEarly
-----------------------------------------------------------------------------
LEMMA StepMoneyInv == MoneyInv /\ [Next]_vars => MoneyInv'
<1> SUFFICES ASSUME MoneyInv, [Next]_vars PROVE MoneyInv'
  OBVIOUS
<1>1. SeatInv /\ SeatInv'
  BY StepSeatInv DEF MoneyInv
<1>2. CASE Register
  BY <1>1, <1>2, RegistrationEnters, EnterMoneyInv
<1>3. CASE Vote
  <2>1. ASSUME NEW v \in Users, StartTournament(v) \/ CancelTournament(v) PROVE MoneyInv'
    BY <1>1, <2>1, QuietMoneyInv
    DEF StartTournament, CancelTournament, Open, entryVars, escrowVars, finishVars
  <2>2. ASSUME NEW v \in Users, NEW w \in Players, NEW o, FinishTournament(v, w, o)
        PROVE  MoneyInv'
    <3>1. CASE Quorum(finish_votes')
      BY <1>1, <2>2, <3>1, FinalMoneyInv
    <3>2. CASE ~Quorum(finish_votes')
      BY <1>1, <2>2, <3>2, QuietMoneyInv DEF FinishTournament, entryVars, escrowVars
    <3> QED  BY <3>1, <3>2
  <2> QED  BY <1>3, <2>1, <2>2 DEF Vote
<1>4. CASE Payout
  <2>1. CASE ClaimSponsorRefund
    <3>1. /\ status = "Canceled" /\ status' = status /\ pool >= SponsorPool
          /\ pool' = pool - SponsorPool /\ sponsorPaid' = sponsorPaid + SponsorPool
          /\ UNCHANGED teams
      BY <2>1 DEF ClaimSponsorRefund, entryVars
    <3>2. /\ Seats' = Seats /\ Unsettled' = Unsettled /\ CompletedTeams' = CompletedTeams
          /\ \A s \in Seats : SeatAt(s)' = SeatAt(s)
      BY <3>1, SameTeams
    <3>3. pool' + sponsorPaid' = pool + sponsorPaid
      BY <3>1, Constants DEF MoneyInv, SeatInv, TypeInv, TypeOK
    <3>4. EscrowBalanced'
      BY <3>1, <3>2, <3>3 DEF MoneyInv, EscrowBalanced
    <3>5. NothingDrawnEarly' /\ FinalCovered'
      BY <3>1, <3>2 DEF MoneyInv, NothingDrawnEarly, FinalCovered
    <3> QED  BY <1>1, <3>4, <3>5 DEF MoneyInv
  <2> QED  BY <1>1, <1>4, <2>1, RefundMoneyInv, RewardMoneyInv DEF Payout
<1>5. CASE Administer \/ UNCHANGED vars
  BY <1>1, <1>5, QuietMoneyInv DEF Administer, vars, entryVars, escrowVars, finishVars
<1> QED  BY <1>2, <1>3, <1>4, <1>5 DEF Next

\* Up to the final the pool balances to the unit, whoever registered in which order
\* and whoever has drawn a refund, and however often the sponsor has asked.
THEOREM PoolBalances == Spec => []EscrowBalanced
<1>1. MoneyInv => EscrowBalanced
  BY DEF MoneyInv
<1> QED  BY <1>1, InitMoneyInv, StepMoneyInv, PTL DEF Spec

-----------------------------------------------------------------------------
(***************************************************************************)
(* Stakes: what a player holds and what it could get back.                 *)
(***************************************************************************)
\* What a transfer of fees from signer to p does to all stakes.
Passed(signer, p, fees) ==
  /\ signer # p
  /\ wallet'[signer] = wallet[signer] - fees
  /\ Stake(signer)' = Stake(signer) - fees
  /\ Stake(p)' = Stake(p) + fees
  /\ \A q \in Players \ {signer, p} : Stake(q)' = Stake(q)

StakesStay == \A p \in Players : Stake(p)' = Stake(p)

\* What StakesKept says of one step.
StakeStep ==
  status' # "Finished" =>
    \/ StakesStay
    \/ LET fees == EntryFee * Cardinality(Unsettled' \ Unsettled)
       IN status = "New" /\ \E signer, p \in Players : Passed(signer, p, fees)

\* Who signs for itself pays what it can get back; who signs for p pays what p can.
LEMMA EnterStakes ==
  ASSUME SeatInv, SeatInv', NEW signer \in Players, NEW p \in Players,
         NEW keys \in Seq(Players), NEW n \in Nat, NEW c \in Players, NEW team,
         Entered(signer, p, keys, n, c, team)
  PROVE  StakeStep
<1> USE Constants
<1> DEFINE A == Added(c, team)
           paid == EntryFee * n
<1>1. /\ Seats \cap A = {} /\ IsFiniteSet(A) /\ Cardinality(A) = n
      /\ \A s \in Seats : Creditor(s)' = Creditor(s)
      /\ \A s \in A : Creditor(s)' = p
      /\ Unsettled' = Unsettled \cup A
  BY EnterUnsettled
<1>2. /\ status = "New" /\ wallet \in [Players -> Nat] /\ paid \in Nat
      /\ wallet' = [wallet EXCEPT ![signer] = @ - paid]
  BY Distributes DEF Entered, Enter, Open, SeatInv, TypeInv, TypeOK
<1>3. Unsettled' \ Unsettled = A /\ Unsettled \subseteq Seats
  BY <1>1 DEF Unsettled
<1>4. EntryFee * Cardinality(Unsettled' \ Unsettled) = paid
  BY <1>1, <1>3
<1> HIDE DEF A
<1>5. ASSUME NEW q \in Players
      PROVE  LET own == EntryFee * Cardinality(FeesOf(q))
                 new == EntryFee * Cardinality(FeesOf(q)')
             IN own \in Nat /\ new = IF q = p THEN own + paid ELSE own
  <2>1. FeesOf(q) \subseteq Seats /\ Cardinality(FeesOf(q)) \in Nat /\ IsFiniteSet(FeesOf(q))
    BY FeesArePart, FiniteFees
  <2>2. CASE q = p
    <3>1. FeesOf(q)' = FeesOf(q) \cup A
      BY <2>2, <1>1, <1>3 DEF FeesOf
    <3>2. FeesOf(q) \cap A = {}
      BY <2>1, <1>1
    <3>3. Cardinality(FeesOf(q) \cup A) = Cardinality(FeesOf(q)) + Cardinality(A) - 0
      BY <2>1, <3>2, <1>1, FS_Union, FS_EmptySet
    <3>4. Cardinality(FeesOf(q)') = Cardinality(FeesOf(q)) + n
      BY <2>1, <3>1, <3>3, <1>1
    <3> QED  BY <2>1, <2>2, <3>4, Distributes
  <2>3. CASE q # p
    <3>1. FeesOf(q)' = FeesOf(q)
      BY <2>3, <1>1, <1>3 DEF FeesOf
    <3> QED  BY <2>1, <2>3, <3>1, Distributes
  <2> QED  BY <2>2, <2>3
<1> HIDE DEF paid
<1>6. \A q \in Players : wallet'[q] = IF q = signer THEN wallet[q] - paid ELSE wallet[q]
  BY <1>2
<1>7. ASSUME NEW q \in Players
      PROVE  /\ q = p /\ q = signer => Stake(q)' = Stake(q)
             /\ q = p /\ q # signer => Stake(q)' = Stake(q) + paid
             /\ q # p /\ q = signer => Stake(q)' = Stake(q) - paid
             /\ q # p /\ q # signer => Stake(q)' = Stake(q)
  <2> DEFINE own == EntryFee * Cardinality(FeesOf(q))
             new == EntryFee * Cardinality(FeesOf(q)')
  <2>1. Stake(q) = wallet[q] + own /\ Stake(q)' = wallet'[q] + new
    BY DEF Stake, FeesOf
  <2>2. own \in Nat /\ new = IF q = p THEN own + paid ELSE own
    BY <1>5
  <2> HIDE DEF own, new
  <2>3. wallet[q] \in Nat /\ wallet'[q] = IF q = signer THEN wallet[q] - paid ELSE wallet[q]
    BY <1>2, <1>6
  <2> DEFINE a == wallet[q]
             b == wallet'[q]
  <2>4. /\ a \in Nat /\ own \in Nat /\ paid \in Nat
        /\ b = IF q = signer THEN a - paid ELSE a
        /\ new = IF q = p THEN own + paid ELSE own
        /\ Stake(q) = a + own /\ Stake(q)' = b + new
    BY <2>1, <2>2, <2>3, <1>2
  <2> HIDE DEF a, b
  <2>5. CASE q = p
    BY <2>4, <2>5
  <2>6. CASE q # p
    BY <2>4, <2>6
  <2> QED  BY <2>5, <2>6
<1>8. CASE signer = p
  <2>1. StakesStay
    BY <1>2, <1>7, <1>8 DEF StakesStay
  <2> QED  BY <2>1 DEF StakeStep
<1>9. CASE signer # p
  <2>1. wallet'[signer] = wallet[signer] - paid
    BY <1>6
  <2>2. Stake(signer)' = Stake(signer) - paid
    BY <1>7, <1>9
  <2>3. Stake(p)' = Stake(p) + paid
    BY <1>7, <1>9
  <2>4. \A q \in Players \ {signer, p} : Stake(q)' = Stake(q)
    BY <1>7
  <2>5. Passed(signer, p, paid)
    BY <2>1, <2>2, <2>3, <2>4, <1>9 DEF Passed
  <2> QED  BY <2>5, <1>2, <1>4 DEF StakeStep
<1> QED  BY <1>8, <1>9

\* A refund is paid out to the unit of what its player could get back, and leaves what
\* the others can.
LEMMA RefundStakes ==
  ASSUME SeatInv, SeatInv', NEW p \in Players, NEW c \in Players, ClaimRefund(p, c)
  PROVE  StakesStay
<1> USE Constants
<1> DEFINE F == FeesOf(p)
           refund == EntryFee * Cardinality(F)
<1>1. PaySeat(p, c, refund)
  BY RefundIsFees DEF ClaimRefund, PaySeat
<1> HIDE DEF refund, F
<1>2. /\ \A s \in Seats : Creditor(s)' = Creditor(s)
      /\ Unsettled' = Unsettled \ F /\ Unsettled \subseteq Seats
  BY <1>1, PaySeatUnsettled DEF F, Unsettled
<1>3. wallet' = [wallet EXCEPT ![p] = @ + refund] /\ wallet \in [Players -> Nat]
  BY <1>1 DEF PaySeat, SeatInv, TypeInv, TypeOK
<1> SUFFICES ASSUME NEW q \in Players PROVE Stake(q)' = Stake(q)
  BY DEF StakesStay
<1>4. /\ Stake(q) = wallet[q] + EntryFee * Cardinality(FeesOf(q))
      /\ Stake(q)' = wallet'[q] + EntryFee * Cardinality(FeesOf(q)')
  BY DEF Stake, FeesOf
<1>5. CASE q = p
  <2>1. FeesOf(q)' = {}
    BY <1>2, <1>5 DEF FeesOf, F
  <2>2. EntryFee * Cardinality(FeesOf(q)') = 0
    BY <2>1, FS_EmptySet
  <2>3. Cardinality(F) \in Nat
    BY FeesArePart, FiniteFees DEF F
  <2>4. refund \in Nat
    BY <2>3, Distributes DEF refund
  <2>5. Stake(q) = wallet[q] + refund
    BY <1>4, <1>5 DEF refund, F
  <2> QED  BY <2>2, <2>4, <2>5, <1>3, <1>4, <1>5
<1>6. CASE q # p
  <2>1. FeesOf(q)' = FeesOf(q)
    BY <1>2, <1>6 DEF FeesOf, F
  <2> QED  BY <2>1, <1>3, <1>4, <1>6
<1> QED  BY <1>5, <1>6

LEMMA QuietStakes == ASSUME UNCHANGED <<teams, wallet>> PROVE StakesStay
<1>1. /\ Unsettled' = Unsettled /\ Unsettled \subseteq Seats
      /\ \A s \in Seats : Creditor(s)' = Creditor(s)
  BY SameTeams DEF Unsettled
<1>2. \A p \in Players : {s \in Unsettled : Creditor(s) = p}' = {s \in Unsettled : Creditor(s) = p}
  BY <1>1
<1> QED  BY <1>2 DEF StakesStay, Stake

LEMMA StepStakes == ASSUME SeatInv, SeatInv', [Next]_vars PROVE StakeStep
<1> SUFFICES ASSUME status' # "Finished" PROVE StakeStep
  BY DEF StakeStep
<1>1. CASE Register
  BY <1>1, RegistrationEnters, EnterStakes
<1>2. ASSUME StakesStay PROVE StakeStep
  BY <1>2 DEF StakeStep
<1>3. CASE Vote
  <2>1. ASSUME NEW v \in Users, StartTournament(v) \/ CancelTournament(v)
        PROVE  UNCHANGED <<teams, wallet>>
    BY <2>1 DEF StartTournament, CancelTournament, entryVars, escrowVars
  <2>2. ASSUME NEW v \in Users, NEW w \in Players, NEW o, FinishTournament(v, w, o)
        PROVE  UNCHANGED <<teams, wallet>>
    BY <2>2 DEF FinishTournament, entryVars, escrowVars
  <2> QED  BY <2>1, <2>2, <1>2, <1>3, QuietStakes DEF Vote
<1>4. CASE Payout
  <2>1. ASSUME NEW p \in Players, NEW c \in Players, ClaimRefund(p, c) PROVE StakeStep
    BY <1>2, <2>1, RefundStakes
  <2>2. ~\E p, c \in Players : ClaimReward(p, c)
    BY DEF ClaimReward, PaySeat
  <2>3. ASSUME ClaimSponsorRefund PROVE StakeStep
    BY <1>2, <2>3, QuietStakes DEF ClaimSponsorRefund, entryVars
  <2> QED  BY <1>4, <2>1, <2>2, <2>3 DEF Payout
<1>5. CASE Administer \/ UNCHANGED vars
  BY <1>2, <1>5, QuietStakes DEF Administer, vars, entryVars, escrowVars
<1> QED  BY <1>1, <1>3, <1>4, <1>5 DEF Next

\* Up to the final no vote and no payout, in any order, changes what a player holds and
\* can get back; a registration does when it is signed for another key, which then
\* can get back to the unit what the signer has paid.
THEOREM StakesAreKept == Spec => StakesKept
<1>1. SeatInv /\ SeatInv' /\ [Next]_vars => [StakeStep]_vars
  BY StepStakes
<1> QED
  BY <1>1, InitSeatInv, StepSeatInv, PTL DEF Spec, StakesKept, StakeStep, StakesStay, Passed

\* What PaidOncePerSeat says of one step.
PaidForSeat ==
  /\ \A p \in Players : wallet'[p] > wallet[p] =>
       \/ status = "Started" /\ status' = "Finished"
       \/ \E s \in Seats : /\ SeatAt(s).pubkey = p
                           /\ ~SeatAt(s).claimed
                           /\ SeatAt(s)'.claimed
  /\ \A s \in Seats : SeatAt(s).claimed => SeatAt(s)'.claimed

LEMMA StepPaidForSeat ==
  ASSUME SeatInv, SeatInv', [Next]_vars
  PROVE  PaidForSeat
<1>1. wallet \in [Players -> Nat] /\ EntryFee \in Nat
  BY Constants DEF SeatInv, TypeInv, TypeOK
<1>2. CASE Register
  <2>1. PICK signer, p, keys, n, c, team :
          /\ signer \in Players /\ p \in Players /\ keys \in Seq(Players) /\ n \in Nat
          /\ c \in Players /\ Entered(signer, p, keys, n, c, team)
    BY <1>2, RegistrationEnters
  <2>2. \A s \in Seats : SeatAt(s)' = SeatAt(s)
    BY <2>1, EnterUnsettled
  <2>3. \A q \in Players : ~(wallet'[q] > wallet[q])
    <3> DEFINE paid == n * EntryFee
    <3>1. paid \in Nat
      BY <1>1, <2>1, NatProduct
    <3>2. wallet' = [wallet EXCEPT ![signer] = @ - paid]
      BY <2>1 DEF Entered, Enter
    <3> HIDE DEF paid
    <3> QED  BY <3>1, <3>2, <1>1
  <2> QED  BY <2>2, <2>3 DEF PaidForSeat
<1>3. ASSUME NEW p \in Players, NEW c \in Players, NEW amount, PaySeat(p, c, amount)
      PROVE  PaidForSeat
  <2> DEFINE t == <<c, SeatOf(teams[c], p)>>
  <2>1. /\ t \in Seats /\ SeatAt(t).pubkey = p /\ ~SeatAt(t).claimed
        /\ \A s \in Seats : SeatAt(s)'.claimed <=> SeatAt(s).claimed \/ s = t
    BY <1>3, PaySeatClaims
  <2>2. \A q \in Players : q # p => wallet'[q] = wallet[q]
    BY <1>1, <1>3 DEF PaySeat
  <2>3. \A q \in Players : q # p => ~(wallet'[q] > wallet[q])
    BY <1>1, <2>2
  <2> QED  BY <2>1, <2>3 DEF PaidForSeat
<1>4. CASE UNCHANGED <<teams, wallet>>
  <2>1. \A q \in Players : ~(wallet'[q] > wallet[q])
    BY <1>1, <1>4
  <2> QED  BY <2>1, <1>4, SameTeams DEF PaidForSeat
<1>5. CASE Administer \/ ClaimSponsorRefund \/ UNCHANGED vars
  BY <1>4, <1>5 DEF Administer, ClaimSponsorRefund, vars, entryVars, escrowVars
<1>6. CASE Vote
  <2>1. ASSUME NEW v \in Users, StartTournament(v) \/ CancelTournament(v) PROVE PaidForSeat
    BY <1>4, <2>1 DEF StartTournament, CancelTournament, entryVars, escrowVars
  <2>2. ASSUME NEW v \in Users, NEW w \in Players, NEW o, FinishTournament(v, w, o)
        PROVE  PaidForSeat
    <3>1. CASE Quorum(finish_votes')
      <4>1. status = "Started" /\ status' = "Finished" /\ UNCHANGED teams
        BY <2>2, <3>1 DEF FinishTournament, entryVars
      <4> QED  BY <4>1, SameTeams DEF PaidForSeat
    <3>2. CASE ~Quorum(finish_votes')
      BY <1>4, <2>2, <3>2 DEF FinishTournament, entryVars, escrowVars
    <3> QED  BY <3>1, <3>2
  <2> QED  BY <1>6, <2>1, <2>2 DEF Vote
<1> QED
  BY <1>2, <1>3, <1>5, <1>6 DEF Next, Payout, ClaimRefund, ClaimReward

\* A player is paid only by the settlement of an open seat of its own, or by the vote
\* that ends the tournament, and a settled seat never opens again.
THEOREM SeatsArePaidOnce == Spec => PaidOncePerSeat
<1>1. SeatInv /\ SeatInv' /\ [Next]_vars => [PaidForSeat]_vars
  BY StepPaidForSeat
<1> QED
  BY <1>1, InitSeatInv, StepSeatInv, PTL DEF Spec, PaidOncePerSeat, PaidForSeat
-----------------------------------------------------------------------------
(***************************************************************************)
(* A sponsor that asks once.                                               *)
(***************************************************************************)
SponsorOnce == sponsorPaid \in {0, SponsorPool}

EscrowInv == MoneyInv /\ SponsorOnce

LEMMA InitEscrowInv == Init => EscrowInv
  BY InitMoneyInv DEF Init, EscrowInv, SponsorOnce

\* The refund that is admitted is the first.
LEMMA FirstSponsorRefund ==
  ASSUME SponsorCalls <= 1, EscrowInv, ClaimSponsorRefund
  PROVE  sponsorPaid = 0 /\ sponsorPaid' = SponsorPool
<1>1. SponsorCalls \in {0, 1} /\ SponsorPool \in Nat /\ sponsorPaid \in Nat
  BY Constants DEF EscrowInv, SponsorOnce
<1>2. SponsorCalls * SponsorPool <= SponsorPool
  BY <1>1
<1>3. sponsorPaid + SponsorPool <= SponsorCalls * SponsorPool
  BY DEF ClaimSponsorRefund
<1> DEFINE limit == SponsorCalls * SponsorPool
<1>4. limit \in Nat
  BY <1>1
<1> HIDE DEF limit
<1>5. sponsorPaid = 0
  BY <1>1, <1>2, <1>3, <1>4 DEF limit
<1> QED  BY <1>1, <1>5 DEF ClaimSponsorRefund

LEMMA StepEscrowInv ==
  ASSUME SponsorCalls <= 1, EscrowInv, [Next]_vars PROVE EscrowInv'
<1>1. MoneyInv'
  BY StepMoneyInv DEF EscrowInv
<1>2. CASE ClaimSponsorRefund
  BY <1>1, <1>2, FirstSponsorRefund DEF EscrowInv, SponsorOnce
<1>3. CASE ~ClaimSponsorRefund
  <2> SUFFICES sponsorPaid' = sponsorPaid
    BY <1>1 DEF EscrowInv, SponsorOnce
  <2>1. ASSUME NEW signer, NEW keys, NEW n, NEW c, NEW team, Enter(signer, keys, n, c, team)
        PROVE  sponsorPaid' = sponsorPaid
    BY <2>1 DEF Enter
  <2>2. CASE Register
    BY <2>1, <2>2 DEF Register, RegisterCaptain, RegisterParticipant
  <2>3. ASSUME NEW v, StartTournament(v) \/ CancelTournament(v) PROVE sponsorPaid' = sponsorPaid
    BY <2>3 DEF StartTournament, CancelTournament, escrowVars
  <2>4. ASSUME NEW v, NEW w, NEW o, FinishTournament(v, w, o) PROVE sponsorPaid' = sponsorPaid
    BY <2>4 DEF FinishTournament, PayCut, escrowVars
  <2>5. CASE Vote
    BY <2>3, <2>4, <2>5 DEF Vote
  <2>6. ASSUME NEW p, NEW c, ClaimRefund(p, c) \/ ClaimReward(p, c)
        PROVE  sponsorPaid' = sponsorPaid
    BY <2>6 DEF ClaimRefund, ClaimReward, PaySeat
  <2>7. CASE Payout
    BY <1>3, <2>6, <2>7 DEF Payout
  <2>8. CASE Administer \/ UNCHANGED vars
    BY <2>8 DEF Administer, vars, escrowVars
  <2> QED  BY <2>2, <2>5, <2>7, <2>8 DEF Next
<1> QED  BY <1>2, <1>3

LEMMA EscrowInvCovers == EscrowInv => PayoutsCovered
<1> SUFFICES ASSUME EscrowInv PROVE PayoutsCovered
  OBVIOUS
<1>1. ASSUME status = "Canceled" PROVE pool >= EntryFee * Cardinality(Unsettled)
  <2> DEFINE dues == EntryFee * Cardinality(Unsettled)
  <2>1. pool + sponsorPaid = SponsorPool + dues
    BY <1>1 DEF EscrowInv, MoneyInv, EscrowBalanced
  <2>2. dues \in Nat
    <3>1. Cardinality(Unsettled) \in Nat
      BY FiniteFees DEF EscrowInv, MoneyInv, Unsettled
    <3> QED  BY <3>1, Constants, NatProduct
  <2>3. sponsorPaid \in Nat /\ sponsorPaid <= SponsorPool /\ pool \in Nat /\ SponsorPool \in Nat
    BY Constants DEF EscrowInv, SponsorOnce, MoneyInv, SeatInv, TypeInv, TypeOK
  <2> HIDE DEF dues
  <2>4. pool >= dues
    BY <2>1, <2>2, <2>3
  <2> QED  BY <2>4 DEF dues
<1> QED  BY <1>1, PrizeSeatsDef DEF EscrowInv, MoneyInv

\* With a sponsor that asks once all that is due can be paid, in whatever order it is
\* drawn.  (With one that asks twice it cannot: run SponsorTwice.)
THEOREM AllDuesAreCovered == ASSUME SponsorCalls <= 1 PROVE Spec => []PayoutsCovered
<1>1. EscrowInv /\ [Next]_vars => EscrowInv'
  BY StepEscrowInv
<1> QED  BY <1>1, InitEscrowInv, EscrowInvCovers, PTL DEF Spec
-----------------------------------------------------------------------------
(***************************************************************************)
(* The tournament implements the escrow.                                   *)
(***************************************************************************)
\* PrizeEscrow counts as this module does.
LEMMA SameCardinality == ASSUME NEW S PROVE Escrow!Cardinality(S) = Cardinality(S)
  BY DEF Escrow!Cardinality, Cardinality

TicketsFor(S) == {<<s, Creditor(s)>> : s \in S}

\* What stands for the variables of PrizeEscrow that the tournament does not have.
Tickets == {<<s, Creditor(s)>> : s \in OpenSeats}
Contributed == IF status = "Finished" THEN 0 ELSE SponsorPool - sponsorPaid

\* There is one ticket for each seat.
LEMMA TicketsCounted ==
  ASSUME SeatInv, NEW S, S \subseteq Seats
  PROVE  Cardinality(TicketsFor(S)) = Cardinality(S) /\ Cardinality(S) \in Nat
<1> DEFINE ticket == [s \in S |-> <<s, Creditor(s)>>]
<1>1. IsFiniteSet(S) /\ Cardinality(S) \in Nat
  BY FiniteFees
<1>2. ticket \in Bijection(S, TicketsFor(S))
  <2>1. /\ ticket \in [S -> TicketsFor(S)]
        /\ \A s, t \in S : ticket[s] = ticket[t] => s = t
        /\ \A u \in TicketsFor(S) : \E s \in S : ticket[s] = u
    BY DEF TicketsFor
  <2> HIDE DEF ticket
  <2> QED  BY <2>1, Fun_IsBij
<1> HIDE DEF ticket
<1> QED  BY <1>1, <1>2, FS_Bijection DEF ExistsBijection

LEMMA OpenSeatsAre ==
  /\ OpenSeats = IF status = "Finished" THEN RefundSeats ELSE Unsettled
  /\ OpenSeats \subseteq Unsettled /\ Unsettled \subseteq Seats
<1>1. Unsettled \subseteq Seats /\ \A s \in Seats : s[1] \in Players
  BY DEF Unsettled, Seats
<1> QED  BY <1>1 DEF OpenSeats, RefundSeats, CompletedTeams

LEMMA OpenSeatsAreNext ==
  (/\ OpenSeats = IF status = "Finished" THEN RefundSeats ELSE Unsettled
   /\ OpenSeats \subseteq Unsettled /\ Unsettled \subseteq Seats)'
  BY OpenSeatsAre, PTL

\* The winners that can draw a prize are the players on the seats that are open.
LEMMA WinnersOnSeats ==
  SeatInv => UnpaidWinners =
    {p \in Players : /\ status = "Finished" /\ captain_winner \in Players
                     /\ \E s \in PrizeSeats : SeatAt(s).pubkey = p}
<1> SUFFICES ASSUME SeatInv, captain_winner \in Players, NEW p \in Players
             PROVE  CanSettle(teams[captain_winner], p) <=>
                      \E s \in PrizeSeats : SeatAt(s).pubkey = p
  BY DEF UnpaidWinners
<1>1. ASSUME CanSettle(teams[captain_winner], p)
      PROVE  \E s \in PrizeSeats : SeatAt(s).pubkey = p
  <2> DEFINE k == SeatOf(teams[captain_winner], p)
  <2>1. /\ k \in DOMAIN teams[captain_winner].participants
        /\ teams[captain_winner].participants[k].pubkey = p
        /\ ~teams[captain_winner].participants[k].claimed
    BY <1>1, SettlingSeat
  <2> HIDE DEF k
  <2>2. /\ <<captain_winner, k>> \in Seats
        /\ SeatAt(<<captain_winner, k>>) = teams[captain_winner].participants[k]
    BY <2>1, PositionIsSeat DEF SeatInv
  <2> QED  BY <2>1, <2>2 DEF PrizeSeats
<1>2. ASSUME NEW s \in PrizeSeats, SeatAt(s).pubkey = p
      PROVE  CanSettle(teams[captain_winner], p)
  <2>1. s \in Seats /\ s[1] = captain_winner /\ ~SeatAt(s).claimed
    BY DEF PrizeSeats
  <2>2. /\ s[2] \in DOMAIN teams[captain_winner].participants
        /\ SeatAt(s) = teams[captain_winner].participants[s[2]]
    BY <2>1, SeatTypes DEF SeatInv, SeatAt
  <2> QED  BY <1>2, <2>1, <2>2, SeatOfPlayer DEF CanSettle
<1> QED  BY <1>1, <1>2

LEMMA WinnersOnSeatsNext ==
  (SeatInv => UnpaidWinners =
    {p \in Players : /\ status = "Finished" /\ captain_winner \in Players
                     /\ \E s \in PrizeSeats : SeatAt(s).pubkey = p})'
  BY WinnersOnSeats, PTL

LEMMA InitIsEscrow == Init => Escrow!Init
<1> SUFFICES ASSUME Init PROVE Escrow!Init
  OBVIOUS
<1>1. Seats = {} /\ OpenSeats = {}
  BY OpenSeatsAre DEF Init, NoTeam, Seats
<1>2. UnpaidWinners = {} /\ SponsorPool - 0 = SponsorPool
  BY Constants DEF Init, UnpaidWinners
<1>3. {<<s, Creditor(s)>> : s \in OpenSeats} = {}
  BY <1>1
<1> QED  BY <1>2, <1>3 DEF Init, Escrow!Init

\* A registration is a deposit of its signer for the player it names.
LEMMA EnterIsDeposit ==
  ASSUME SeatInv, SeatInv', NEW signer \in Players, NEW p \in Players,
         NEW keys \in Seq(Players), NEW n \in Nat, NEW c \in Players, NEW team,
         Entered(signer, p, keys, n, c, team)
  PROVE  Escrow!Deposit(signer, p)
<1> DEFINE A == Added(c, team)
<1>1. /\ Seats' = Seats \cup A /\ Seats \cap A = {} /\ IsFiniteSet(A) /\ Cardinality(A) = n
      /\ \A s \in Seats : Creditor(s)' = Creditor(s)
      /\ \A s \in A : Creditor(s)' = p
      /\ Unsettled' = Unsettled \cup A
  BY EnterUnsettled
<1>2. /\ status = "New" /\ status' = "New" /\ UNCHANGED <<sponsorPaid, reward>>
      /\ wallet[signer] >= n * EntryFee
      /\ wallet' = [wallet EXCEPT ![signer] = @ - n * EntryFee]
      /\ pool' = pool + n * EntryFee
  BY DEF Entered, Enter, Open, finishVars
<1> HIDE DEF A
<1>3. OpenSeats = Unsettled /\ OpenSeats' = Unsettled \cup A /\ Unsettled \subseteq Seats
  BY <1>1, <1>2, OpenSeatsAre, OpenSeatsAreNext
<1>4. Tickets' = Tickets \cup (A \X {p})
  <2>1. \A s \in Unsettled : Creditor(s)' = Creditor(s)
    BY <1>1, <1>3
  <2>2. Tickets = {<<s, Creditor(s)>> : s \in Unsettled}
    BY <1>3 DEF Tickets
  <2>3. Tickets' = {<<s, Creditor(s)'>> : s \in Unsettled \cup A}
    BY <1>3 DEF Tickets
  <2> QED  BY <2>1, <2>2, <2>3, <1>1
<1>5. Tickets' \ Tickets = A \X {p}
  <2>1. \A t \in Tickets : t[1] \in Seats
    BY <1>3 DEF Tickets
  <2>2. \A t \in A \X {p} : t[1] \in A
    OBVIOUS
  <2> QED  BY <2>1, <2>2, <1>1, <1>4
<1>6. Cardinality(Tickets' \ Tickets) = n
  <2>1. IsFiniteSet({p}) /\ Cardinality({p}) = 1
    BY FS_Singleton
  <2>2. Cardinality(A \X {p}) = Cardinality(A) * Cardinality({p})
    BY <2>1, <1>1, FS_Product
  <2>3. n * 1 = n
    OBVIOUS
  <2>4. Cardinality(A \X {p}) = n
    BY <2>1, <2>2, <2>3, <1>1
  <2> QED  BY <2>4, <1>5
<1>7. A \subseteq (Players \X (1..TeamSize)) \ {t[1] : t \in Tickets}
  <2>1. Seats' \subseteq Players \X (1..TeamSize)
    BY DEF Seats
  <2>2. {t[1] : t \in Tickets} \subseteq Seats
    BY <1>3 DEF Tickets
  <2> QED  BY <2>1, <2>2, <1>1
<1>8. UnpaidWinners = {} /\ UnpaidWinners' = {}
  BY <1>2 DEF UnpaidWinners
<1>9. n * EntryFee = EntryFee * Escrow!Cardinality(Tickets' \ Tickets)
  BY <1>6, Constants, Distributes, SameCardinality
<1>10. Tickets' \in SUBSET (Tickets \cup (((Players \X (1..TeamSize)) \ {t[1] : t \in Tickets}) \X {p}))
  BY <1>4, <1>7
<1>11. Tickets \subseteq Tickets' /\ Contributed' = Contributed
  BY <1>2, <1>4 DEF Contributed
<1>12. LET price == EntryFee * Escrow!Cardinality(Tickets' \ Tickets)
       IN /\ wallet[signer] >= price
          /\ wallet' = [wallet EXCEPT ![signer] = @ - price]
          /\ pool' = pool + price
  BY <1>2, <1>9
<1> QED
  BY <1>2, <1>8, <1>10, <1>11, <1>12 DEF Escrow!Deposit, Escrow!Taken, Tickets, Contributed
\* A step that moves no money and announces no result changes nothing but the phase.
LEMMA QuietIsEscrowed ==
  ASSUME UNCHANGED <<teams, pool, wallet, sponsorPaid, captain_winner, reward>>,
         \/ status' = status
         \/ status = "New" /\ status' \in {"Started", "Canceled"}
  PROVE  Escrow!Decide \/ UNCHANGED Escrow!vars
<1>1. OpenSeats' = OpenSeats /\ OpenSeats \subseteq Seats
  BY SameTeams DEF OpenSeats, Unsettled
<1>2. Tickets' = Tickets
  BY <1>1, SameTeams DEF Tickets
<1>3. UnpaidWinners' = UnpaidWinners /\ Contributed' = Contributed
  BY DEF UnpaidWinners, Contributed
<1> QED
  BY <1>2, <1>3 DEF Escrow!Decide, Escrow!vars, Tickets, Contributed

\* What PrizeEscrow calls the tickets of p are those of the seats it is owed for.
LEMMA TicketsOfPlayer ==
  ASSUME NEW p
  PROVE  {t \in Tickets : t[2] = p} = TicketsFor(OpenSeats \cap FeesOf(p))
<1>1. \A s \in OpenSeats : s \in FeesOf(p) <=> Creditor(s) = p
  BY OpenSeatsAre DEF FeesOf
<1> QED  BY <1>1 DEF Tickets, TicketsFor

\* What a settlement by p leaves of the tickets and of the winners.
LEMMA PaySeatIsPaid ==
  ASSUME MoneyInv, SeatInv', NEW p \in Players, NEW c \in Players, NEW amount,
         PaySeat(p, c, amount)
  PROVE  /\ Tickets' = Tickets \ {t \in Tickets : t[2] = p}
         /\ UnpaidWinners' = UnpaidWinners \ {p}
         /\ Contributed' = Contributed
<1> DEFINE t == <<c, SeatOf(teams[c], p)>>
<1>1. /\ Seats' = Seats /\ \A s \in Seats : Creditor(s)' = Creditor(s)
      /\ Unsettled' = Unsettled \ FeesOf(p)
  BY PaySeatUnsettled DEF MoneyInv
<1>2. /\ t \in Seats /\ SeatAt(t).pubkey = p
      /\ \A s \in Seats : /\ SeatAt(s)'.claimed <=> SeatAt(s).claimed \/ s = t
                          /\ SeatAt(s)'.pubkey = SeatAt(s).pubkey
      /\ CompletedTeams' = CompletedTeams
  BY PaySeatClaims DEF MoneyInv
<1>3. UNCHANGED <<status, sponsorPaid, captain_winner>>
  BY DEF PaySeat, finishVars
<1> HIDE DEF t
<1>4. OpenSeats' = OpenSeats \ FeesOf(p) /\ OpenSeats \subseteq Unsettled /\ Unsettled \subseteq Seats
  <2>1. RefundSeats' = RefundSeats \ FeesOf(p)
    BY <1>1, <1>2 DEF RefundSeats
  <2> QED  BY <2>1, <1>1, <1>3, OpenSeatsAre, OpenSeatsAreNext
<1>5. Tickets' = Tickets \ {u \in Tickets : u[2] = p}
  <2>1. Tickets' = {<<s, Creditor(s)>> : s \in OpenSeats \ FeesOf(p)}
    BY <1>1, <1>4 DEF Tickets
  <2>2. \A s \in OpenSeats : s \in FeesOf(p) <=> Creditor(s) = p
    BY <1>4 DEF FeesOf
  <2> QED  BY <2>1, <2>2 DEF Tickets
<1>6. PrizeSeats' = PrizeSeats \ {t}
  BY <1>1, <1>2, <1>3 DEF PrizeSeats
<1>7. UnpaidWinners' = UnpaidWinners \ {p}
  <2>1. UnpaidWinners = {q \in Players : /\ status = "Finished" /\ captain_winner \in Players
                                         /\ \E s \in PrizeSeats : SeatAt(s).pubkey = q}
    BY WinnersOnSeats DEF MoneyInv
  <2>2. UnpaidWinners' = {q \in Players : /\ status' = "Finished" /\ captain_winner' \in Players
                                          /\ \E s \in PrizeSeats' : SeatAt(s)'.pubkey = q}
    BY WinnersOnSeatsNext
  <2>3. \A s \in PrizeSeats : SeatAt(s)'.pubkey = SeatAt(s).pubkey
    BY <1>2 DEF PrizeSeats
  <2>4. \A s \in PrizeSeats : s = t <=> SeatAt(s).pubkey = p
    BY <1>2, SeatInvOneSeat DEF MoneyInv, OneSeatPerPlayer, PrizeSeats
  <2> QED  BY <2>1, <2>2, <2>3, <2>4, <1>3, <1>6
<1>8. Contributed' = Contributed
  BY <1>3 DEF Contributed
<1> QED  BY <1>5, <1>7, <1>8

LEMMA ClaimRefundIsRefund ==
  ASSUME MoneyInv, SeatInv', NEW p \in Players, NEW c \in Players, ClaimRefund(p, c)
  PROVE  Escrow!Refund(p)
<1> DEFINE refund == EntryFee * Escrow!Cardinality({t \in Tickets : t[2] = p})
<1>1. CanSettle(teams[c], p) /\ Refundable(c)
  BY DEF ClaimRefund, PaySeat
<1>2. /\ RefundCount(c, teams[c], p) = Cardinality(FeesOf(p))
      /\ FeesOf(p) \subseteq Unsettled /\ \A s \in FeesOf(p) : s[1] = c
  BY <1>1, RefundIsFees DEF MoneyInv
<1>3. FeesOf(p) \subseteq OpenSeats
  BY <1>1, <1>2 DEF OpenSeats, Refundable
<1>4. Cardinality({t \in Tickets : t[2] = p}) = Cardinality(FeesOf(p))
  <2>1. OpenSeats \cap FeesOf(p) = FeesOf(p) /\ FeesOf(p) \subseteq Seats
    BY <1>3, OpenSeatsAre
  <2> QED  BY <2>1, TicketsOfPlayer, TicketsCounted DEF MoneyInv
<1>5. PaySeat(p, c, refund)
  BY <1>2, <1>4, SameCardinality DEF ClaimRefund
<1> HIDE DEF refund
<1>6. /\ status # "New" /\ status' = status /\ reward' = reward
      /\ refund <= pool /\ pool' = pool - refund /\ wallet' = [wallet EXCEPT ![p] = @ + refund]
  BY <1>1, <1>5 DEF PaySeat, Refundable, finishVars
<1>7. pool >= refund
  <2>1. pool \in Nat /\ refund \in Nat
    <3>1. FeesOf(p) \subseteq Seats
      BY <1>3, OpenSeatsAre
    <3>2. Cardinality(FeesOf(p)) \in Nat
      BY <3>1, FiniteFees DEF MoneyInv
    <3>3. refund = EntryFee * Cardinality(FeesOf(p))
      BY <1>4, SameCardinality DEF refund
    <3> QED
      BY <3>2, <3>3, Constants, NatProduct DEF MoneyInv, SeatInv, TypeInv, TypeOK
  <2> QED  BY <2>1, <1>6
<1>8. /\ Tickets' = Tickets \ {t \in Tickets : t[2] = p}
      /\ UnpaidWinners' = UnpaidWinners \ {p} /\ Contributed' = Contributed
  BY <1>5, PaySeatIsPaid
<1>9. refund = EntryFee * Escrow!Cardinality({t \in Tickets : t[2] = p})
  BY DEF refund
<1> QED
  BY <1>6, <1>7, <1>8, <1>9 DEF Escrow!Refund, Escrow!Pay, Escrow!TicketsOf, Tickets, Contributed

LEMMA ClaimRewardIsReward ==
  ASSUME MoneyInv, SeatInv', NEW p \in Players, NEW c \in Players, ClaimReward(p, c)
  PROVE  Escrow!Reward(p)
<1>1. PaySeat(p, c, reward) /\ status = "Finished" /\ captain_winner = c
  BY DEF ClaimReward
<1>2. /\ UNCHANGED <<status, reward>> /\ pool' = pool - reward /\ CanSettle(teams[c], p)
      /\ wallet' = [wallet EXCEPT ![p] = @ + reward] /\ reward <= pool
  BY <1>1 DEF PaySeat, finishVars
<1>3. pool >= reward
  BY <1>2 DEF MoneyInv, SeatInv, TypeInv, TypeOK
<1>4. p \in UnpaidWinners
  BY <1>1, <1>2 DEF UnpaidWinners
<1>5. /\ Tickets' = Tickets \ {t \in Tickets : t[2] = p}
      /\ UnpaidWinners' = UnpaidWinners \ {p} /\ Contributed' = Contributed
  BY <1>1, PaySeatIsPaid
<1> QED
  BY <1>1, <1>2, <1>3, <1>4, <1>5
  DEF Escrow!Reward, Escrow!Pay, Escrow!TicketsOf, Tickets, Contributed

LEMMA SponsorRefundIsReturn ==
  ASSUME SponsorCalls <= 1, EscrowInv, ClaimSponsorRefund
  PROVE  Escrow!ReturnContribution
<1>1. sponsorPaid = 0 /\ sponsorPaid' = SponsorPool
  BY FirstSponsorRefund
<1>2. /\ status = "Canceled" /\ pool >= SponsorPool /\ pool' = pool - SponsorPool
      /\ UNCHANGED <<status, teams, wallet, captain_winner, reward>>
  BY DEF ClaimSponsorRefund, entryVars, finishVars
<1>3. Contributed = SponsorPool /\ Contributed' = 0
  BY <1>1, <1>2, Constants DEF Contributed
<1>4. OpenSeats' = OpenSeats /\ OpenSeats \subseteq Seats
  BY <1>2, SameTeams DEF OpenSeats, Unsettled
<1>5. Tickets' = Tickets
  BY <1>2, <1>4, SameTeams DEF Tickets
<1>6. UnpaidWinners' = UnpaidWinners
  BY <1>2 DEF UnpaidWinners
<1> QED
  BY <1>2, <1>3, <1>5, <1>6 DEF Escrow!ReturnContribution, Tickets, Contributed
\* The vote that ends the tournament: the pool covers the prizes announced and the
\* refunds of the teams that were never full.
LEMMA FinalIsFinish ==
  ASSUME MoneyInv, SeatInv', NEW v \in Users, NEW w \in Players, NEW organizer,
         FinishTournament(v, w, organizer), Quorum(finish_votes')
  PROVE  Escrow!Finish
<1> USE Constants
<1>1. /\ status = "Started" /\ status' = "Finished" /\ captain_winner' \in Players
      /\ reward' \in Nat /\ TeamSize > 0 /\ UNCHANGED teams
      /\ pool' \in Nat /\ pool' <= pool
      /\ reward' * TeamSize + EntryFee * Cardinality(RefundSeats) <= pool'
      /\ \/ UNCHANGED wallet
         \/ \E p \in Players : wallet' = [wallet EXCEPT ![p] = @ + (pool - pool')]
  BY FinalShares DEF entryVars
<1>2. /\ Seats' = Seats /\ Unsettled' = Unsettled /\ CompletedTeams' = CompletedTeams
      /\ \A s \in Seats : SeatAt(s)' = SeatAt(s) /\ Creditor(s)' = Creditor(s)
  BY <1>1, SameTeams
<1>3. /\ OpenSeats = Unsettled /\ OpenSeats' = RefundSeats /\ Unsettled \subseteq Seats
      /\ RefundSeats \subseteq Unsettled
  <2>1. RefundSeats' = RefundSeats /\ RefundSeats \subseteq Unsettled
    BY <1>2 DEF RefundSeats
  <2> QED  BY <2>1, <1>1, OpenSeatsAre, OpenSeatsAreNext
<1>4. Tickets = TicketsFor(Unsettled) /\ Tickets' = TicketsFor(RefundSeats)
  <2>1. Tickets' = {<<s, Creditor(s)'>> : s \in RefundSeats}
    BY <1>3 DEF Tickets
  <2> QED  BY <2>1, <1>2, <1>3 DEF Tickets, TicketsFor
<1>5. Tickets' \in SUBSET Tickets
  BY <1>3, <1>4 DEF TicketsFor
<1>6. ASSUME NEW p \in Players
      PROVE  LET own == {t \in Tickets : t[2] = p}
             IN own \subseteq Tickets' \/ own \cap Tickets' = {}
  <2>1. \A s, t \in Unsettled : Creditor(s) = p /\ Creditor(t) = p => s[1] = t[1]
    <3> SUFFICES ASSUME NEW s \in Unsettled, NEW t \in Unsettled, Creditor(s) = p, Creditor(t) = p
                 PROVE  s[1] = t[1]
      OBVIOUS
    <3>1. s \in Seats /\ t \in Seats
      BY <1>3
    <3>2. t[1] \in Players /\ CreditorSeat(t) \in DOMAIN teams[t[1]].participants
          /\ teams[t[1]].participants[CreditorSeat(t)].pubkey = p
      BY <3>1, SeatTypes, CreditorSeated DEF MoneyInv, SeatInv
    <3> QED  BY <3>1, <3>2, SameCreditor DEF MoneyInv
  <2>2. \A s \in Unsettled : s \in RefundSeats <=> s[1] \notin CompletedTeams
    BY DEF RefundSeats
  <2>3. CASE \E s \in RefundSeats : Creditor(s) = p
    <3>1. \A s \in Unsettled : Creditor(s) = p => s \in RefundSeats
      BY <2>1, <2>2, <2>3, <1>3
    <3> QED  BY <3>1, <1>4 DEF TicketsFor
  <2>4. CASE ~\E s \in RefundSeats : Creditor(s) = p
    BY <2>4, <1>4 DEF TicketsFor
  <2> QED  BY <2>3, <2>4
<1>7. Cardinality(UnpaidWinners') <= TeamSize /\ Cardinality(UnpaidWinners') \in Nat
  <2> DEFINE S == PrizeSeats'
             player == [s \in S |-> SeatAt(s).pubkey]
  <2>1. S \subseteq Seats /\ \A s \in S : s[1] = captain_winner'
    BY <1>2 DEF PrizeSeats
  <2>2. Cardinality(S) <= TeamSize /\ Cardinality(S) \in Nat /\ IsFiniteSet(S)
    BY <2>1, SeatsOfTeam, FiniteFees DEF MoneyInv
  <2>3. UnpaidWinners' = {q \in Players : \E s \in S : SeatAt(s).pubkey = q}
    <3>1. UnpaidWinners' = {q \in Players : /\ status' = "Finished" /\ captain_winner' \in Players
                                            /\ \E s \in PrizeSeats' : SeatAt(s)'.pubkey = q}
      BY WinnersOnSeatsNext
    <3>2. \A s \in S : SeatAt(s)' = SeatAt(s)
      BY <2>1, <1>2
    <3> QED  BY <3>1, <3>2, <1>1
  <2>4. \A s \in S : SeatAt(s).pubkey \in Players
    <3>1. \A s \in Seats : SeatAt(s) \in Seat
      BY SeatTypes DEF MoneyInv, SeatInv
    <3> QED  BY <3>1, <2>1 DEF Seat
  <2> HIDE DEF S
  <2>5. player \in Surjection(S, UnpaidWinners')
    <3>1. player \in [S -> UnpaidWinners'] /\ \A q \in UnpaidWinners' : \E s \in S : player[s] = q
      BY <2>3, <2>4
    <3> HIDE DEF player
    <3> QED  BY <3>1, Fun_IsSurj
  <2> HIDE DEF player
  <2>6. IsFiniteSet(UnpaidWinners') /\ Cardinality(UnpaidWinners') <= Cardinality(S)
    BY <2>2, <2>5, FS_Surjection
  <2>7. Cardinality(UnpaidWinners') \in Nat
    BY <2>6, FS_CardinalityType
  <2> QED  BY <2>2, <2>6, <2>7
<1>8. Cardinality(Tickets') = Cardinality(RefundSeats) /\ Cardinality(RefundSeats) \in Nat
  BY <1>3, <1>4, TicketsCounted DEF MoneyInv
<1> DEFINE team == reward' * TeamSize
           prizes == reward' * Cardinality(UnpaidWinners')
           dues == EntryFee * Cardinality(RefundSeats)
<1>9. prizes <= team /\ prizes \in Nat /\ team \in Nat /\ dues \in Nat
  BY <1>1, <1>7, <1>8, Distributes
<1>10. team + dues <= pool'
  BY <1>1
<1>11. reward' \in 0..pool
  <2>1. reward' <= team
    BY <1>1, ProductCovers
  <2> HIDE DEF team, dues
  <2>2. pool \in Nat
    BY DEF MoneyInv, SeatInv, TypeInv, TypeOK
  <2> QED  BY <2>1, <2>2, <1>1, <1>9, <1>10
<1>12. pool' \in 0..pool /\ UnpaidWinners' \in SUBSET Players /\ Contributed' = 0
  <2>1. pool \in Nat
    BY DEF MoneyInv, SeatInv, TypeInv, TypeOK
  <2> QED  BY <2>1, <1>1 DEF UnpaidWinners, Contributed
<1>13. Contributed' + reward' * Escrow!Cardinality(UnpaidWinners')
         + EntryFee * Escrow!Cardinality(Tickets') <= pool'
  <2>1. /\ reward' * Escrow!Cardinality(UnpaidWinners') = prizes
        /\ EntryFee * Escrow!Cardinality(Tickets') = dues
    BY <1>8, SameCardinality
  <2> HIDE DEF prizes, dues, team
  <2>2. 0 + prizes + dues <= pool'
    BY <1>1, <1>9, <1>10
  <2> QED  BY <2>1, <2>2, <1>12
<1> QED
  BY <1>1, <1>5, <1>6, <1>11, <1>12, <1>13
  DEF Escrow!Finish, Escrow!Due, Escrow!TicketsOf, Tickets, Contributed

LEMMA StepIsEscrowed ==
  ASSUME SponsorCalls <= 1, EscrowInv, MoneyInv', [Next]_vars
  PROVE  [Escrow!Next]_(Escrow!vars)
<1>1. MoneyInv /\ SeatInv /\ SeatInv'
  BY DEF EscrowInv, MoneyInv
<1>2. CASE Register
  <2>1. PICK signer, p, keys, n, c, team :
          /\ signer \in Players /\ p \in Players /\ keys \in Seq(Players) /\ n \in Nat
          /\ c \in Players /\ Entered(signer, p, keys, n, c, team)
    BY <1>1, <1>2, RegistrationEnters
  <2>2. Escrow!Deposit(signer, p)
    BY <1>1, <2>1, EnterIsDeposit
  <2> QED  BY <2>1, <2>2 DEF Escrow!Next
<1>3. ASSUME Escrow!Decide \/ UNCHANGED Escrow!vars PROVE [Escrow!Next]_(Escrow!vars)
  BY <1>3 DEF Escrow!Next
<1>4. CASE Vote
  <2>1. ASSUME NEW v \in Users, StartTournament(v) \/ CancelTournament(v)
        PROVE  [Escrow!Next]_(Escrow!vars)
    <3>1. /\ UNCHANGED <<teams, pool, wallet, sponsorPaid, captain_winner, reward>>
          /\ status = "New" /\ status' \in {"New", "Started", "Canceled"}
      BY <2>1 DEF StartTournament, CancelTournament, Open, entryVars, escrowVars, finishVars
    <3> QED  BY <3>1, <1>3, QuietIsEscrowed
  <2>2. ASSUME NEW v \in Users, NEW w \in Players, NEW o, FinishTournament(v, w, o)
        PROVE  [Escrow!Next]_(Escrow!vars)
    <3>1. CASE Quorum(finish_votes')
      BY <1>1, <2>2, <3>1, FinalIsFinish DEF Escrow!Next
    <3>2. CASE ~Quorum(finish_votes')
      <4>1. UNCHANGED <<teams, pool, wallet, sponsorPaid, captain_winner, reward, status>>
        BY <2>2, <3>2 DEF FinishTournament, entryVars, escrowVars
      <4> QED  BY <4>1, <1>3, QuietIsEscrowed
    <3> QED  BY <3>1, <3>2
  <2> QED  BY <1>4, <2>1, <2>2 DEF Vote
<1>5. CASE Payout
  <2>1. ASSUME NEW p \in Players, NEW c \in Players, ClaimRefund(p, c) \/ ClaimReward(p, c)
        PROVE  [Escrow!Next]_(Escrow!vars)
    BY <1>1, <2>1, ClaimRefundIsRefund, ClaimRewardIsReward DEF Escrow!Next
  <2>2. CASE ClaimSponsorRefund
    BY <2>2, SponsorRefundIsReturn DEF Escrow!Next
  <2> QED  BY <1>5, <2>1, <2>2 DEF Payout
<1>6. CASE Administer \/ UNCHANGED vars
  <2>1. UNCHANGED <<teams, pool, wallet, sponsorPaid, captain_winner, reward, status>>
    BY <1>6 DEF Administer, vars, entryVars, escrowVars, finishVars
  <2> QED  BY <2>1, <1>3, QuietIsEscrowed
<1> QED  BY <1>2, <1>4, <1>5, <1>6 DEF Next

\* With a sponsor that asks once every payout of a tournament is one the abstract
\* escrow makes: the fees of the tickets a player holds, whoever has bought them, a
\* winner's prize, the contribution or the organizer's share, each drawn once from a
\* pool that covers all of them.
THEOREM TournamentIsEscrow == ASSUME SponsorCalls <= 1 PROVE Spec => IsEscrow
<1>1. EscrowInv /\ [Next]_vars => EscrowInv'
  BY StepEscrowInv
<1>2. EscrowInv /\ EscrowInv' /\ [Next]_vars => [Escrow!Next]_(Escrow!vars)
  BY StepIsEscrowed DEF EscrowInv
<1> QED
  BY <1>1, <1>2, InitEscrowInv, InitIsEscrow, PTL DEF Spec, IsEscrow, Escrow!Spec
=============================================================================
