----------------------------- MODULE SeatProofs -----------------------------
(***************************************************************************)
(* Nobody sits twice, completed teams are counted exactly, and there are   *)
(* never more of them than max_teams: for any number of players and teams. *)
(***************************************************************************)
EXTENDS TournamentProofs, FunctionTheorems

\* A team is founded by its captain, who takes the first seat and pays for it.
FoundedByCaptain ==
  \A c \in Players :
    LET seats == teams[c].participants
    IN teams[c].team_size > 0 =>
         Len(seats) > 0 /\ seats[1].pubkey = c /\ seats[1].paid_by_captain

\* The filter holds every player that has a seat.
SeatedAreInFilter ==
  \A c \in Players : \A i \in DOMAIN teams[c].participants :
    teams[c].participants[i].pubkey \in bloom

\* OneSeatPerPlayer with captains and positions apart.
SeatsDiffer ==
  \A c, d \in Players :
    \A i \in DOMAIN teams[c].participants, j \in DOMAIN teams[d].participants :
      teams[c].participants[i].pubkey = teams[d].participants[j].pubkey => c = d /\ i = j

\* The filter is never overfull.
FilterFits == IsFiniteSet(bloom) /\ Cardinality(bloom) <= BloomCapacity

\* A registration is let in for keys the filter does not know, so the filter has to
\* be part of the invariant, and a captain's seat tells a founded team from an
\* account nobody has used.
SeatInv ==
  TypeInv /\ FoundedByCaptain /\ SeatedAreInFilter /\ SeatsDiffer /\ TeamCountExact /\ FilterFits
-----------------------------------------------------------------------------
\* A list without repetitions has as many members as positions.
LEMMA MembersCounted ==
  ASSUME NEW S, NEW list \in Seq(S), IsInjective(list)
  PROVE  IsFiniteSet(ToSet(list)) /\ Cardinality(ToSet(list)) = Len(list)
<1>1. Len(list) \in Nat /\ DOMAIN list = 1..Len(list)
  OBVIOUS
<1>2. list \in [1..Len(list) -> ToSet(list)]
  BY <1>1 DEF ToSet
<1>3. list \in Bijection(1..Len(list), ToSet(list))
  <2>1. \A a, b \in 1..Len(list) : list[a] = list[b] => a = b
    BY <1>1 DEF IsInjective
  <2>2. \A x \in ToSet(list) : \E a \in 1..Len(list) : list[a] = x
    BY <1>1 DEF ToSet
  <2> QED  BY <1>2, <2>1, <2>2, Fun_IsBij
<1>4. IsFiniteSet(1..Len(list)) /\ Cardinality(1..Len(list)) = Len(list)
  BY <1>1, FS_Interval
<1> QED
  BY <1>3, <1>4, FS_Bijection DEF ExistsBijection

\* Completed teams have a captain in the filter, so there are finitely many.
LEMMA CompletedTeamsFinite ==
  ASSUME SeatInv
  PROVE  CompletedTeams \subseteq bloom /\ IsFiniteSet(CompletedTeams)
<1>1. ASSUME NEW c \in CompletedTeams PROVE c \in bloom
  <2>1. c \in Players /\ teams[c] \in Team /\ teams[c].completed
    BY DEF CompletedTeams, SeatInv, TypeInv, TypeOK
  <2>2. teams[c].participants \in Seq(Seat) /\ teams[c].team_size \in Nat
    BY <2>1, TeamSizeAssumption DEF Team
  <2>3. teams[c].team_size > 0
    BY <2>1, <2>2 DEF SeatInv, TeamCountExact
  <2>4. 1 \in DOMAIN teams[c].participants /\ teams[c].participants[1].pubkey = c
    BY <2>1, <2>2, <2>3 DEF SeatInv, FoundedByCaptain
  <2> QED  BY <2>1, <2>4 DEF SeatInv, SeatedAreInFilter
<1> QED
  BY <1>1, FS_Subset DEF SeatInv, FilterFits

LEMMA InitSeatInv == Init => SeatInv
<1> SUFFICES ASSUME Init PROVE SeatInv
  OBVIOUS
<1>1. \A c \in Players : /\ Len(teams[c].participants) = 0
                         /\ DOMAIN teams[c].participants = {}
                         /\ ~teams[c].completed /\ teams[c].team_size = 0
  BY DEF Init, NoTeam
<1>2. FoundedByCaptain /\ SeatedAreInFilter /\ SeatsDiffer
  BY <1>1 DEF FoundedByCaptain, SeatedAreInFilter, SeatsDiffer
<1>3. TeamCountExact
  <2>1. CompletedTeams = {}
    BY <1>1 DEF CompletedTeams
  <2>2. team_count = 0
    BY DEF Init
  <2> QED  BY <1>1, <2>1, <2>2, FS_EmptySet DEF TeamCountExact
<1>4. FilterFits
  BY Constants, FS_EmptySet, NatProduct DEF Init, FilterFits, BloomCapacity
<1> QED  BY <1>2, <1>3, <1>4, InitTypeInv DEF SeatInv
-----------------------------------------------------------------------------
(***************************************************************************)
(* Registration                                                            *)
(***************************************************************************)
\* What a registration makes of the team of c: the seats that were there stay, the
\* new ones belong to the first keys, and the first of all is the captain's.
Grows(c, keys, team) ==
  LET old == teams[c].participants
      new == team.participants
  IN /\ SoundTeam(team) /\ team.team_size = TeamSize /\ TeamSize > 0
     /\ ~teams[c].completed
     /\ team.completed = (Len(new) = TeamSize)
     /\ Len(new) > Len(old) /\ Len(new) <= Len(old) + Len(keys)
     /\ \A i \in 1..Len(old) : new[i] = old[i]
     /\ \A k \in 1..(Len(new) - Len(old)) : new[Len(old) + k].pubkey = keys[k]
     /\ new[1].pubkey = c /\ new[1].paid_by_captain

\* A team account in the types of the invariant.
LEMMA TeamTypes ==
  ASSUME TypeInv, NEW c \in Players
  PROVE  /\ SoundTeam(teams[c]) /\ teams[c] \in Team
         /\ teams[c].participants \in Seq(Seat)
         /\ Len(teams[c].participants) \in Nat
         /\ DOMAIN teams[c].participants = 1..Len(teams[c].participants)
         /\ teams[c].team_size \in Nat
<1>1. teams[c] \in Team /\ SoundTeam(teams[c])
  BY DEF TypeInv, TypeOK, SoundTeam
<1>2. teams[c].participants \in Seq(Seat) /\ teams[c].team_size \in Nat
  BY <1>1, TeamSizeAssumption DEF Team
<1> QED  BY <1>1, <1>2

\* A captain finds its account unused, for otherwise the filter would know it.
LEMMA CaptainGrows ==
  ASSUME SeatInv, NEW p \in Players, NEW keys \in Seq(Players), Len(keys) > 0, keys[1] = p,
         BloomAccepts(keys), CanAddParticipantsByCaptain(NewTeam, keys)
  PROVE  Grows(p, keys, AddParticipantsByCaptain(NewTeam, keys))
<1> DEFINE old == teams[p].participants
           team == AddParticipantsByCaptain(NewTeam, keys)
<1>1. /\ teams[p] \in Team /\ old \in Seq(Seat) /\ Len(old) \in Nat
      /\ DOMAIN old = 1..Len(old) /\ teams[p].team_size \in Nat
      /\ Len(old) <= teams[p].team_size
  BY TeamTypes DEF SeatInv, SoundTeam
<1>2. 1 \in DOMAIN keys /\ p \in ToSet(keys)
  BY DEF ToSet
<1>3. p \notin bloom
  BY <1>2 DEF BloomAccepts
<1>4. Len(old) = 0
  <2> SUFFICES ASSUME Len(old) > 0 PROVE FALSE
    BY <1>1
  <2>1. old[1].pubkey = p /\ 1 \in DOMAIN old
    BY <1>1 DEF SeatInv, FoundedByCaptain
  <2>2. old[1].pubkey \in bloom
    BY <2>1 DEF SeatInv, SeatedAreInFilter
  <2> QED  BY <2>1, <2>2, <1>3
<1>5. ~teams[p].completed
  BY <1>1, <1>4 DEF SeatInv, TeamCountExact
<1>6. /\ SoundTeam(team) /\ team.team_size = TeamSize
      /\ team.participants = [i \in 1..Len(keys) |-> NewSeat(keys[i], TRUE)]
      /\ Len(team.participants) = Len(keys)
      /\ team.completed = (Len(keys) = TeamSize)
  BY CaptainTeamSound
<1>7. TeamSize > 0
  BY TeamSizeAssumption DEF CanAddParticipantsByCaptain, NewTeam
<1>8. Len(keys) \in Nat
  OBVIOUS
<1> HIDE DEF old, team
<1>9. \A k \in 1..Len(keys) : /\ team.participants[k].pubkey = keys[k]
                              /\ team.participants[k].paid_by_captain
  BY <1>6 DEF NewSeat
<1>10. Grows(p, keys, team)
  <2>1. team.completed = (Len(team.participants) = TeamSize)
    BY <1>6
  <2>2. Len(team.participants) > Len(old) /\ Len(team.participants) <= Len(old) + Len(keys)
    BY <1>4, <1>6, <1>8
  <2>3. \A i \in 1..Len(old) : team.participants[i] = old[i]
    BY <1>4
  <2>4. \A k \in 1..(Len(team.participants) - Len(old)) :
          team.participants[Len(old) + k].pubkey = keys[k]
    <3> SUFFICES ASSUME NEW k \in 1..(Len(team.participants) - Len(old))
                 PROVE  team.participants[Len(old) + k].pubkey = keys[k]
      OBVIOUS
    <3>1. k \in 1..Len(keys) /\ Len(old) + k = k
      BY <1>4, <1>6, <1>8
    <3> QED  BY <3>1, <1>9
  <2>5. team.participants[1].pubkey = p /\ team.participants[1].paid_by_captain
    BY <1>8, <1>9
  <2> QED  BY <1>5, <1>6, <1>7, <2>1, <2>2, <2>3, <2>4, <2>5 DEF Grows, old
<1> QED  BY <1>10 DEF team

\* A player that joins takes the next seat of a team that has been founded.
LEMMA JoinerGrows ==
  ASSUME SeatInv, NEW p \in Players, NEW c \in Players, NEW keys \in Seq(Players),
         Len(keys) > 0, keys[1] = p, CanAddParticipant(teams[c])
  PROVE  Grows(c, keys, AddParticipant(teams[c], p))
<1> DEFINE old == teams[c].participants
           team == AddParticipant(teams[c], p)
<1>1. /\ SoundTeam(teams[c]) /\ teams[c] \in Team /\ old \in Seq(Seat) /\ Len(old) \in Nat
      /\ DOMAIN old = 1..Len(old) /\ teams[c].team_size \in Nat
  BY TeamTypes DEF SeatInv
<1>2. /\ SoundTeam(team) /\ teams[c].team_size = TeamSize /\ TeamSize > 0
      /\ team.team_size = TeamSize
      /\ team.participants = Append(old, NewSeat(p, FALSE))
      /\ Len(team.participants) = Len(old) + 1
      /\ team.completed = (teams[c].completed \/ Len(team.participants) = TeamSize)
  BY <1>1, JoinedTeamSound
<1>3. ~teams[c].completed
  BY <1>1, <1>2 DEF SeatInv, TeamCountExact, CanAddParticipant
<1>4. Len(old) > 0 /\ old[1].pubkey = c /\ old[1].paid_by_captain
  BY <1>1, <1>2 DEF SeatInv, FoundedByCaptain
<1>5. /\ \A i \in 1..Len(old) : team.participants[i] = old[i]
      /\ team.participants[Len(old) + 1].pubkey = p
  <2> DEFINE seat == NewSeat(p, FALSE)
  <2>1. seat \in Seat /\ seat.pubkey = p
    BY DEF NewSeat, Seat
  <2> HIDE DEF seat
  <2>2. Append(old, seat)[Len(old) + 1] = seat /\ \A i \in 1..Len(old) : Append(old, seat)[i] = old[i]
    BY <1>1, <2>1, AppendProperties
  <2> QED  BY <1>2, <2>1, <2>2 DEF seat
<1>6. Len(keys) \in Nat
  OBVIOUS
<1> HIDE DEF old, team
<1>7. Grows(c, keys, team)
  <2>1. team.completed = (Len(team.participants) = TeamSize)
    BY <1>2, <1>3
  <2>2. Len(team.participants) > Len(old) /\ Len(team.participants) <= Len(old) + Len(keys)
    BY <1>1, <1>2, <1>6
  <2>3. \A k \in 1..(Len(team.participants) - Len(old)) :
          team.participants[Len(old) + k].pubkey = keys[k]
    <3> SUFFICES ASSUME NEW k \in 1..(Len(team.participants) - Len(old))
                 PROVE  team.participants[Len(old) + k].pubkey = keys[k]
      OBVIOUS
    <3>1. k = 1
      BY <1>1, <1>2
    <3> QED  BY <3>1, <1>5
  <2>4. team.participants[1].pubkey = c /\ team.participants[1].paid_by_captain
    BY <1>1, <1>4, <1>5
  <2> QED  BY <1>2, <1>3, <1>5, <2>1, <2>2, <2>3, <2>4 DEF Grows, old
<1> QED  BY <1>7 DEF team

LEMMA EnterSeatInv ==
  ASSUME SeatInv, NEW signer \in Players, NEW keys \in Seq(Players), NEW seats \in Nat,
         NEW c \in Players, NEW team, Grows(c, keys, team),
         Enter(signer, keys, seats, c, team)
  PROVE  SeatInv'
<1> DEFINE old == teams[c].participants
           new == team.participants
<1>1. TypeInv'
  BY EnterTypeInv DEF SeatInv, Grows
<1>2. /\ teams'[c] = team
      /\ \A d \in Players : d # c => teams'[d] = teams[d]
      /\ bloom' = bloom \cup ToSet(keys)
      /\ IsInjective(keys) /\ ToSet(keys) \cap bloom = {}
      /\ Cardinality(bloom) + Len(keys) <= BloomCapacity
      /\ team_count' = IF team.completed THEN team_count + 1 ELSE team_count
  BY DEF Enter, BloomAccepts, SeatInv, TypeInv, TypeOK
<1>3. /\ old \in Seq(Seat) /\ Len(old) \in Nat /\ DOMAIN old = 1..Len(old)
      /\ new \in Seq(Seat) /\ Len(new) \in Nat /\ DOMAIN new = 1..Len(new)
      /\ Len(keys) \in Nat /\ DOMAIN keys = 1..Len(keys)
  BY TeamTypes DEF SeatInv, Grows, SoundTeam, Team
\* A seat of c is an old one, or the k-th new one and belongs to the k-th key.
<1>4. ASSUME NEW i \in DOMAIN new
      PROVE  \/ i \in DOMAIN old /\ new[i] = old[i]
             \/ \E k \in DOMAIN keys : i = Len(old) + k /\ new[i].pubkey = keys[k]
  <2>1. CASE i <= Len(old)
    BY <2>1, <1>3 DEF Grows
  <2>2. CASE ~(i <= Len(old))
    <3> DEFINE k == i - Len(old)
    <3>1. i \in 1..Len(new)
      BY <1>3
    <3>2. k \in 1..(Len(new) - Len(old)) /\ i = Len(old) + k
      <4> DEFINE a == Len(old)
                 b == Len(new)
      <4>1. a \in Nat /\ b \in Nat /\ i \in 1..b /\ ~(i <= a)
        BY <2>2, <3>1, <1>3
      <4> HIDE DEF a, b
      <4>2. i - a \in 1..(b - a) /\ i = a + (i - a)
        BY <4>1
      <4> QED  BY <4>2 DEF a, b
    <3>3. k \in DOMAIN keys
      BY <3>2, <1>3 DEF Grows
    <3>4. new[Len(old) + k].pubkey = keys[k]
      BY <3>2 DEF Grows
    <3> QED  BY <3>2, <3>3, <3>4
  <2> QED  BY <2>1, <2>2
<1>5. FoundedByCaptain'
  <2> SUFFICES ASSUME NEW d \in Players, teams'[d].team_size > 0
               PROVE  LET s == teams'[d].participants
                      IN Len(s) > 0 /\ s[1].pubkey = d /\ s[1].paid_by_captain
    BY DEF FoundedByCaptain
  <2>1. CASE d = c
    BY <2>1, <1>2, <1>3 DEF Grows
  <2>2. CASE d # c
    BY <2>2, <1>2 DEF SeatInv, FoundedByCaptain
  <2> QED  BY <2>1, <2>2
<1>6. SeatedAreInFilter'
  <2> SUFFICES ASSUME NEW d \in Players, NEW i \in DOMAIN teams'[d].participants
               PROVE  teams'[d].participants[i].pubkey \in bloom'
    BY DEF SeatedAreInFilter
  <2>1. CASE d = c
    BY <2>1, <1>2, <1>4 DEF SeatInv, SeatedAreInFilter, ToSet
  <2>2. CASE d # c
    BY <2>2, <1>2 DEF SeatInv, SeatedAreInFilter
  <2> QED  BY <2>1, <2>2
<1>7. SeatsDiffer'
  <2> SUFFICES ASSUME NEW d \in Players, NEW e \in Players,
                      NEW i \in DOMAIN teams'[d].participants,
                      NEW j \in DOMAIN teams'[e].participants,
                      teams'[d].participants[i].pubkey = teams'[e].participants[j].pubkey
               PROVE  d = e /\ i = j
    BY DEF SeatsDiffer
  <2> DEFINE Before(f, h) == /\ h \in DOMAIN teams[f].participants
                             /\ teams'[f].participants[h] = teams[f].participants[h]
             Added(f, h) == /\ f = c
                            /\ \E k \in DOMAIN keys : /\ h = Len(old) + k
                                                      /\ teams'[f].participants[h].pubkey = keys[k]
  <2>1. ASSUME NEW f \in Players, NEW h \in DOMAIN teams'[f].participants
        PROVE  Before(f, h) \/ Added(f, h)
    <3>1. CASE f = c
      BY <3>1, <1>2, <1>4
    <3>2. CASE f # c
      BY <3>2, <1>2
    <3> QED  BY <3>1, <3>2
  <2>2. ASSUME NEW f \in Players, NEW h, Before(f, h)
        PROVE  teams'[f].participants[h].pubkey \in bloom
    BY <2>2 DEF SeatInv, SeatedAreInFilter
  <2>3. ASSUME NEW f \in Players, NEW h, Added(f, h)
        PROVE  teams'[f].participants[h].pubkey \notin bloom
    BY <2>3, <1>2 DEF ToSet
  <2>4. CASE Before(d, i) /\ Before(e, j)
    BY <2>4 DEF SeatInv, SeatsDiffer
  <2>5. CASE Added(d, i) /\ Added(e, j)
    <3>1. PICK k \in DOMAIN keys : i = Len(old) + k /\ teams'[d].participants[i].pubkey = keys[k]
      BY <2>5
    <3>2. PICK l \in DOMAIN keys : j = Len(old) + l /\ teams'[e].participants[j].pubkey = keys[l]
      BY <2>5
    <3>3. k = l
      BY <3>1, <3>2, <1>2 DEF IsInjective
    <3> QED  BY <2>5, <3>1, <3>2, <3>3
  <2> QED
    BY <2>1, <2>2, <2>3, <2>4, <2>5
<1>8. TeamCountExact'
  <2>1. c \notin CompletedTeams
    BY DEF Grows, CompletedTeams
  <2>2. CompletedTeams' = IF team.completed THEN CompletedTeams \cup {c} ELSE CompletedTeams
    BY <1>2, <2>1 DEF CompletedTeams
  <2>3. Cardinality(CompletedTeams)' = team_count'
    BY <1>2, <2>1, <2>2, CompletedTeamsFinite, FS_AddElement DEF SeatInv, TeamCountExact
  <2>4. ASSUME NEW d \in Players
        PROVE  teams'[d].completed <=>
                 teams'[d].team_size > 0 /\ Len(teams'[d].participants) = teams'[d].team_size
    <3>1. CASE d = c
      BY <3>1, <1>2 DEF Grows
    <3>2. CASE d # c
      BY <3>2, <1>2 DEF SeatInv, TeamCountExact
    <3> QED  BY <3>1, <3>2
  <2> QED  BY <2>3, <2>4 DEF TeamCountExact
<1>9. FilterFits'
  <2>1. IsFiniteSet(ToSet(keys)) /\ Cardinality(ToSet(keys)) = Len(keys)
    BY <1>2, MembersCounted
  <2>2. IsFiniteSet(bloom) /\ Cardinality(bloom) \in Nat
    BY FS_CardinalityType DEF SeatInv, FilterFits
  <2>3. /\ IsFiniteSet(bloom \cup ToSet(keys))
        /\ Cardinality(bloom \cup ToSet(keys)) = Cardinality(bloom) + Cardinality(ToSet(keys)) - Cardinality({})
    <3>1. bloom \cap ToSet(keys) = {}
      BY <1>2
    <3> QED  BY <2>1, <2>2, <3>1, FS_Union
  <2>4. Cardinality(bloom') <= BloomCapacity
    BY <1>2, <1>3, <2>1, <2>2, <2>3, FS_EmptySet
  <2> QED  BY <1>2, <2>3, <2>4 DEF FilterFits, BloomCapacity
<1> QED  BY <1>1, <1>5, <1>6, <1>7, <1>8, <1>9 DEF SeatInv
-----------------------------------------------------------------------------
(***************************************************************************)
(* Every other step leaves players and creditors where they are.           *)
(***************************************************************************)
SameSeats ==
  \A c \in Players :
    LET old == teams[c]
        new == teams'[c]
    IN /\ new.team_size = old.team_size /\ new.completed = old.completed
       /\ Len(new.participants) = Len(old.participants)
       /\ DOMAIN new.participants = DOMAIN old.participants
       /\ \A i \in DOMAIN old.participants :
            /\ new.participants[i].pubkey = old.participants[i].pubkey
            /\ new.participants[i].paid_by_captain = old.participants[i].paid_by_captain

LEMMA SameSeatsSeatInv ==
  ASSUME SeatInv, TypeInv', SameSeats, UNCHANGED <<bloom, team_count>>
  PROVE  SeatInv'
<1>1. FoundedByCaptain'
  <2> SUFFICES ASSUME NEW c \in Players, teams'[c].team_size > 0
               PROVE  LET s == teams'[c].participants
                      IN Len(s) > 0 /\ s[1].pubkey = c /\ s[1].paid_by_captain
    BY DEF FoundedByCaptain
  <2>1. 1 \in DOMAIN teams[c].participants
    BY TeamTypes DEF SeatInv, FoundedByCaptain, SameSeats
  <2> QED  BY <2>1 DEF SeatInv, FoundedByCaptain, SameSeats
<1>2. SeatedAreInFilter'
  BY DEF SeatInv, SeatedAreInFilter, SameSeats
<1>3. SeatsDiffer'
  BY DEF SeatInv, SeatsDiffer, SameSeats
<1>4. TeamCountExact'
  <2>1. CompletedTeams' = CompletedTeams
    BY DEF CompletedTeams, SameSeats
  <2> QED  BY <2>1 DEF SeatInv, TeamCountExact, SameSeats
<1>5. FilterFits'
  BY DEF SeatInv, FilterFits, BloomCapacity
<1> QED  BY <1>1, <1>2, <1>3, <1>4, <1>5 DEF SeatInv

LEMMA PaySeatSameSeats ==
  ASSUME TypeInv, NEW p \in Players, NEW c \in Players, NEW amount, PaySeat(p, c, amount)
  PROVE  SameSeats
<1>1. teams' = [teams EXCEPT ![c] = Settle(teams[c], p)] /\ teams \in [Players -> Team]
  BY DEF PaySeat, TypeInv, TypeOK
<1>2. SoundTeam(teams[c])
  BY TeamTypes
<1> DEFINE new == Settle(teams[c], p)
<1>3. /\ new.team_size = teams[c].team_size /\ new.completed = teams[c].completed
      /\ Len(new.participants) = Len(teams[c].participants)
      /\ DOMAIN new.participants = DOMAIN teams[c].participants
  BY <1>2, SettleSound
<1>4. \A i \in DOMAIN teams[c].participants :
        /\ new.participants[i].pubkey = teams[c].participants[i].pubkey
        /\ new.participants[i].paid_by_captain = teams[c].participants[i].paid_by_captain
  BY <1>2, SettledSeats
<1> HIDE DEF new
<1>5. teams'[c] = new /\ \A d \in Players : d # c => teams'[d] = teams[d]
  BY <1>1 DEF new
<1> QED  BY <1>3, <1>4, <1>5 DEF SameSeats

LEMMA StepSeatInv == SeatInv /\ [Next]_vars => SeatInv'
<1> SUFFICES ASSUME SeatInv, [Next]_vars PROVE SeatInv'
  OBVIOUS
<1>1. TypeInv /\ TypeInv'
  BY StepTypeInv DEF SeatInv
<1>2. CASE Register
  <2>1. PICK signer \in Players, p \in Players, teammates \in MateLists :
          \/ RegisterCaptain(signer, p, teammates)
          \/ \E c \in Players : RegisterParticipant(signer, p, c, teammates)
    BY <1>2, SignedRegistration
  <2> DEFINE keys == <<p>> \o teammates
  <2>2. keys \in Seq(Players) /\ Len(keys) \in Nat /\ Len(keys) > 0 /\ keys[1] = p
    <3>1. <<p>> \in Seq(Players) /\ Len(<<p>>) = 1 /\ <<p>>[1] = p
      BY OneElement
    <3>2. teammates \in Seq(Players)
      BY ConfigAssumption
    <3> QED  BY <3>1, <3>2, ConcatProperties
  <2> HIDE DEF keys
  <2>3. CASE RegisterCaptain(signer, p, teammates)
    <3>1. /\ CanAddParticipantsByCaptain(NewTeam, keys)
          /\ Enter(signer, keys, Len(keys), p, AddParticipantsByCaptain(NewTeam, keys))
      BY <2>3 DEF RegisterCaptain, keys
    <3>2. Grows(p, keys, AddParticipantsByCaptain(NewTeam, keys))
      BY <2>2, <3>1, CaptainGrows DEF Enter
    <3> QED  BY <2>2, <3>1, <3>2, EnterSeatInv
  <2>4. CASE \E c \in Players : RegisterParticipant(signer, p, c, teammates)
    <3>1. PICK c \in Players : RegisterParticipant(signer, p, c, teammates)
      BY <2>4
    <3>2. /\ CanAddParticipant(teams[c])
          /\ Enter(signer, keys, 1, c, AddParticipant(teams[c], p))
      BY <3>1 DEF RegisterParticipant, keys
    <3>3. Grows(c, keys, AddParticipant(teams[c], p))
      BY <2>2, <3>2, JoinerGrows
    <3> QED  BY <2>2, <3>2, <3>3, EnterSeatInv
  <2> QED  BY <2>1, <2>3, <2>4
<1>3. ASSUME NEW p \in Players, NEW c \in Players, NEW amount, PaySeat(p, c, amount)
      PROVE  SeatInv'
  BY <1>1, <1>3, PaySeatSameSeats, SameSeatsSeatInv DEF PaySeat
<1>4. CASE UNCHANGED <<teams, bloom, team_count>>
  BY <1>1, <1>4, SameSeatsSeatInv DEF SameSeats
<1>5. CASE UNCHANGED vars
  BY <1>4, <1>5 DEF vars, entryVars
<1>6. CASE Administer \/ Vote \/ ClaimSponsorRefund
  BY <1>4, <1>6 DEF Administer, Vote, StartTournament, CancelTournament, FinishTournament,
                    ClaimSponsorRefund, entryVars
<1> QED
  BY <1>2, <1>3, <1>5, <1>6 DEF Next, Payout, ClaimRefund, ClaimReward
-----------------------------------------------------------------------------
\* A pair in Seats is determined by its parts.
LEMMA SeatParts ==
  ASSUME TypeInv
  PROVE  \A s \in Seats : /\ s[1] \in Players
                          /\ s[2] \in DOMAIN teams[s[1]].participants
                          /\ s = <<s[1], s[2]>>
  BY DEF Seats

LEMMA SeatInvOneSeat == SeatInv => OneSeatPerPlayer
<1> SUFFICES ASSUME SeatInv, NEW s \in Seats, NEW t \in Seats, SeatAt(s).pubkey = SeatAt(t).pubkey
             PROVE  s = t
  BY DEF OneSeatPerPlayer
<1>1. s[1] = t[1] /\ s[2] = t[2]
  BY SeatParts DEF SeatInv, SeatsDiffer, SeatAt
<1> QED  BY <1>1, SeatParts DEF SeatInv

\* Nobody ever sits twice, whichever captains and players register in which order.
THEOREM OneSeatEach == Spec => []OneSeatPerPlayer
  BY InitSeatInv, StepSeatInv, SeatInvOneSeat, PTL DEF Spec

\* The number the prize is computed from is always the number of full teams.
THEOREM TeamsAreCounted == Spec => []TeamCountExact
<1>1. SeatInv => TeamCountExact
  BY DEF SeatInv
<1> QED  BY <1>1, InitSeatInv, StepSeatInv, PTL DEF Spec
-----------------------------------------------------------------------------
\* The full teams' seats are distinct players in the filter, which has max_teams *
\* team_size places.
LEMMA SeatInvWithinMaxTeams == SeatInv => WithinMaxTeams
<1> SUFFICES ASSUME SeatInv PROVE team_count <= MaxTeams
  BY DEF WithinMaxTeams
<1> USE Constants
<1> DEFINE full == CompletedTeams \X (1..TeamSize)
           player == [s \in full |-> teams[s[1]].participants[s[2]].pubkey]
<1>1. \A s \in full : /\ s[1] \in Players /\ s = <<s[1], s[2]>>
                      /\ s[2] \in DOMAIN teams[s[1]].participants
  <2> SUFFICES ASSUME NEW c \in CompletedTeams
               PROVE  c \in Players /\ DOMAIN teams[c].participants = 1..TeamSize
    OBVIOUS
  <2>1. c \in Players /\ teams[c].completed /\ teams[c].team_size \in {0, TeamSize}
    BY TeamTypes DEF SeatInv, CompletedTeams, Team
  <2>2. teams[c].team_size = TeamSize /\ Len(teams[c].participants) = TeamSize
    BY <2>1 DEF SeatInv, TeamCountExact
  <2> QED  BY <2>1, <2>2, TeamTypes DEF SeatInv
<1>2. player \in Injection(full, bloom)
  <2>1. player \in [full -> bloom]
    BY <1>1 DEF SeatInv, SeatedAreInFilter
  <2>2. ASSUME NEW s \in full, NEW t \in full, player[s] = player[t] PROVE s = t
    <3>1. s[1] = t[1] /\ s[2] = t[2]
      BY <1>1, <2>2 DEF SeatInv, SeatsDiffer
    <3> QED  BY <3>1, <1>1
  <2> HIDE DEF full, player
  <2> QED  BY <2>1, <2>2, Fun_IsInj
<1>3. IsFiniteSet(1..TeamSize) /\ Cardinality(1..TeamSize) = TeamSize
  BY FS_Interval
<1>4. IsFiniteSet(CompletedTeams) /\ Cardinality(CompletedTeams) = team_count
  BY CompletedTeamsFinite DEF SeatInv, TeamCountExact
<1>5. Cardinality(full) = team_count * TeamSize
  BY <1>3, <1>4, FS_Product
<1>6. Cardinality(full) <= Cardinality(bloom) /\ Cardinality(bloom) <= MaxTeams * TeamSize
  <2> HIDE DEF full, player
  <2> QED  BY <1>2, FS_Injection DEF SeatInv, FilterFits, BloomCapacity
<1>7. Cardinality(bloom) \in Nat /\ team_count \in Nat
  BY FS_CardinalityType DEF SeatInv, FilterFits, TypeInv, TypeOK
<1> HIDE DEF full
<1>8. team_count * TeamSize <= MaxTeams * TeamSize
  BY <1>5, <1>6, <1>7, NatProduct
<1>9. team_count # 0 => TeamSize > 0
  BY DEF SeatInv, TypeInv, Divisible
<1> QED  BY <1>7, <1>8, <1>9

\* No more than max_teams teams are completed though registration does not compare
\* the two: the filter's account has no room for the players of one more.
THEOREM TeamLimit == Spec => []WithinMaxTeams
  BY InitSeatInv, StepSeatInv, SeatInvWithinMaxTeams, PTL DEF Spec
=============================================================================
