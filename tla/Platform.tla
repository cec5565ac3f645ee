------------------------------ MODULE Platform ------------------------------
(***************************************************************************)
(* The platform from its initialization on: the roles, the tokens, the     *)
(* tournaments that are created and voted on one beside the other, and the *)
(* account from which all role holders are paid.                           *)
(*                                                                         *)
(* The admin appoints, sets the filter's precision and withdraws; operators*)
(* approve and ban tokens; organizers create tournaments and pay a fee to  *)
(* the platform for each; verifiers earn a fee with each vote to start or  *)
(* to cancel; all of them draw what they earned.  A tournament is a        *)
(* TournamentBook here: votes on the winner and payouts leave the accounts *)
(* of the platform alone, their claims are never stored.                   *)
(*                                                                         *)
(* An instruction is one atomic step, and only accounts declared mut are   *)
(* written back: RoleInfo is not in CreateTournament, so that the platform *)
(* fee taken from a claim there is not stored.                             *)
(***************************************************************************)
EXTENDS TournamentBook, BloomSizing

CONSTANTS
  InitHolders,     \* the RoleLists after the first appointments
  Grants, Revokes, \* the <<user, role>> pairs the admin may grant and revoke
  Tokens,          \* the mints of assets
  Limits,          \* the pairs min_sponsor_pool, min_entry_fee an operator may set
  NotApproved,     \* a mint without a TokenInfo account
  Terms,           \* the TournamentConfigs an organizer may send
  Precisions,      \* the arguments of set_bloom_precision
  Amounts,         \* the arguments of withdraw
  FirstNonce, FirstPrecision,   \* GenomeSingleConfig as initialized
  LastNonce,       \* u32::MAX, the value the nonce cannot pass
  SeatBound,       \* a bound of the model: from this many seats on nobody registers
  VerifierFee, PlatformFee, MaxOrganizerFee, MinTeams, MaxTeams,
  UserFunds        \* the NOME that a user holds at first

ASSUME PlatformAssumption ==
  /\ {FirstNonce, FirstPrecision, LastNonce, SeatBound, VerifierFee, PlatformFee,
      MaxOrganizerFee, MinTeams, MaxTeams, UserFunds} \subseteq Nat
  /\ FirstNonce <= LastNonce
  /\ Precisions \subseteq Nat /\ Amounts \subseteq Nat
  /\ \A r \in Role : InitHolders[r] \in Seq(Users) /\ IsInjective(InitHolders[r])
  /\ Len(InitHolders["Verifier"]) \in 1..MaxVerifiers
  /\ Grants \subseteq Users \X Role
  /\ Revokes \subseteq Users \X Role
  /\ Limits \subseteq [min_sponsor_pool : Nat, min_entry_fee : Nat]
  /\ NotApproved \notin Limits
  /\ Terms \subseteq [organizer_fee : Nat, sponsor_pool : Nat, entry_fee : Nat,
                      team_size : Nat, min_teams : Nat, max_teams : Nat, asset_mint : Tokens]

VARIABLES
  claim,            \* claim[u]: RoleInfo.claim of u
  nome,             \* nome[u]: the NOME on u's token account
  platform,         \* balance of platform_ata
  adminFunds,       \* balance of admin_ata
  tokenInfo,        \* tokenInfo[t]: the limits in t's TokenInfo, or NotApproved
  false_precision,  \* GenomeSingleConfig.false_precision
  nonce,            \* GenomeSingleConfig.tournament_nonce
  tournaments       \* by id: organizer, config, book, and the filter's account

moneyVars == <<claim, nome, platform, adminFunds>>
configVars == <<tokenInfo, false_precision, nonce>>
vars == <<roleVars, moneyVars, configVars, tournaments>>
-----------------------------------------------------------------------------
\* initialize has stored the configuration and the admin has made its first
\* appointments.
Init ==
  /\ roleList = [r \in Role |-> InitHolders[r]]
  /\ roles = [u \in Users |-> {r \in Role : Contains(InitHolders[r], u)}]
  /\ claim = [u \in Users |-> 0]
  /\ nome = [u \in Users |-> UserFunds]
  /\ platform = 0
  /\ adminFunds = 0
  /\ tokenInfo = [t \in Tokens |-> NotApproved]
  /\ false_precision = FirstPrecision
  /\ nonce = FirstNonce
  /\ tournaments = <<>>
-----------------------------------------------------------------------------
Administer ==
  /\ \/ \E g \in Grants : GrantRole(g[1], g[2])
     \/ \E g \in Revokes : RevokeRole(g[1], g[2])
  /\ UNCHANGED <<moneyVars, configVars, tournaments>>

\* The account is made or overwritten.
ApproveToken(u, t, limits) ==
  /\ "Operator" \in roles[u]
  /\ tokenInfo' = [tokenInfo EXCEPT ![t] = limits]
  /\ UNCHANGED <<roleVars, moneyVars, false_precision, nonce, tournaments>>

\* The account is closed.
BanToken(u, t) ==
  /\ "Operator" \in roles[u]
  /\ tokenInfo[t] # NotApproved
  /\ tokenInfo' = [tokenInfo EXCEPT ![t] = NotApproved]
  /\ UNCHANGED <<roleVars, moneyVars, false_precision, nonce, tournaments>>

MinPrecision == 0
MaxPrecision == 100000000

SetBloomPrecision(precision) ==
  /\ MinPrecision < precision /\ precision <= MaxPrecision
  /\ false_precision' = precision
  /\ UNCHANGED <<roleVars, moneyVars, tokenInfo, nonce, tournaments>>
-----------------------------------------------------------------------------
\* validate_params.  The terms are those not expired when they are sent.
ValidParams(terms) ==
  LET limits == tokenInfo[terms.asset_mint]
  IN /\ limits # NotApproved
     /\ terms.organizer_fee <= MaxOrganizerFee
     /\ terms.entry_fee >= limits.min_entry_fee
     /\ terms.sponsor_pool >= limits.min_sponsor_pool
     /\ terms.min_teams >= MinTeams /\ terms.max_teams <= MaxTeams

\* max_teams * team_size, a product of u16.
Places(terms) == terms.max_teams * terms.team_size

\* An organizer whose claim reaches the fee does not pay from its account; the
\* claim that is reduced is not the one that is stored.
PayPlatformFee(o) ==
  \/ /\ claim[o] >= PlatformFee
     /\ UNCHANGED moneyVars
  \/ /\ claim[o] < PlatformFee
     /\ nome[o] >= PlatformFee
     /\ nome' = [nome EXCEPT ![o] = @ - PlatformFee]
     /\ platform' = platform + PlatformFee
     /\ UNCHANGED <<claim, adminFunds>>

\* The sponsor is one that has the contribution it is to pay in.
CreateTournament(o, terms) ==
  /\ "Organizer" \in roles[o]
  /\ ValidParams(terms)
  /\ Places(terms) <= U16Max
  /\ FilterAccepted(Places(terms), false_precision)
  /\ nonce < LastNonce
  /\ nonce' = nonce + 1
  /\ tournaments' = [id \in DOMAIN tournaments \cup {nonce} |->
       IF id # nonce THEN tournaments[id]
       ELSE [organizer |-> o, config |-> terms, book |-> NewBook,
             precision |-> false_precision,
             space |-> AccountSpace(Places(terms), false_precision)]]
  /\ PayPlatformFee(o)
  /\ UNCHANGED <<roleVars, tokenInfo, false_precision>>
-----------------------------------------------------------------------------
\* Players enter.  The filter has to fit its account with the first key.
RegisterTournament(id) ==
  LET t == tournaments[id]
  IN /\ t.book.seats < SeatBound
     /\ CanRegister(t.book)
     /\ StoredBytes(Places(t.config), t.precision) <= t.space
     /\ \E b \in Registered(t.book, t.config.team_size, Places(t.config)) :
          tournaments' = [tournaments EXCEPT ![id].book = b]
     /\ UNCHANGED <<roleVars, moneyVars, configVars>>

StartTournament(v, id) ==
  /\ CanStart(tournaments[id].book, v)
  /\ tournaments' = [tournaments EXCEPT ![id].book = Start(@, v)]
  /\ claim' = [claim EXCEPT ![v] = @ + VerifierFee]
  /\ UNCHANGED <<roleVars, nome, platform, adminFunds, configVars>>

\* The organizer is credited what it paid for the tournament.  Its RoleInfo is
\* stored last.
CancelTournament(v, id) ==
  LET o == tournaments[id].organizer
      canceled == Cancel(tournaments[id].book, v)
      credit == IF canceled.status = "Canceled" THEN PlatformFee ELSE 0
  IN /\ CanCancel(tournaments[id].book, v)
     /\ "Organizer" \in roles[o]
     /\ tournaments' = [tournaments EXCEPT ![id].book = canceled]
     /\ claim' = [claim EXCEPT ![v] = @ + VerifierFee, ![o] = claim[o] + credit]
     /\ UNCHANGED <<roleVars, nome, platform, adminFunds, configVars>>
-----------------------------------------------------------------------------
\* The claim is reduced and paid from the platform's account.
PayClaim(u, amount) ==
  /\ claim[u] >= amount
  /\ claim' = [claim EXCEPT ![u] = @ - amount]
  /\ platform' = platform - amount
  /\ nome' = [nome EXCEPT ![u] = @ + amount]
  /\ UNCHANGED <<roleVars, adminFunds, configVars, tournaments>>

\* Faulty: the claim is paid and stays; the balance is not looked at; only
\* organizers can draw.
ClaimRoleFundAgain(u, amount) ==
  /\ roles[u] # {}
  /\ claim[u] >= amount
  /\ platform >= amount
  /\ platform' = platform - amount
  /\ nome' = [nome EXCEPT ![u] = @ + amount]
  /\ UNCHANGED <<roleVars, claim, adminFunds, configVars, tournaments>>

ClaimRoleFundOverdrawn(u, amount) == roles[u] # {} /\ PayClaim(u, amount)

ClaimRoleFundOfOrganizers(u, amount) ==
  "Organizer" \in roles[u] /\ platform >= amount /\ PayClaim(u, amount)

\* A user that still has a role draws a part of its claim.
ClaimRoleFund(u, amount) ==
  /\ roles[u] # {}
  /\ platform >= amount
  /\ PayClaim(u, amount)

\* The admin takes from the platform's account; the claims are not looked at.
Withdraw(amount) ==
  /\ platform >= amount
  /\ platform' = platform - amount
  /\ adminFunds' = adminFunds + amount
  /\ UNCHANGED <<roleVars, claim, nome, configVars, tournaments>>
-----------------------------------------------------------------------------
Configure ==
  \/ \E u \in Users, t \in Tokens :
       BanToken(u, t) \/ \E limits \in Limits : ApproveToken(u, t, limits)
  \/ \E precision \in Precisions : SetBloomPrecision(precision)

Operate ==
  \/ \E o \in Users, terms \in Terms : CreateTournament(o, terms)
  \/ \E id \in DOMAIN tournaments :
       \/ RegisterTournament(id)
       \/ \E v \in Users : StartTournament(v, id) \/ CancelTournament(v, id)

Settle ==
  \/ \E u \in Users : \E amount \in 1..claim[u] : ClaimRoleFund(u, amount)
  \/ \E amount \in Amounts : Withdraw(amount)

Next == Administer \/ Configure \/ Operate \/ Settle

Spec == Init /\ [][Next]_vars
=============================================================================
