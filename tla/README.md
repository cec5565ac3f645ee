# Genome: TLA+ models, model checking and proofs

Genome is a Solana program for team tournaments. Organizers create tournaments,
players pay to register in teams, verifiers decide by vote when a tournament
starts, is canceled or has a winner, and players, organizers and sponsors then
draw their money. This directory models the single-chain program
(`programs/genome-solana/src`), checks it with TLC and proves part of it with TLAPS.

Paths below are relative to `programs/genome-solana/src`; `ix/` stands for
`instructions/singlechain/`.

## 1. The system

### Parts, state and operations

| Part | State it keeps | Operations | What makes it correct |
|---|---|---|---|
| Role registry: `ix/grant_role.rs`, `ix/revoke_role.rs` | one `RoleInfo` per user (roles, claim), one `RoleList` per role (holders in order of appointment) | `grant_role`, `revoke_role`, by the admin | both records agree, no repetitions, at most 64 verifiers, nobody who stays changes rank |
| Team account: `team.rs` | seats with who is owed the fee and a claimed flag, size, completed | `new`, `add_participants_by_captain`, `add_participant`, `refund_participant`, `reward_participant` | never over size, completed exactly when full, a seat settled once |
| Registration: `ix/register_tournament.rs` | team accounts, `team_count`, bloom filter, reward pool | `register_tournament` (captain's branch, joiner's branch) | one seat per player, `team_count` exact, at most `max_teams`, the pool receives a fee per seat |
| Consensus: `ix/start_tournament.rs`, `ix/cancel_tournament.rs`, `ix/finish_tournament.rs` | three u64 masks, ballots, winner, reward, status, claims | one vote each | one vote per verifier and question, thresholds take effect, majority wins, fees match votes, the outcome is final |
| Payouts: `ix/claim_refund.rs`, `ix/claim_reward.rs`, `ix/claim_sponros_refund.rs` | claimed flags, reward pool | one claim each | paid once, to the key the fee is owed to or the winner, and the pool covers it in every order |
| Creation: `ix/create_tournament.rs`, `utils.rs` | tournament accounts, nonce, platform fee | `create_tournament` | parameters within the platform's limits, fee paid |
| Platform accounts: `ix/initialize.rs`, `ix/claim_role_fund.rs`, `ix/withdraw.rs` | configuration, the platform's NOME account | initialize, claim by role holders, withdrawal by the admin | recorded claims can be paid |
| Token whitelist: `ix/approve_token.rs`, `ix/ban_token.rs` | one `TokenInfo` per approved mint | approve, ban, by an operator | only approved tokens are used by new tournaments |
| Filter sizing: `utils.rs`, `ix/set_bloom_precision.rs` | precision | set precision, compute the account size | the account fits the limit |
| Omnichain configuration: `instructions/omnichain/` | one configuration account | initialize, set fee | stores values nothing else reads |
| Client: `common/`, `migrations/`, `tests/` | none | builds transactions | – |

### How the parts interact

All parts are instructions of one program over shared accounts.

* The registry decides who may vote: each vote looks the verifier up in the
  `Verifier` list and uses its **position** there as its bit in the masks of
  every tournament. The admin changes that list at any time.
* Registration writes `team_count`, which opens the vote to start and from which
  the prize is computed much later, by the last vote on the winner.
* Registration, votes and payouts meet on the `status` of the tournament and on
  the reward pool.
* Registration, refunds and rewards share the team account, the last two also
  the claimed flag of each seat.
* Votes add to `RoleInfo.claim`, which role holders draw from the platform.

### What is hard here

* **Interleaving.** Instructions of many independent users come in any order.
  Each is atomic, so the hard cases are sequences: votes on two questions at
  once, a dismissal between two votes, refunds between the start and the final.
* **Derived positions.** A bit that stands for a verifier moves when the list changes.
* **Thresholds** relative to a list that changes and looked at only when a vote comes.
* **Sizes fixed at creation** (finish account, filter) against numbers that grow later.
* **Which accounts are written back.** Only accounts declared `mut`; and one
  account may be loaded twice.
* **Money split between captains, teammates and joiners**, refunded one by one, and
  **keys the client names** that nothing compares: who is registered need not have signed,
  who gets the organizer's cut need not be the organizer.

`PROJECT.json` lists these hazards at their lines, with the properties that cover them.

## 2. Modules

| Module | Models | Notes |
|---|---|---|
| `RoleRegistry` | role registry | `roles[u]`, `roleList[r]`; actions `GrantRole`, `RevokeRole` |
| `RoleAccounts` | size, rent and lamports of the `RoleList` accounts | extends `RoleRegistry`: each of its actions with the `realloc` that belongs to it |
| `Teams` | team accounts | pure operators, one per method; `Can...` is the condition under which the method returns `Ok` |
| `Consensus` | what the three votes share | the bit of a verifier, who may vote, the threshold |
| `Tournament` | registration, votes and payouts of one tournament, with the registry changing beside it | extends `Consensus` and `Teams`; one action per instruction |
| `TournamentProperties` | – | what a tournament promises; fairness |
| `PrizeEscrow` | – | abstract specification: tickets, prizes and refunds, without teams, votes or filters |
| `TournamentBook` | a tournament as the platform's accounts see it | abstract: status, number of seats and full teams, votes to start and to cancel |
| `TournamentRefinement` | – | `Tournament` implements `PrizeEscrow`, and each of its steps is one of `TournamentBook` or none |
| `BloomSizing` | `calculate_bloom_memory`, `initialize_bloom_filter` | pure operators |
| `Platform` | roles, tokens, precision, creation, votes, claims and withdrawals, over several tournaments at once | composes `TournamentBook` (with `Consensus` and `RoleRegistry`) and `BloomSizing` |
| `PlatformProperties` | – | what the platform promises; fairness |
| `MCTournament`, `MCPlatform` | – | values for the constants, symmetry |
| `RoleRegistryProofs` | – | lists and the registry: theorems |
| `TeamsProofs` | – | what the methods of `Team` return: lemmas |
| `TournamentProofs` | – | types, registry, ballots, finality: theorems |
| `SeatProofs` | – | who sits where, how many teams: theorems |
| `RoleAccountProofs` | – | sizes and rent of the role lists: theorems |
| `EscrowProofs` | – | the reward pool and all payouts; `Tournament` implements `PrizeEscrow`: theorems |
| `VotingProofs` | – | winner, thresholds, fees of votes, and the book: theorems |
| `PlatformProofs` | – | the platform's types, filters, earnings and claims: theorems |

The composition goes two ways. `Tournament` models one tournament to the seat,
with the registry beside it. `Platform` needs many tournaments, but only as much of each
as touches the platform's accounts: the book. `StepsKeepBook`, checked on `Tournament`,
is what licenses this: whatever a tournament does is, for the book, an operator of
`TournamentBook` or nothing.

### How state and actions correspond to the code

| `Tournament` | Code |
|---|---|
| `status`, `team_count` | `Tournament.status`, `.team_count` |
| `teams[c]` | the `Team` account at the address derived from captain `c`; `NoTeam` is the zeroed account that `init_if_needed` creates |
| `bloom` | the keys inserted into the `BloomFilter` account |
| `pool`, `wallet` | balances of `reward_pool_ata` and of the players' token accounts (`participant_ata`, and `organizer_ata` when a player is named there) |
| `sponsorPaid`, `organizerPaid` | sums sent to `sponsor_ata`, and to an `organizer_ata` that is no player's |
| `start_votes`, `cancel_votes`, `finish_votes` | the bits set in `Consensus`, as sets of positions from 0 |
| `ballots`, `captain_winner`, `reward` | `FinishMetaData` |
| `claim[u]` | `RoleInfo.claim` |
| `RegisterCaptain`, `RegisterParticipant` | the two branches of `handle_register_tournament`, both ending in `Enter`; `signer` is the account `participant`, `p` is `register_params.participant` |
| `StartTournament`, `CancelTournament`, `FinishTournament` | the handlers of the same names; `organizer` of `FinishTournament` is the account of that name |
| `PayCut` | the transfer of the organizer's cut |
| `ClaimRefund`, `ClaimReward`, `ClaimSponsorRefund` | the handlers of the same names |
| `Administer` | `grant_role` and `revoke_role` while the tournament runs |

| `RoleAccounts` | Code |
|---|---|
| `space[r]`, `lamports[r]`, `admin` | data length and lamports of the `RoleList` account, lamports of the admin |
| `Realloc` | `realloc` in `ix/mod.rs`: `system_transfer` from the admin when the rent grows, the surplus to the admin when it shrinks |
| `Grant`, `Revoke` | the two handlers with the `try_from_slice` before and the `realloc` after |

| `Platform` | Code |
|---|---|
| `claim[u]`, `nome[u]` | `RoleInfo.claim`, balance of the user's NOME account |
| `platform`, `adminFunds` | balances of `platform_ata` and `admin_ata` |
| `tokenInfo[t]` | the `TokenInfo` account of a mint, or `NotApproved` when there is none |
| `false_precision`, `nonce` | `GenomeSingleConfig` |
| `tournaments[id]` | organizer, config, book, and of the filter's account its size and the precision it was made with |
| `Init` | `initialize`, and the first appointments |
| `ApproveToken`, `BanToken`, `SetBloomPrecision`, `CreateTournament`, `StartTournament`, `CancelTournament`, `ClaimRoleFund`, `Withdraw` | the handlers of the same names |
| `RegisterTournament` | what `register_tournament` does to the book |
| `Administer` | `grant_role`, `revoke_role` |

### Modelling decisions

* **One instruction, one step.** The runtime undoes a failed instruction
  entirely, so every `require!`, `expect`, overflow and failed transfer is a
  guard. Overflow checks are on in the release profile (`Cargo.toml`).
* **Only `mut` accounts are stored.** `FinishTournament` does not change
  `claim`. `CancelTournament` stores the verifier's and then the organizer's
  copy of `RoleInfo`.
* **Signer and key.** `register_tournament` charges the signer and seats the key of the
  parameters, without comparing the two. So an action has both. A player may sign for
  itself, and the members of the constant `Proxies` for everybody; with `Proxies = Players`,
  as in `Decision`, that is all the program allows. A refund goes to the captain or the
  player on the seat (`Creditor`), whoever has paid.
* **The account of the cut.** `finish_tournament` does not compare `organizer` with
  `tournament.organizer`: the deciding vote names any member of `CutAccounts`.
* **The list of a grant.** `grant_role` checks the address of `role_list` only when the
  account is empty, so that another role's list would be accepted in its place. Only the admin can
  send this instruction. The model takes the admin to pass the list of the role it grants,
  and every statement about the registry depends on that.
* **The bloom filter** (library `growable-bloom-filter`) is external. Modelled:
  a key inserted before is refused; a filter with as many keys as it was made
  for cannot take another, because it would grow beyond its account. A false
  positive refuses a call, which no safety property depends on; the liveness
  properties ask nothing of registrations.
* **The organizer's cut** is an f64 product, truncated. The quotient by 10000 is
  inexact, so an exact result may come out one unit short: `OrganizerRewards`
  is the set of both. It stands for amounts below 2^38 base units, where the
  error is smaller than one unit. A cut larger than the reward pool makes the
  subtraction overflow, so it is excluded.
* **The winner** is any captain with the most ballots, since `HashMap` has no
  order. A ballot may name any player, as the handler does not look it up.
* **`RoleInfo.roles`** is a set, a missing `RoleList` is an empty list. `Team.captain`
  is the key of `teams`, as it always equals the address's seed.
* **Sizes of filters.** The code computes in f64. `BloomSizing` gives the same numbers
  with integers: 8080 · 8 · ln 2 is 44805.03, and the ceiling of n / ln 2 is that of
  n · 36744 / 25469 for every n up to 44805, more than any precision allows. The
  saturating casts of rates of one and more are the branches of `MaxParticipants`.
  How many bytes the library's filter takes when it is stored is external.
* **Token accounts.** NOME moves between `nome`, `platform` and `adminFunds` only. The
  sponsor of a new tournament is one that has the contribution; where it goes is
  the matter of `Tournament`.
* **`PayPlatformFee`** leaves all balances alone when the claim covers the fee:
  `role_info` is not `mut` in `CreateTournament`.
* **Left out**: events and logs, rent of accounts other than the role lists (also that of
  `RoleInfo`, which the admin pays and does not get back), `expiration_time` and `min_teams`
  (checked at creation only, then never read), u64 bounds of claims and balances
  (a tournament adds at most 128 fees).
* **`Init`** is the state after `create_tournament`: the contribution is in the
  pool, and the verifiers are those of `InitVerifiers`. Any number of them,
  also none, is allowed; `Platform` asks for at least one (`PlatformAssumption`).
* Bounds of the model in guards: `SeatBound` (from that many seats on nobody registers
  in `Platform`), `LastNonce` (u32::MAX in the code) and `SponsorCalls`, which bounds how often
  the sponsor asks; the program has no such bound.

## 3. Runs

`tlc -config X.cfg M`. Every run explores its instance completely.
`CHECK_DEADLOCK FALSE` everywhere, because these systems really stop: a tournament
ends when everybody is paid, the platform at its last nonce, the admin without lamports.

| Run | Asks | Shows |
|---|---|---|
| `Registry` (`RoleAccounts`) | all orders of grants and revocations of three roles to three users, two verifiers at most, with an admin that cannot pay for all lists at once | `RoleTypeOK`, `ListsMatchRoles`, `SeniorityKept`, `ListFillsAccount`, `RentIsForPresentHolders` |
| `Escrow` | where the money is, for six players, teams of three, two of them full at most, a captain with none or one teammate, a player that also signs for others and may be given the cut, a verifier that comes and goes | `OneSeatPerPlayer`, `TeamCountExact`, `EscrowBalanced`, `PayoutsCovered`, `PaidOncePerSeat`, `OutcomeIsFinal`, `TypeOK`, and the refinements `IsEscrow` and `StepsKeepBook` |
| `Voting` | votes of three verifiers on three questions while two more are appointed, the mask having four bits; the filter has room for one team | `FeesMatchVotes`, `QuorumTakesEffect`, `BallotsMatchVotes`, `MajorityWins`, `WithinMaxTeams` |
| `Decision` | what registrations signed for others do to the stakes of three players, all of whom may sign for all; whether tournaments come to an end under fairness | `StakesKept`, `FullTeamIsStarted`, `NewIsDecided`, `StartedIsFinished`, `CancellationRefunds` |
| `Economy` (`MCPlatform`) | two tournaments at once, votes on both, a verifier appointed meanwhile, claims drawn in parts, withdrawals | `PlatformTypeOK`, `RoleHoldersWhole`, `FeesCoverClaims`, `ClaimsArePaid` |
| `Sizing` (`MCPlatform`) | filters at and next to every limit, eleven precisions, changes of precision between creation and first registration, tokens approved, overwritten and banned, the operator dismissed | `FilterFitsAccount` |

### Where the code departs from what its documents and tests say

| Run | Property violated | What happens |
|---|---|---|
| `FinishFee` | `EveryVotePaid` | `role_info` is not `mut` in `FinishTournament`: a vote on the winner earns nothing, though the README and `finishTournament.test.ts:57` say it does |
| `SponsorTwice` | `PayoutsCovered` | the sponsor's refund can be repeated, the refunds of players are then not covered |
| `Dismissal` | `OneVotePerQuestion` | after a dismissal ahead of it a verifier has a new bit and may vote again |
| `LateVerifier` | `StartedIsFinished` | with verifiers appointed later, the ballots needed do not fit the account: a started tournament is never finished |
| `Lockout` | `KnownKeysAreSeated` | the teammates that a joining player names go into the filter without a seat, and can never register |
| `FreeCreation` | `CreationIsPaid` | an organizer with a claim of a platform fee creates tournaments without paying: the claim is not reduced |

### Under which conditions the promises hold

A property that one run violates holds in another where the cause is absent. These
are the conditions under which the passing runs may be relied on; where no
document promises more, there is no run that calls the code wrong.

* `PayoutsCovered`, `IsEscrow`: the sponsor asks once (`SponsorCalls = 1`).
* `StartedIsFinished`: nobody is appointed after creation.
* `FeesMatchVotes`: the organizer is no verifier. If it is, `CancelTournament` stores
  two copies of one `RoleInfo`, the one without the verifier's fee last.
* `QuorumTakesEffect`: nobody is dismissed. A dismissal lowers the threshold, but it
  is looked at only when the next vote comes in.
* `NewIsDecided`: the organizer keeps its role. `CancelTournament` asks for it
  (`ix/cancel_tournament.rs:77`); the votes are then refused.
* `FeesCoverClaims`: nothing has been canceled and the platform fee pays every verifier for
  two votes. A cancellation credits the whole fee to the organizer, and the
  fees of the votes come on top.
* `ClaimsArePaid`: the same, the admin has not withdrawn, and the holder keeps a role:
  `claim_role_fund` refuses users without one, whatever their claim.
* A ban of a token stops new tournaments, not registrations in those that exist.
* `set_bloom_precision` takes rates up to one hundred; from one on (1000000) the filter's
  constructor refuses, and no tournament is created until the rate is set again.
* The filter's memory, without discriminator, exceeds `MAX_MEMORY` by one or two bytes at
  three boundaries (14935 places with 3 slices, 4073 with 11, 2987 with 15), because the
  limit is checked with a floor and the size computed with ceilings. It stays far
  below the 10240 bytes an instruction may allocate, which is what `FilterFitsAccount`
  asks.

Four facts that no document speaks of, so that no run calls them wrong: who signs a
registration for another key pays for it and has no claim to a refund; the verifier whose
vote decides chooses who gets the organizer's cut; the prize
counts one entry fee per completed team (`finish_tournament.rs:60-61`), so the fees of
the other seats of full teams stay in the pool after the final; and a ballot may name
a key without a team, whose victory leaves the prize undrawn.

### Bounds, and why they are enough

* Teams of three (`Escrow`) are the smallest with all kinds of seats at once:
  the captain's, a teammate's whose fee is owed to the captain, a joiner's; six players fill
  two of them or leave several incomplete. `MateLists` allows none or one
  teammate: two would add a team that is full at once, as size two with one teammate
  already does in `Decision`.
* An entry fee of 2, a contribution of 3 and a cut of a quarter make every
  division leave a remainder. Funds of two fees let a captain pay for a
  teammate and no more.
* One verifier in `Escrow`, as this run is not about votes; it may be dismissed and appointed
  again at any moment, so that a tournament may have nobody to vote.
  Three to four in `Voting`, with a rate of 7500: three votes decide, which meets
  the threshold exactly when there are four, and a majority of the three ballots
  can disagree with the last one. With one place in the filter and two players
  who both want a team, `WithinMaxTeams` is at its limit.
* `MaxVerifiers`, 64 in the code, is 2 in `Registry` and `Economy` and 4 in `Voting`; all reach it.
* `AdminLamports` of 650 at a rate of 1 pays for the smallest account of each role, and
  for three lists of one or two holders in part: some grants fail for lack of lamports,
  also after revocations have freed some.
* `Economy`: two tournaments (`FirstNonce` 0, `LastNonce` 2) share organizer, verifiers and
  account; one more would only add a third copy. The platform fee of 4 is what two
  verifiers, the most there can be, earn on a tournament, the case in which the fees just cover the
  claims. Funds of two fees let the organizer pay for both. A withdrawal takes 3, so
  that a rest stays. Terms with too high a fee are sent as well, and refused.
* `Sizing`: one tournament, as tournaments share no filter. The numbers of places are, for
  1, 3, 11, 14, 15, 17 and 20 slices, the largest accepted and the next; the precisions are
  those with these numbers of slices, and 0.999999, 1, just above 1 and the largest.
* `Proxies`: in `Escrow` one player signs for all others as well; two would make the run too
  long, and in no property do two signers meet except through the wallets, which the one signer,
  who may also be registered by itself, already mixes. In `Decision` each of the three players
  signs for each. `CutAccounts` names that same player in `Escrow`, so that the cut, its own seat
  and its refunds meet in one wallet; in `Decision` a player or the organizer. `Voting` is not
  about money: nobody signs for others, the cut is the organizer's.
* The players but `p1`, the proxy, are symmetric in `Escrow`: no definition distinguishes them, and
  the run has no liveness property (`IsEscrow` is a safety property).

### Fairness

The program has no scheduler and takes no step of its own. Fairness states a
promise of its users and nothing else. In `FairSpec` of `TournamentProperties` a verifier
whose vote to start or on the winner the program would accept for ever votes
(`VotesAreCast`), and a player whose refund it would pay asks (`RefundsAreClaimed`).
Nothing is assumed of registrations, the admin, rewards or the sponsor. Votes to cancel
are assumed by `NewIsDecided` only, as its premise: not every tournament has verifiers that
want it canceled. In `FairSpec` of `PlatformProperties` a role holder whose claim would be
paid asks for it, or for a part of it (`ClaimsAreMade`). What the liveness properties then
show is that the program does not get in the way: there is no state with a full team,
a started tournament, an open refund or a claim in which the needed call is refused.

### The refinements

`IsEscrow` is `Escrow!Spec`, the specification `PrizeEscrow` with this mapping: a ticket
is a seat whose fee is still owed (after the final, only in incomplete teams),
together with its creditor: the captain for the teammates it was registered with, else the player
on the seat, and never the signer as such; a winner is a member of the winning team that
has not settled; the prize is `FinishMetaData.reward`; the contribution is what the
sponsor has not drawn, and nothing after the final. In the abstract `Deposit` a
buyer pays for tickets that another may hold. `Finish` asks that what is left in
the pool covers all that is due, that the tickets of a holder stay or go together, and that what
leaves the pool goes to one holder or away;
`Refund` pays all tickets of a holder at once. So the refinement says at the same time that
nobody is paid twice or too little, that a captain is refunded the fees of its teammates, and that the
final leaves enough. It does not say that who pays is who is refunded: the code does not.

`StepsKeepBook` is the refinement towards `TournamentBook`, written as an action property
because the book's operators take the registry as it is: registrations grow `seats`
by one to `team_size` within the places of the filter and count a team at most when it can
be full, votes to start and cancel do what `Start` and `Cancel` do, and nothing else changes the book.

## 4. Proofs

The proofs hold for every value of the constants that the named assumptions of the modules
(`MaxVerifiersAssumption`, `ConsensusRateAssumption`, `TeamSizeAssumption`, `ConfigAssumption`,
`RentAssumption`, `PlatformAssumption`) allow; these say that amounts are natural
numbers (team size zero included), that the initial verifiers are distinct users within the
limit (for the platform, at least one), and that the first nonce is at most the last. Every safety
and action property that a passing run checks is the statement of a theorem (`ListsMatchRoles` and
`SeniorityKept` for `RoleSpec`, whose actions are conjuncts of those of `RoleAccounts`). Where a theorem has a
hypothesis, it is one of the conditions of section 3, and the runs satisfy it.

| Theorem | States | Hypotheses |
|---|---|---|
| `RegistryConsistent` (`RoleRegistryProofs`) | `RoleSpec => [](RoleTypeOK /\ ListsMatchRoles)` | |
| `SeniorityIsKept` | `RoleSpec => SeniorityKept` | |
| `RegistryTypes` (`RoleAccountProofs`) | `Spec => []RoleTypeOK` | |
| `ListsFillTheirAccounts` | `Spec => []ListFillsAccount` | |
| `RentIsReturned` | `Spec => []RentIsForPresentHolders` | |
| `TypeCorrect` (`TournamentProofs`) | `Spec => []TypeOK` | |
| `RegistryInStep` | `Spec => []ListsMatchRoles` | |
| `BallotsAreCounted` | `Spec => []BallotsMatchVotes` | |
| `DecisionsAreFinal` | `Spec => OutcomeIsFinal` | |
| `OneSeatEach` (`SeatProofs`) | `Spec => []OneSeatPerPlayer` | |
| `TeamsAreCounted` | `Spec => []TeamCountExact` | |
| `TeamLimit` | `Spec => []WithinMaxTeams` | |
| `PoolBalances` (`EscrowProofs`) | `Spec => []EscrowBalanced` | |
| `StakesAreKept` | `Spec => StakesKept` | |
| `SeatsArePaidOnce` | `Spec => PaidOncePerSeat` | |
| `AllDuesAreCovered` | `Spec => []PayoutsCovered` | `SponsorCalls <= 1` |
| `TournamentIsEscrow` | `Spec => IsEscrow` | `SponsorCalls <= 1` |
| `MajorityIsHeard` (`VotingProofs`) | `Spec => []MajorityWins` | |
| `QuorumDecides` | `Spec => []QuorumTakesEffect` | `Threshold` |
| `FeesAreForVotes` | `Spec => []FeesMatchVotes` | `NoDismissals`, `Impartial` |
| `TournamentKeepsBook` | `Spec => StepsKeepBook` | |
| `PlatformTypes` (`PlatformProofs`) | `Spec => []PlatformTypeOK` | |
| `FiltersFit` | `Spec => []FilterFitsAccount` | |
| `HoldersKeepTheirEarnings` | `Spec => []RoleHoldersWhole` | `NoDismissals`, `Impartial` |
| `ClaimsAreCovered` | `Spec => []FeesCoverClaims` | `FeesSuffice`, `Impartial` |

The hypotheses, and why the code gives no more:

* `SponsorCalls <= 1`: `claim_sponsor_refund` leaves no trace, and the run `SponsorTwice` shows
  the same property violated with a second call.
* `NoDismissals`: the admin dismisses no verifier. A vote is recorded by position, and a
  dismissal shifts the positions (`Dismissal`), so that "the recorded votes of a
  verifier" means nothing afterwards. Appointments are not restricted.
* `Threshold`: `NoDismissals`, at least one verifier at first, and a rate above zero. With no
  verifier or a rate of zero every question would be decided before its first vote.
* `Impartial`: nobody is, or may become, both a verifier and the organizer of a tournament (of
  any tournament, for the platform). `CancelTournament` stores two copies of one `RoleInfo` then, and
  the claim of such an organizer would pay for creations (`FreeCreation`).
* `FeesSuffice`: `PlatformFee >= 2 * MaxVerifiers * VerifierFee`. The votes on one
  tournament, to start and to cancel, cost no more than its creation brings.

### The arguments

* `RegistryConsistent`: `RoleTypeOK /\ ListsMatchRoles` is inductive. The work is in
  lemmas about lists: where `position` finds an element
  (`PositionIsFirst`), what `Vec::remove` shifts (`RemoveAtShifts`), and what
  pushing a newcomer and removing an element do to the members
  (`AppendMember`, `RemoveMember`).
* `SeniorityIsKept`: in a list without repetitions the position of an element is
  where it stands (`PositionInjective`); a grant leaves all positions, a revocation
  lowers those behind the gap by one.
* `ListsFillTheirAccounts`, `RentIsReturned`: `AccountInv` adds to the registry's
  invariant the types of the accounts, that the size of an account is that of its list,
  and `RentIsOnAccount`: the lamports on each account are the rent of its holders, without which
  it could not be said what `Realloc` moves. `RegistryTypes` is a part of it.
* `TypeCorrect`: `TypeOK` is not inductive. `TypeInv` adds `ListsMatchRoles` (a
  verifier that passes the checks of a vote has a position, so its bit is one of
  the mask) and `Divisible` (when the prize is divided, a team has been completed,
  so the team size is not zero). `TeamsProofs` supplies what the methods of
  `Team` return. `RegistryInStep` is a part of the same invariant.
* `BallotsAreCounted`: with `TypeInv`, the only step that touches ballots or mask
  adds one of each, since `MayVote` asks for a clear bit.
* `DecisionsAreFinal`: a step that satisfies `TypeInv` satisfies the action. Its
  part about seats rests on `PaySeatKeepsSeats`: a settlement changes a flag and
  no seat.
* `OneSeatEach`, `TeamsAreCounted`, `TeamLimit` share the inductive invariant
  `SeatInv`. None of the three is inductive. A registration never looks into other
  teams, only into the filter, so `SeatedAreInFilter` is needed to know that a new
  key has no seat. A captain's registration replaces the account at its address,
  and what excludes that a team is lost or counted again is `FoundedByCaptain`: an
  account in use seats its captain, whom the filter therefore knows. The lemmas
  `CaptainGrows` and `JoinerGrows` bring the two branches to one shape (`Grows`), and
  all other steps keep the seats (`SameSeats`).
* `TeamLimit` then counts: pairs of a full team and a position map one to one to keys
  of the filter (`FS_Injection`), which holds at most `MaxTeams * TeamSize` (`FilterFits`).
* `PoolBalances` rests on `MoneyInv`, on top of `SeatInv`: money is counted as
  fees of unsettled seats, and a settlement removes from these exactly the seats that `RefundCount`
  counts (`RefundIsFees`), because a player has one seat. `NothingDrawnEarly` says that nothing is
  settled while the tournament is New, no seat of a full team before the final, and that the sponsor
  has drawn nothing by then. `FinalCovered`
  is the hard part: after the final the pool covers the fees of incomplete teams and the shares
  of the winners who have not drawn. The final establishes it because the cut and the prizes are
  taken from the contribution and one fee per completed team, and such a team has paid at least one.
* `StakesAreKept` needs `SeatInv` only, before and after a step (`StepStakes`). A registration adds to the
  unsettled seats those it has sold, all owed to the key it names (`RegistrationEnters`), so
  that key's stake grows by what the signer's wallet lost (`EnterStakes`); a refund moves as many fees
  from owed to paid as `RefundCount` counts (`RefundStakes`).
* `AllDuesAreCovered`: `EscrowInv` adds `SponsorOnce`, that what the sponsor has drawn is nothing
  or the contribution.
* `TournamentIsEscrow`: the initial states map to the initial state, and each action under
  `EscrowInv` to one action of `PrizeEscrow` or to a stutter: registrations to a `Deposit` by the
  signer for the key it names, the last
  vote on the winner to `Finish`, payouts to payouts, all else to nothing.
* `MajorityIsHeard`: two captains share no ballot (`BallotsShared`), so one with more than half of
  them is the only member of `MostVoted`; `WinnerInv` says that the announced winner
  is such a member of the ballots as they stay.
* `QuorumDecides`: `QuorumInv` adds that there is a verifier, so that no votes are no quorum, and that a
  tournament that has not started has no votes on its winner. The threshold grows with every appointment
  and is not lowered.
* `FeesAreForVotes`: `FeesInv` adds `BitsAssigned`, that the bits which are set belong to verifiers of
  today. Otherwise a newcomer could inherit a vote with its position. The lemmas `NewcomerHasNoBit`,
  `OwnBit` and `BitsStay` of `RoleRegistryProofs` say what appointments and votes do to the bits of all users.
* `TournamentKeepsBook` needs `SeatInv`: a registration counts a team only when the
  seats suffice for all teams counted.
* `PlatformTypes`: `PlatformInv` is `PlatformTypeOK` with `ListsMatchRoles`.
* `FiltersFit`: `FiltersSized` keeps with every tournament that creation accepted its filter for the
  precision it was made with. The bound is arithmetic for all inputs: at most twenty slices
  (`SlicesBounded`), and at most 8404 bytes of bits (`BufferBounded`), because the check of
  the number of participants bounds the product of slices and participants.
* `HoldersKeepTheirEarnings`: `WorthInv` adds to the property who may hold which role (`Appointed`) and
  `BitsAssigned`. The property counts tournaments: each step adds one to at most one of the counts of a
  user (`StartCounted`, `CancelCounted`, `CreationCounted`), and `WholeAgain` gives the amount that goes with it.
* `ClaimsAreCovered`: the property is an inequality that no step preserves on its own. `EconomyInv` makes it
  an equation, `Balanced`: all claims and a platform fee per tournament are what the platform and the
  admin hold and a verifier fee per recorded vote. The sum of the claims is the size of the set
  `UnitsOf(claim)`, which `UnitsAdded` and `UnitsDrawn` relate to one user's change.
  `OrganizersPay` excludes creations without payment before the first refund. Votes are pairs of a
  tournament and a bit below `MaxVerifiers` (`VotesBounded`), which with `FeesSuffice` gives the
  inequality.

### Only model-checked

The five liveness properties `FullTeamIsStarted`, `NewIsDecided`, `StartedIsFinished`,
`CancellationRefunds` and `ClaimsArePaid`: liveness under fairness is out of the prover's reach.
That `BloomSizing` agrees with the f64 computation of the code is argued in section 2;
the theorems are about its integers.

## 5. Not modelled

* The omnichain configuration: two instructions that store values no
  instruction reads, so that there is no behaviour to state a property of.
* Rent of the accounts other than the role lists: none of them changes its size.
* The expiration time of a tournament: compared with the clock at creation and not
  looked at again.
* Entry points and error codes: one delegation per instruction; an error is a guard of
  the action.
* The TypeScript client and migrations: they keep no state.

## 6. Plan

1. Done: the registry with its accounts, teams, one tournament, the platform with several,
   the escrow as an abstract specification, and their runs.
2. Proved: all safety and action properties that passing runs check, and the refinements
   of `Tournament` to `PrizeEscrow` and to the book.
3. Next: what the conditions of section 3 leave to say, as theorems with weaker hypotheses. Filters
   and types of the platform already need none; `RoleHoldersWhole` with dismissals needs votes
   recorded by verifier, as a history variable beside the masks.
