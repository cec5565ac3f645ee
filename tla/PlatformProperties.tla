------------------------- MODULE PlatformProperties -------------------------
(***************************************************************************)
(* What the platform promises those who work for it and those who rely on  *)
(* its settings.                                                           *)
(***************************************************************************)
EXTENDS Platform

Ids == DOMAIN tournaments

BookOf(id) == tournaments[id].book

Voted(v, votes) == Contains(verifierList, v) /\ Bit(v) \in votes

\* The votes of v that the platform has recorded, on all tournaments.
VotesOf(v) ==
  Cardinality({id \in Ids : Voted(v, BookOf(id).start_votes)})
  + Cardinality({id \in Ids : Voted(v, BookOf(id).cancel_votes)})

CreatedBy(o) == {id \in Ids : tournaments[id].organizer = o}

CanceledIds == {id \in Ids : BookOf(id).status = "Canceled"}

\* One element for each unit that a user has in amounts: together they are the sum.
UnitsOf(amounts) == UNION {{u} \X (1..amounts[u]) : u \in Users}

TotalClaims == Cardinality(UnitsOf(claim))
-----------------------------------------------------------------------------
\* Types: no balance and no claim goes below zero, the ids are those the nonce has
\* passed, and the filter was made with a precision that makes a filter.
PlatformTypeOK ==
  /\ RoleTypeOK
  /\ claim \in [Users -> Nat] /\ nome \in [Users -> Nat]
  /\ platform \in Nat /\ adminFunds \in Nat
  /\ tokenInfo \in [Tokens -> Limits \cup {NotApproved}]
  /\ false_precision \in Nat
  /\ nonce \in FirstNonce..LastNonce
  /\ Ids = FirstNonce..(nonce - 1)
  /\ \A id \in Ids :
       /\ tournaments[id].organizer \in Users
       /\ tournaments[id].config \in Terms
       /\ BookOf(id) \in Book
       /\ BloomCreated(tournaments[id].precision)

\* Whatever is drawn when, and in how many parts: what a user holds and what it
\* can still claim is what it came with, a fee for each of its recorded votes on
\* any tournament, the fee of each of its tournaments that was canceled, and less
\* at most a platform fee for each tournament it created.
RoleHoldersWhole ==
  \A u \in Users :
    LET worth  == nome[u] + claim[u]
        earned == UserFunds + VerifierFee * VotesOf(u)
                  + PlatformFee * Cardinality(CreatedBy(u) \cap CanceledIds)
    IN /\ worth <= earned
       /\ worth + PlatformFee * Cardinality(CreatedBy(u)) >= earned

\* As long as no tournament has been canceled, and with a platform fee that pays
\* every verifier for both questions, the platform has taken in the money for
\* all claims, over all tournaments together.
FeesCoverClaims ==
  CanceledIds = {} => TotalClaims <= platform + adminFunds

\* A filter fits the account that was made for it when the first key comes, what-
\* ever the admin has done to the precision since, and the account is no larger
\* than the 10240 bytes that an instruction can allocate.
FilterFitsAccount ==
  \A id \in Ids :
    LET t == tournaments[id]
    IN /\ StoredBytes(Places(t.config), t.precision) <= t.space
       /\ t.space <= 10240

\* Creating a tournament costs the platform fee: the platform receives it, or the
\* organizer's claim is reduced by it.
CreationIsPaid ==
  [][nonce' # nonce =>
       \/ platform' = platform + PlatformFee
       \/ \E o \in Users : claim'[o] + PlatformFee = claim[o]]_vars
-----------------------------------------------------------------------------
\* The platform takes no step of its own.  A user with a claim asks for it, or for
\* a part of it, as long as the program would pay.
ClaimsAreMade ==
  \A u \in Users : WF_vars(\E amount \in 1..claim[u] : ClaimRoleFund(u, amount))

FairSpec == Spec /\ ClaimsAreMade

\* As long as no tournament is canceled and the admin leaves the fees where they
\* are, a claim does not stay open for ever: whoever asks first, the platform can
\* pay the others, and the votes that go on do not overtake it.
ClaimsArePaid ==
  \A u \in Users : (claim[u] > 0) ~> (claim[u] = 0 \/ CanceledIds # {} \/ adminFunds > 0)
=============================================================================
