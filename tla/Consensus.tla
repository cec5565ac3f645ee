------------------------------ MODULE Consensus ------------------------------
(***************************************************************************)
(* How verifiers vote: what the three votes on a tournament share.         *)
(*                                                                         *)
(* A question is a u64 mask in the Consensus account of the tournament; a  *)
(* mask is the set of its bits here.  A verifier is looked up in the       *)
(* Verifier list as it is when the vote comes in, both for its bit and for *)
(* the number of verifiers that the threshold is a share of.               *)
(***************************************************************************)
EXTENDS RoleRegistry, FiniteSets

CONSTANT ConsensusRate    \* GenomeSingleConfig.consensus_rate, in 1/10000

ASSUME ConsensusRateAssumption == ConsensusRate \in Nat

verifierList == roleList["Verifier"]

\* The bit of a verifier: its position in the list as the list is now.
Bit(v) == Position(verifierList, v) - 1

\* Faulty: the bit is not looked at.
MayVoteAgain(v, votes) == "Verifier" \in roles[v] /\ Contains(verifierList, v)

\* The caller is a verifier in good standing whose bit is still clear.
MayVote(v, votes) ==
  /\ "Verifier" \in roles[v]
  /\ Contains(verifierList, v)
  /\ Bit(v) \notin votes

\* Faulty: the threshold has to be exceeded.
QuorumExceeded(votes) == Cardinality(votes) * 10000 > Len(verifierList) * ConsensusRate

\* The threshold all three votes share.
Quorum(votes) == Cardinality(votes) * 10000 >= Len(verifierList) * ConsensusRate
=============================================================================
