---------------------------- MODULE MCTournament ----------------------------
(***************************************************************************)
(* Values for the constants of Tournament that a .cfg cannot write down.   *)
(***************************************************************************)
EXTENDS TournamentRefinement, TLC

CONSTANTS p1, p2, p3, p4, p5, p6,\* players
          v1, v2, v3, v4, v5,    \* users of the role registry
          org

\* A registration names no teammate, or one.
NoMates == {<<>>}
OneMate == {<<>>} \cup {<<p>> : p \in Players}

\* Verifier lists, in order of appointment.
OneVerifier == <<v1>>
TwoVerifiers == <<v1, v2>>
ThreeVerifiers == <<v1, v2, v3>>

\* What the admin may do.
Nothing == {}
VerifierRole(users) == users \X {"Verifier"}
LateVerifiers == VerifierRole({v4, v5})
FirstVerifier == VerifierRole({v1})

PlayerSymmetry == Permutations(Players \ (Proxies \cup CutAccounts))
=============================================================================
