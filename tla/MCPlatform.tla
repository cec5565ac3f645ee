----------------------------- MODULE MCPlatform -----------------------------
(***************************************************************************)
(* Values for the constants of Platform that a .cfg cannot write down.     *)
(***************************************************************************)
EXTENDS PlatformProperties

CONSTANTS v1, v2, org, op,          \* users of the role registry
          gold                        \* a mint

Holders(verifiers, organizers, operators) ==
  [r \in Role |-> CASE r = "Verifier" -> verifiers
                    [] r = "Organizer" -> organizers
                    [] r = "Operator" -> operators]

OneOfEach == Holders(<<v1>>, <<org>>, <<op>>)

Nothing == {}
SecondVerifier == {<<v2, "Verifier">>}
OperatorRole == {<<op, "Operator">>}

Limit(sponsorPool, entryFee) ==
  [min_sponsor_pool |-> sponsorPool, min_entry_fee |-> entryFee]

OneLimit == {Limit(0, 1)}
TwoLimits == {Limit(0, 1), Limit(0, 2)}

Config(size, teams) ==
  [organizer_fee |-> 10, sponsor_pool |-> 0, entry_fee |-> 1, team_size |-> size,
   min_teams |-> 1, max_teams |-> teams, asset_mint |-> gold]

\* A tournament of one player; terms with a fee too high for the platform.
TooDear == [Config(1, 1) EXCEPT !.organizer_fee = 9999]
Solo == {Config(1, 1), TooDear}

\* The largest numbers of participants that 1, 3, 11, 14, 15, 17 and 20 slices
\* allow, the next ones, and a product that is no u16.
Boundary == {44805, 14935, 4073, 3200, 2987, 2635, 2240}
LargeTerms == {Config(1, n) : n \in Boundary \cup {n + 1 : n \in Boundary}}
              \cup {Config(65535, 2)}

\* Rates with those numbers of slices, none, and rates of one and more.
BoundaryRates == {1, 15, 50, 65, 500, 125000, 500000, 999999, 1000000, 1000001, 100000000}
=============================================================================
