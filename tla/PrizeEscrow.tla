----------------------------- MODULE PrizeEscrow -----------------------------
(***************************************************************************)
(* What a tournament promises those who put money into it, without teams,  *)
(* votes, filters or masks.                                                *)
(*                                                                         *)
(* Players buy tickets into a pool that holds a sponsor's contribution.    *)
(* If the event is canceled, every ticket and the contribution are paid    *)
(* back, once.  If it takes place, some tickets stay refundable, the fees  *)
(* of the others become prize money, and from then on the pool covers      *)
(* every prize and every refund that can still be drawn.                   *)
(***************************************************************************)
EXTENDS Naturals, FiniteSets

CONSTANTS Holders,        \* who may buy tickets, hold them and win
          Places,         \* what a ticket is for
          Fee,            \* the price of a ticket
          Contribution,   \* the sponsor's
          Funds           \* what a holder comes with

VARIABLES phase,
          tickets,        \* the <<place, holder>> pairs whose fee can be refunded
          winners,        \* who has not drawn its prize
          prize,          \* the prize of one winner
          pool,
          contribution,   \* what the sponsor can get back
          wallet

vars == <<phase, tickets, winners, prize, pool, contribution, wallet>>

TicketsOf(p) == {t \in tickets : t[2] = p}

Taken == {t[1] : t \in tickets}

\* All the money that can still be drawn from the pool.
Due == contribution + prize * Cardinality(winners) + Fee * Cardinality(tickets)
-----------------------------------------------------------------------------
Init ==
  /\ phase = "New"
  /\ tickets = {}
  /\ winners = {}
  /\ prize = 0
  /\ pool = Contribution
  /\ contribution = Contribution
  /\ wallet = [p \in Holders |-> Funds]

\* Somebody buys tickets for places that are free, and p holds them.
Deposit(buyer, p) ==
  /\ phase = "New"
  /\ tickets' \in SUBSET (tickets \cup ((Places \ Taken) \X {p}))
  /\ tickets \subseteq tickets'
  /\ LET price == Fee * Cardinality(tickets' \ tickets)
     IN /\ wallet[buyer] >= price
        /\ wallet' = [wallet EXCEPT ![buyer] = @ - price]
        /\ pool' = pool + price
  /\ UNCHANGED <<phase, winners, prize, contribution>>

Decide ==
  /\ phase = "New"
  /\ phase' \in {"Started", "Canceled"}
  /\ UNCHANGED <<tickets, winners, prize, pool, contribution, wallet>>

\* The winners and their prize are announced, somebody takes a share, and the
\* tickets that took part lose their refund, all those of a holder or none.  What
\* is left in the pool covers all that is due from now on.
Finish ==
  /\ phase = "Started"
  /\ phase' = "Finished"
  /\ winners' \in SUBSET Holders
  /\ prize' \in 0..pool
  /\ pool' \in 0..pool
  /\ tickets' \in SUBSET tickets
  /\ \A p \in Holders : TicketsOf(p) \subseteq tickets' \/ TicketsOf(p) \cap tickets' = {}
  /\ contribution' = 0
  /\ Due' <= pool'
  /\ \/ UNCHANGED wallet
     \/ \E p \in Holders : wallet' = [wallet EXCEPT ![p] = @ + (pool - pool')]

\* p is paid, and has nothing to draw any more.
Pay(p, amount) ==
  /\ pool >= amount
  /\ pool' = pool - amount
  /\ wallet' = [wallet EXCEPT ![p] = @ + amount]
  /\ tickets' = tickets \ TicketsOf(p)
  /\ winners' = winners \ {p}
  /\ UNCHANGED <<phase, prize, contribution>>

Refund(p) == phase # "New" /\ Pay(p, Fee * Cardinality(TicketsOf(p)))

Reward(p) == phase = "Finished" /\ p \in winners /\ Pay(p, prize)

ReturnContribution ==
  /\ phase = "Canceled"
  /\ pool >= contribution
  /\ pool' = pool - contribution
  /\ contribution' = 0
  /\ UNCHANGED <<phase, tickets, winners, prize, wallet>>

Next ==
  \/ \E buyer, p \in Holders : Deposit(buyer, p)
  \/ \E p \in Holders : Refund(p) \/ Reward(p)
  \/ Decide
  \/ Finish
  \/ ReturnContribution

Spec == Init /\ [][Next]_vars
=============================================================================
