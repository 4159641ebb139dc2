----------------------------- MODULE AmmQuotes -----------------------------
(***************************************************************************)
(* The two price formulas side by side, on the reserves that trading with   *)
(* the pools can lead to and orders mote by mote.  Module ContractProofs     *)
(* proves the same facts for all reserves and orders.                       *)
(***************************************************************************)
EXTENDS SimplePool

CONSTANT MaxOrder       \* bound: the largest order looked at, in motes

ASSUME OrderAssumption == MaxOrder \in Nat

\* The agent quotes a pool with the reserves it finds.
AmmQuoteOf(p, amount_in) == AmmQuote(amount_in, cspr_reserve[p], scspr_reserve[p])

-----------------------------------------------------------------------------
\* The pool settles for no more than the agent's formula quotes, although the
\* two round differently: a quote can disappoint, never the other way round.
SettlesAtMostTheQuote ==
    \A p \in Pools, a \in 1..MaxOrder :
        GetAmountOut(a, cspr_reserve[p], scspr_reserve[p]) <= AmmQuoteOf(p, a)

\* Buying and selling back at once never returns more than was paid.
RoundTripNeverProfits ==
    \A p \in Pools, a \in 1..MaxOrder :
        LET out == GetAmountOut(a, cspr_reserve[p], scspr_reserve[p])
        IN IsLiquid(p) =>
             GetAmountOut(out, scspr_reserve[p] - out, cspr_reserve[p] + a) <= a

=============================================================================
