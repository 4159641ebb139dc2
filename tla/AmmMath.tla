------------------------------ MODULE AmmMath ------------------------------
(***************************************************************************)
(* The two constant-product formulas of the system: the one the contract   *)
(* SimplePool settles a swap with (pool.rs) and the one the agent quotes a  *)
(* swap with before it votes (trade_client.py).  They charge the same fee   *)
(* but round at different places.  Amounts are motes, divisions floor.      *)
(***************************************************************************)
EXTENDS Naturals

CONSTANTS FeeNum, FeeDen        \* 997 and 1000 in the code: a fee of 0.3%

ASSUME FeeAssumption == /\ FeeNum \in Nat
                        /\ FeeDen \in Nat \ {0}
                        /\ FeeNum <= FeeDen

\* Mutated forms of AmountInWithFee: a denominator a digit short and no fee.
FeeMisscaled(amount_in) == (amount_in * FeeNum) \div (FeeDen \div 10)
FeeForgotten(amount_in) == amount_in

\* The part of an input amount the price is computed on.
AmountInWithFee(amount_in) == (amount_in * FeeNum) \div FeeDen

\* Mutated forms of AmountOut: the price does not move with the order, and the
\* division rounds up.
AmountOutAtSpot(amount_in, reserve_in, reserve_out) ==
    (reserve_out * AmountInWithFee(amount_in)) \div reserve_in
AmountOutRoundedUp(amount_in, reserve_in, reserve_out) ==
    (reserve_out * AmountInWithFee(amount_in) + reserve_in + AmountInWithFee(amount_in) - 1)
        \div (reserve_in + AmountInWithFee(amount_in))

\* What the pool pays for amount_in: the fee is taken, and floored, first.
AmountOut(amount_in, reserve_in, reserve_out) ==
    (reserve_out * AmountInWithFee(amount_in))
        \div (reserve_in + AmountInWithFee(amount_in))

\* The query of the contract: an empty side or an empty input quotes zero.
GetAmountOut(amount_in, reserve_in, reserve_out) ==
    IF 0 \in {amount_in, reserve_in, reserve_out} THEN 0
    ELSE AmountOut(amount_in, reserve_in, reserve_out)

\* What the agent quotes: the fee stays in the fraction and one floor is
\* taken at the end.
AmmQuote(amount_in, reserve_in, reserve_out) ==
    IF 0 \in {amount_in, reserve_in, reserve_out} THEN 0
    ELSE (reserve_out * (amount_in * FeeNum))
            \div (reserve_in * FeeDen + amount_in * FeeNum)

=============================================================================
