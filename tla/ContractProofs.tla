--------------------------- MODULE ContractProofs ---------------------------
(***************************************************************************)
(* The formulas, the pool and the vault, for every set of accounts, pools   *)
(* and texts, every fee, limit and amount.  A swap never pays more than its *)
(* quote nor shrinks the product of the reserves; the vault stays solvent   *)
(* and well typed, its trails have no hole, nothing moves while it is       *)
(* paused, a claim changes only against payment, and the vault implements   *)
(* FundLedger and, twice, AuditLog.                                         *)
(***************************************************************************)
EXTENDS YieldVault, AmmQuotes, TLAPS

\* What floor division is, the only fact about \div the proofs below use.
LEMMA DivIsFloor ==
    ASSUME NEW a \in Nat, NEW b \in Nat \ {0}
    PROVE  /\ a \div b \in Nat
           /\ b * (a \div b) <= a
           /\ a < b * (a \div b) + b
  OBVIOUS

\* A product of naturals grows with either factor.
LEMMA TimesMonotone ==
    ASSUME NEW a \in Nat, NEW b \in Nat, NEW c \in Nat, a <= b
    PROVE  c * a \in Nat /\ c * a <= c * b /\ a * c <= b * c
  OBVIOUS

\* A common positive factor cancels.
LEMMA TimesCancel ==
    ASSUME NEW a \in Nat, NEW b \in Nat, NEW c \in Nat, c * a < c * b
    PROVE  a < b
  OBVIOUS

\* Of two products the one with the smaller second factor has the larger first.
LEMMA ProductBoundsFactor ==
    ASSUME NEW a \in Nat, NEW b \in Nat, NEW c \in Nat, NEW d \in Nat \ {0},
           d <= b, a * b <= c * d
    PROVE  a <= c
<1> SUFFICES ASSUME c < a PROVE FALSE
  OBVIOUS
<1>1. a * d <= a * b
  BY TimesMonotone
<1>2. d * (c + 1) <= d * a
  BY TimesMonotone
<1>3. a * d \in Nat /\ c * d \in Nat /\ a * b \in Nat /\ d * a = a * d
  BY TimesMonotone
<1>4. d * (c + 1) = c * d + d
  OBVIOUS
<1> QED BY <1>1, <1>2, <1>3, <1>4

\* The fee only ever takes away.
LEMMA FeeTakes ==
    ASSUME NEW a \in Nat
    PROVE  AmountInWithFee(a) \in 0..a
<1> DEFINE q == (a * FeeNum) \div FeeDen
<1>1. FeeNum \in Nat /\ FeeDen \in Nat \ {0} /\ FeeNum <= FeeDen
  BY FeeAssumption
<1>2. a * FeeNum \in Nat /\ a * FeeNum <= a * FeeDen
  BY <1>1, TimesMonotone
<1>3. q \in Nat /\ FeeDen * q <= a * FeeNum
  BY <1>1, <1>2, DivIsFloor
<1>4. ASSUME a < q PROVE FALSE
  <2>1. a + 1 <= q
    BY <1>3, <1>4
  <2>2. FeeDen * (a + 1) <= FeeDen * q
    BY <2>1, <1>1, <1>3, TimesMonotone
  <2>3. FeeDen * (a + 1) = a * FeeDen + FeeDen
    BY <1>1
  <2> QED BY <2>2, <2>3, <1>1, <1>2, <1>3
<1> QED BY <1>3, <1>4 DEF AmountInWithFee

\* The quotient is the largest number that fits.
LEMMA DivIsLargest ==
    ASSUME NEW a \in Nat, NEW b \in Nat \ {0}, NEW q \in Nat, b * q <= a
    PROVE  q <= a \div b
<1> SUFFICES ASSUME a \div b < q PROVE FALSE
  BY DivIsFloor
<1>1. a \div b + 1 <= q /\ a \div b \in Nat
  BY DivIsFloor
<1>2. b * (a \div b + 1) <= b * q
  BY <1>1, TimesMonotone
<1>3. b * (a \div b + 1) = b * (a \div b) + b
  BY <1>1
<1> QED BY <1>2, <1>3, DivIsFloor

\* What the pool pays, times the new price, is at most what the fee leaves.
LEMMA AmountOutIsFloor ==
    ASSUME NEW a \in Nat, NEW x \in Nat \ {0}, NEW y \in Nat
    PROVE  /\ AmountOut(a, x, y) \in Nat
           /\ AmountInWithFee(a) \in 0..a
           /\ AmountOut(a, x, y) * (x + AmountInWithFee(a)) <= y * AmountInWithFee(a)
<1> DEFINE f == AmountInWithFee(a)
<1>1. f \in 0..a
  BY FeeTakes
<1>2. x + f \in Nat \ {0} /\ y * f \in Nat
  BY <1>1, TimesMonotone
<1> HIDE DEF f
<1>3. (y * f) \div (x + f) \in Nat /\ (x + f) * ((y * f) \div (x + f)) <= y * f
  BY <1>2, DivIsFloor
<1>4. AmountOut(a, x, y) = (y * f) \div (x + f)
  BY DEF AmountOut, f
<1> QED BY <1>1, <1>2, <1>3, <1>4 DEF f

\* A swap never takes the whole of the side it buys from.
THEOREM AmountOutBelowReserve ==
    ASSUME NEW a \in Nat, NEW x \in Nat \ {0}, NEW y \in Nat \ {0}
    PROVE  AmountOut(a, x, y) \in 0..(y - 1)
<1> DEFINE f == AmountInWithFee(a)
           out == AmountOut(a, x, y)
<1>1. out \in Nat /\ f \in Nat /\ out * (x + f) <= y * f
  BY AmountOutIsFloor
<1> HIDE DEF f, out
<1>2. y * f < y * (x + f)
  BY <1>1
<1>3. (x + f) * out < (x + f) * y
  BY <1>1, <1>2
<1>4. out < y
  BY <1>1, <1>3, TimesCancel
<1> QED BY <1>1, <1>4 DEF out

\* x * y never drops: the price is computed on less than what is paid in, and
\* the floor of the quotient leaves the rest with the pool.
THEOREM ProductGrows ==
    ASSUME NEW a \in Nat, NEW x \in Nat \ {0}, NEW y \in Nat \ {0}
    PROVE  x * y <= (x + a) * (y - AmountOut(a, x, y))
<1> DEFINE f == AmountInWithFee(a)
           out == AmountOut(a, x, y)
<1>1. out \in Nat /\ f \in 0..a /\ out * (x + f) <= y * f
  BY AmountOutIsFloor
<1>2. y - out \in Nat
  BY AmountOutBelowReserve
<1> HIDE DEF f, out
<1>3. (x + f) * (y - out) = x * y + y * f - out * (x + f)
  BY <1>1, <1>2
<1>4. x * y <= (x + f) * (y - out)
  BY <1>1, <1>3
<1>5. (x + f) * (y - out) <= (x + a) * (y - out)
  BY <1>1, <1>2, TimesMonotone
<1>6. x * y \in Nat /\ (x + f) * (y - out) \in Nat /\ (x + a) * (y - out) \in Nat
  BY <1>1, <1>2, TimesMonotone
<1> QED BY <1>4, <1>5, <1>6 DEF out

\* The agent's formula never quotes less than the pool settles for.
THEOREM QuoteBoundsSettlement ==
    ASSUME NEW a \in Nat \ {0}, NEW x \in Nat \ {0}, NEW y \in Nat \ {0}
    PROVE  AmountOut(a, x, y) <= AmmQuote(a, x, y)
<1> DEFINE f == AmountInWithFee(a)
           out == AmountOut(a, x, y)
           n == a * FeeNum
<1>1. out \in Nat /\ f \in Nat /\ out * (x + f) <= y * f
  BY AmountOutIsFloor
<1>2. y - out \in Nat
  BY AmountOutBelowReserve
<1>3. FeeDen \in Nat \ {0} /\ n \in Nat
  BY FeeAssumption, TimesMonotone
<1>4. FeeDen * f <= n
  BY <1>3, DivIsFloor DEF AmountInWithFee
<1>5. AmmQuote(a, x, y) = (y * n) \div (x * FeeDen + n)
  BY DEF AmmQuote
<1> HIDE DEF f, out, n
<1>6. out * x <= (y - out) * f
  BY <1>1, <1>2
<1>7. out * x * FeeDen <= (y - out) * n
  <2>1. /\ out * x \in Nat /\ (y - out) * f \in Nat /\ FeeDen * f \in Nat
        /\ (y - out) * n \in Nat
    BY <1>1, <1>2, <1>3, TimesMonotone
  <2>2. FeeDen * (out * x) <= FeeDen * ((y - out) * f)
    BY <1>3, <1>6, <2>1, TimesMonotone
  <2>3. (y - out) * (FeeDen * f) <= (y - out) * n
    BY <1>2, <1>3, <1>4, <2>1, TimesMonotone
  <2>4. FeeDen * ((y - out) * f) = (y - out) * (FeeDen * f)
    BY <1>1, <1>2, <1>3
  <2>5. out * x * FeeDen = FeeDen * (out * x)
    BY <1>1, <1>3
  <2> QED BY <2>1, <2>2, <2>3, <2>4, <2>5, <1>1, <1>3, TimesMonotone
<1>8. (x * FeeDen + n) * out <= y * n
  BY <1>1, <1>2, <1>3, <1>7
<1>9. x * FeeDen + n \in Nat \ {0} /\ y * n \in Nat
  BY <1>3, TimesMonotone
<1> QED BY <1>1, <1>5, <1>8, <1>9, DivIsLargest DEF out

\* A larger order never receives less: the two floors do not turn the price
\* curve of the contract back.
THEOREM LargerOrderGetsNoLess ==
    ASSUME NEW a \in Nat, NEW b \in Nat, a <= b,
           NEW x \in Nat \ {0}, NEW y \in Nat \ {0}
    PROVE  AmountOut(a, x, y) <= AmountOut(b, x, y)
<1> DEFINE f == AmountInWithFee(a)
           g == AmountInWithFee(b)
           out == AmountOut(a, x, y)
<1>1. out \in Nat /\ f \in Nat /\ out * (x + f) <= y * f
  BY AmountOutIsFloor
<1>2. y - out \in Nat
  BY AmountOutBelowReserve
<1>3. g \in Nat /\ f <= g
  <2>1. /\ a * FeeNum \in Nat /\ b * FeeNum \in Nat /\ FeeDen \in Nat \ {0}
        /\ a * FeeNum <= b * FeeNum
    BY FeeAssumption, TimesMonotone
  <2>2. f \in Nat /\ FeeDen * f <= a * FeeNum
    BY <2>1, DivIsFloor DEF AmountInWithFee
  <2>3. FeeDen * f <= b * FeeNum
    BY <2>1, <2>2
  <2> QED BY <2>1, <2>2, <2>3, DivIsLargest, DivIsFloor DEF AmountInWithFee
<1> HIDE DEF f, g, out
<1>4. out * x <= (y - out) * f
  BY <1>1, <1>2
<1>5. (y - out) * f <= (y - out) * g
  BY <1>1, <1>2, <1>3, TimesMonotone
<1>6. (x + g) * out <= y * g
  BY <1>1, <1>2, <1>3, <1>4, <1>5
<1>7. x + g \in Nat \ {0} /\ y * g \in Nat
  BY <1>3, TimesMonotone
<1>8. out <= (y * g) \div (x + g)
  BY <1>1, <1>6, <1>7, DivIsLargest
<1> QED BY <1>8 DEF out, g, AmountOut

\* Selling at once what was just bought returns at most what was paid.
THEOREM RoundTrip ==
    ASSUME NEW a \in Nat, NEW x \in Nat \ {0}, NEW y \in Nat \ {0}
    PROVE  LET out == AmountOut(a, x, y)
           IN AmountOut(out, y - out, x + a) <= a
<1> DEFINE out == AmountOut(a, x, y)
           x1 == x + a
           y1 == y - out
           back == AmountOut(out, y1, x1)
<1>1. out \in Nat /\ y1 \in Nat \ {0} /\ x1 \in Nat \ {0}
  BY AmountOutBelowReserve
<1>2. x * y <= x1 * y1
  BY ProductGrows
<1>3. y1 + out = y /\ x1 = x + a
  BY <1>1
<1> HIDE DEF out, x1, y1
<1>4. back \in Nat /\ x1 - back \in Nat
  BY <1>1, AmountOutBelowReserve
<1>5. y1 * x1 <= (y1 + out) * (x1 - back)
  BY <1>1, ProductGrows
<1> HIDE DEF back
<1>6. x * y <= y * (x1 - back)
  BY <1>1, <1>2, <1>3, <1>4, <1>5
<1>7. x <= x1 - back
  BY <1>4, <1>6
<1>8. back <= a
  BY <1>3, <1>4, <1>7
<1> QED BY <1>8 DEF out, x1, y1, back

-----------------------------------------------------------------------------
\* What is known of the pools and purses before every step.
PoolInv == PoolTypeOK /\ ReserveBacked

\* The parts of the constants' assumption, as the leaves use them.
LEMMA PoolConstants ==
    /\ Accounts \subseteq Addresses
    /\ Pools \subseteq Addresses
    /\ \A p \in Pools : p \notin Accounts
    /\ Amounts \subseteq Nat
    /\ MinOuts \subseteq Nat
    /\ MaxU512 \in Nat
    /\ InitialReserve \in 0..MaxU512
    /\ InitialPurse \in [Accounts -> Nat]
  BY PoolAssumption

\* A transfer moves the amount and nothing else.
LEMMA TransferMoves ==
    ASSUME purse \in [Addresses -> Nat],
           NEW from \in Addresses, NEW to \in Addresses, NEW amount \in Nat,
           CanPay(from, amount), Transfer(from, to, amount)
    PROVE  /\ purse' \in [Addresses -> Nat]
           /\ \A a \in Addresses :
                purse'[a] = purse[a] - (IF a = from THEN amount ELSE 0)
                                     + (IF a = to THEN amount ELSE 0)
  BY DEF CanPay, Transfer

\* Seeding keeps the books backed: the payer is an account, never a pool.
LEMMA SeedKeepsPoolInv ==
    ASSUME PoolInv, NEW p \in Pools, NEW caller \in Accounts, NEW amount \in Nat,
           SeedCspr(p, caller, amount)
    PROVE  PoolInv'
<1>1. caller \in Addresses /\ p \in Addresses /\ caller \notin Pools
  BY PoolConstants
<1>2. /\ purse' \in [Addresses -> Nat]
      /\ \A a \in Addresses :
           purse'[a] = purse[a] - (IF a = caller THEN amount ELSE 0)
                                + (IF a = p THEN amount ELSE 0)
  BY <1>1, TransferMoves DEF PoolInv, PoolTypeOK, SeedCspr
<1>3. PoolTypeOK'
  BY <1>2 DEF PoolInv, PoolTypeOK, SeedCspr
<1>4. ReserveBacked'
  BY <1>1, <1>2, PoolConstants DEF PoolInv, PoolTypeOK, ReserveBacked, SeedCspr, U512
<1> QED BY <1>3, <1>4 DEF PoolInv

\* A forward swap, whoever pays, as long as it is not a pool.
LEMMA ForwardKeepsPoolInv ==
    ASSUME PoolInv, NEW p \in Pools, NEW caller \in Addresses \ Pools,
           NEW amount \in Nat, NEW min \in Nat,
           SwapCsprForScspr(p, caller, amount, min)
    PROVE  PoolInv'
<1> DEFINE out == ForwardOut(p, amount)
<1>1. p \in Addresses /\ MaxU512 \in Nat
  BY PoolConstants
<1>2. /\ purse' \in [Addresses -> Nat]
      /\ \A a \in Addresses :
           purse'[a] = purse[a] - (IF a = caller THEN amount ELSE 0)
                                + (IF a = p THEN amount ELSE 0)
  BY <1>1, TransferMoves DEF PoolInv, PoolTypeOK, SwapCsprForScspr
<1>3. out \in Nat /\ out <= scspr_reserve[p]
  <2>1. cspr_reserve[p] \in Nat \ {0} /\ scspr_reserve[p] \in Nat
    BY <1>1 DEF PoolInv, PoolTypeOK, SwapCsprForScspr, IsLiquid, U512
  <2> QED BY <2>1, AmountOutIsFloor DEF SwapCsprForScspr, ForwardOut
<1> HIDE DEF out
<1>4. /\ cspr_reserve' = [cspr_reserve EXCEPT ![p] = @ + amount]
      /\ cspr_reserve[p] + amount \in U512
      /\ scspr_reserve' = [scspr_reserve EXCEPT ![p] = @ - out]
      /\ pool_owner' = pool_owner
  BY DEF SwapCsprForScspr, out
<1>5. PoolTypeOK'
  BY <1>1, <1>2, <1>3, <1>4 DEF PoolInv, PoolTypeOK, U512
<1>6. ReserveBacked'
  BY <1>1, <1>2, <1>4, PoolConstants DEF PoolInv, PoolTypeOK, ReserveBacked, U512
<1> QED BY <1>5, <1>6 DEF PoolInv

\* A reverse swap, whoever is paid.
LEMMA ReverseKeepsPoolInv ==
    ASSUME PoolInv, NEW p \in Pools, NEW recipient \in Addresses,
           NEW amount \in Nat, NEW min \in Nat,
           SwapScsprForCspr(p, amount, min, recipient)
    PROVE  /\ PoolInv'
           /\ ReverseOut(p, amount) \in Nat
           /\ \A a \in Addresses :
                purse'[a] = purse[a] - (IF a = p THEN ReverseOut(p, amount) ELSE 0)
                                     + (IF a = recipient THEN ReverseOut(p, amount) ELSE 0)
<1> DEFINE out == ReverseOut(p, amount)
<1>1. p \in Addresses /\ MaxU512 \in Nat
  BY PoolConstants
<1>2. out \in Nat /\ out <= cspr_reserve[p]
  <2>1. scspr_reserve[p] \in Nat \ {0} /\ cspr_reserve[p] \in Nat
    BY <1>1 DEF PoolInv, PoolTypeOK, SwapScsprForCspr, IsLiquid, U512
  <2> QED BY <2>1, AmountOutIsFloor DEF SwapScsprForCspr, ReverseOut
<1> HIDE DEF out
<1>3. /\ cspr_reserve' = [cspr_reserve EXCEPT ![p] = @ - out]
      /\ scspr_reserve' = [scspr_reserve EXCEPT ![p] = @ + amount]
      /\ scspr_reserve[p] + amount \in U512
      /\ pool_owner' = pool_owner
      /\ CanPay(p, out)
      /\ Transfer(p, recipient, out)
  BY DEF SwapScsprForCspr, out
<1>4. /\ purse' \in [Addresses -> Nat]
      /\ \A a \in Addresses :
           purse'[a] = purse[a] - (IF a = p THEN out ELSE 0)
                                + (IF a = recipient THEN out ELSE 0)
  BY <1>1, <1>2, <1>3, TransferMoves DEF PoolInv, PoolTypeOK
<1>5. PoolTypeOK'
  BY <1>1, <1>2, <1>3, <1>4 DEF PoolInv, PoolTypeOK, U512
<1>6. ReserveBacked'
  BY <1>1, <1>2, <1>3, <1>4, PoolConstants DEF PoolInv, PoolTypeOK, ReserveBacked, U512
<1> QED BY <1>2, <1>4, <1>5, <1>6 DEF PoolInv, out

\* The invariant is inductive for the transactions accounts send to a pool.
LEMMA PoolNextKeepsPoolInv ==
    ASSUME PoolInv, PoolNext
    PROVE  PoolInv'
<1>1. PICK p \in Pools, caller \in Accounts, amount \in Amounts :
        \/ SeedCspr(p, caller, amount)
        \/ \E min \in MinOuts : SwapCsprForScspr(p, caller, amount, min)
        \/ \E min \in MinOuts, recipient \in Addresses :
               SwapScsprForCspr(p, amount, min, recipient)
  BY DEF PoolNext
<1>2. caller \in Addresses \ Pools /\ amount \in Nat /\ MinOuts \subseteq Nat
  BY PoolConstants
<1>3. CASE SeedCspr(p, caller, amount)
  BY <1>2, <1>3, SeedKeepsPoolInv
<1>4. CASE \E min \in MinOuts : SwapCsprForScspr(p, caller, amount, min)
  BY <1>2, <1>4, ForwardKeepsPoolInv
<1>5. CASE \E min \in MinOuts, recipient \in Addresses :
             SwapScsprForCspr(p, amount, min, recipient)
  BY <1>2, <1>5, ReverseKeepsPoolInv
<1> QED BY <1>1, <1>3, <1>4, <1>5

\* Type correctness and backing hold in every reachable state of the pools.
THEOREM PoolSafe == PoolSpec => [](PoolTypeOK /\ ReserveBacked)
<1>1. PoolsInit => PoolInv
  BY PoolConstants DEF PoolsInit, PoolInit, PurseInit, PoolInv, PoolTypeOK, ReserveBacked, U512
<1>2. PoolInv /\ [PoolNext]_<<poolVars, purse>> => PoolInv'
  <2> SUFFICES ASSUME PoolInv, [PoolNext]_<<poolVars, purse>> PROVE PoolInv'
    OBVIOUS
  <2>1. CASE PoolNext
    BY <2>1, PoolNextKeepsPoolInv
  <2>2. CASE UNCHANGED <<poolVars, purse>>
    BY <2>2 DEF PoolInv, PoolTypeOK, ReserveBacked, poolVars
  <2> QED BY <2>1, <2>2
<1> QED BY <1>1, <1>2, PTL DEF PoolSpec, PoolInv

-----------------------------------------------------------------------------
\* What one swap or seeding does to the two sides of every pool.
LEMMA StepKeepsProduct ==
    ASSUME PoolInv, PoolNext, NEW q \in Pools
    PROVE  /\ cspr_reserve[q] * scspr_reserve[q] <= cspr_reserve'[q] * scspr_reserve'[q]
           /\ IsLiquid(q) => IsLiquid(q)'
<1>1. PICK p \in Pools, caller \in Accounts, amount \in Amounts :
        \/ SeedCspr(p, caller, amount)
        \/ \E min \in MinOuts : SwapCsprForScspr(p, caller, amount, min)
        \/ \E min \in MinOuts, recipient \in Addresses :
               SwapScsprForCspr(p, amount, min, recipient)
  BY DEF PoolNext
<1> DEFINE x == cspr_reserve[q]
           y == scspr_reserve[q]
<1>2. /\ amount \in Nat
      /\ x \in Nat /\ y \in Nat
      /\ cspr_reserve \in [Pools -> U512] /\ scspr_reserve \in [Pools -> U512]
  BY PoolConstants DEF PoolInv, PoolTypeOK, U512
<1>3. CASE q # p
  <2>1. cspr_reserve'[q] = x /\ scspr_reserve'[q] = y
    BY <1>1, <1>2, <1>3 DEF SeedCspr, SwapCsprForScspr, SwapScsprForCspr
  <2> QED BY <2>1, <1>2 DEF IsLiquid
<1>4. CASE q = p /\ SeedCspr(p, caller, amount)
  <2>1. cspr_reserve'[q] = x + amount /\ scspr_reserve'[q] = y
    BY <1>2, <1>4 DEF SeedCspr
  <2>2. x * y <= (x + amount) * y
    BY <1>2, TimesMonotone
  <2> QED BY <2>1, <2>2, <1>2 DEF IsLiquid
<1>5. CASE q = p /\ \E min \in MinOuts : SwapCsprForScspr(p, caller, amount, min)
  <2> DEFINE out == AmountOut(amount, x, y)
  <2>1. x # 0 /\ y # 0 /\ cspr_reserve'[q] = x + amount /\ scspr_reserve'[q] = y - out
    BY <1>2, <1>5 DEF SwapCsprForScspr, IsLiquid, ForwardOut
  <2>2. out \in 0..(y - 1) /\ x * y <= (x + amount) * (y - out)
    BY <1>2, <2>1, AmountOutBelowReserve, ProductGrows
  <2> QED BY <2>1, <2>2, <1>2 DEF IsLiquid
<1>6. CASE q = p /\ \E min \in MinOuts, recipient \in Addresses :
                      SwapScsprForCspr(p, amount, min, recipient)
  <2> DEFINE out == AmountOut(amount, y, x)
  <2>1. x # 0 /\ y # 0 /\ scspr_reserve'[q] = y + amount /\ cspr_reserve'[q] = x - out
    BY <1>2, <1>6 DEF SwapScsprForCspr, IsLiquid, ReverseOut
  <2>2. out \in 0..(x - 1) /\ y * x <= (y + amount) * (x - out)
    BY <1>2, <2>1, AmountOutBelowReserve, ProductGrows
  <2> HIDE DEF out
  <2>3. x * y = y * x /\ (x - out) * (y + amount) = (y + amount) * (x - out)
    BY <1>2, <2>2
  <2> QED BY <2>1, <2>2, <2>3, <1>2 DEF IsLiquid
<1> QED BY <1>1, <1>3, <1>4, <1>5, <1>6

\* x*y never drops, in any pool, whatever is traded.
THEOREM ProductNeverDropsHolds == PoolSpec => ProductNeverDrops
<1>1. PoolInv /\ [PoolNext]_<<poolVars, purse>> =>
        [\A p \in Pools :
           cspr_reserve[p] * scspr_reserve[p] <= cspr_reserve'[p] * scspr_reserve'[p]
        ]_<<poolVars, purse>>
  BY StepKeepsProduct
<1> QED BY <1>1, PoolSafe, PTL DEF PoolSpec, PoolInv, ProductNeverDrops

\* A pool that can trade can trade for ever.
THEOREM LiquidityIsForeverHolds == PoolSpec => LiquidityIsForever
<1>1. PoolInv /\ [PoolNext]_<<poolVars, purse>> =>
        [\A p \in Pools : IsLiquid(p) => IsLiquid(p)']_<<poolVars, purse>>
  BY StepKeepsProduct
<1> QED BY <1>1, PoolSafe, PTL DEF PoolSpec, PoolInv, LiquidityIsForever

-----------------------------------------------------------------------------
\* The type invariant on its own.
THEOREM PoolTypeOKHolds == PoolSpec => []PoolTypeOK
  BY PoolSafe, PTL

\* What is known of the reserves gives the two facts about quotes: an empty
\* side or an order that buys nothing is a zero on both sides.
LEMMA QuotesOfReserves ==
    ASSUME PoolTypeOK
    PROVE  SettlesAtMostTheQuote /\ RoundTripNeverProfits
<1> SUFFICES ASSUME NEW p \in Pools, NEW a \in 1..MaxOrder
             PROVE  /\ GetAmountOut(a, cspr_reserve[p], scspr_reserve[p]) <= AmmQuoteOf(p, a)
                    /\ LET out == GetAmountOut(a, cspr_reserve[p], scspr_reserve[p])
                       IN IsLiquid(p) =>
                            GetAmountOut(out, scspr_reserve[p] - out, cspr_reserve[p] + a) <= a
  BY DEF SettlesAtMostTheQuote, RoundTripNeverProfits
<1> DEFINE x == cspr_reserve[p]
           y == scspr_reserve[p]
           out == AmountOut(a, x, y)
<1>1. x \in Nat /\ y \in Nat /\ a \in Nat \ {0}
  BY PoolConstants, OrderAssumption DEF PoolTypeOK, U512
<1>2. CASE x # 0 /\ y # 0
  <2>1. GetAmountOut(a, x, y) = out
    BY <1>1, <1>2 DEF GetAmountOut
  <2>2. out <= AmmQuote(a, x, y)
    BY <1>1, <1>2, QuoteBoundsSettlement
  <2>3. out \in 0..(y - 1) /\ AmountOut(out, y - out, x + a) <= a
    BY <1>1, <1>2, AmountOutBelowReserve, RoundTrip
  <2> HIDE DEF out
  <2>4. GetAmountOut(out, y - out, x + a) <= a
    BY <1>1, <2>3 DEF GetAmountOut
  <2> QED BY <2>1, <2>2, <2>4 DEF AmmQuoteOf
<1>3. CASE x = 0 \/ y = 0
  BY <1>1, <1>3 DEF GetAmountOut, AmmQuoteOf, AmmQuote, IsLiquid
<1> QED BY <1>1, <1>2, <1>3

\* No reserves that trading leads to make a pool settle for more than the
\* agent's formula quotes, whatever the order.
THEOREM SettlesAtMostTheQuoteHolds == PoolSpec => []SettlesAtMostTheQuote
<1>1. PoolTypeOK => SettlesAtMostTheQuote
  BY QuotesOfReserves
<1> QED BY <1>1, PoolTypeOKHolds, PTL

\* No reserves that trading leads to make buying and selling back pay.
THEOREM RoundTripNeverProfitsHolds == PoolSpec => []RoundTripNeverProfits
<1>1. PoolTypeOK => RoundTripNeverProfits
  BY QuotesOfReserves
<1> QED BY <1>1, PoolTypeOKHolds, PTL

-----------------------------------------------------------------------------
(* The vault. *)

\* The inductive invariant: types, backed reserves, and booked cash in the
\* purse.  The last two are needed together: a reverse swap is paid from a
\* pool's purse, and only PoolInv says that purse can pay.
VaultInv == TypeOK /\ ReserveBacked /\ VaultSolvent

\* What the assumptions on the constants say of the types.
LEMMA VaultConstants ==
    /\ Vault \in Addresses \ Pools
    /\ \A a \in Accounts : a \in Addresses /\ a # Vault
    /\ None \notin Addresses
    /\ Delegates \subseteq Addresses
    /\ PoolChoices \subseteq Addresses
    /\ MAX_ACTIONS \in Nat
    /\ MAX_SWAPS \in Nat
    /\ CSPR \in Texts
  BY VaultAssumption, PoolAssumption

\* The parts of a record survive in the mappings.
LEMMA RecordSwapKeepsTypes ==
    ASSUME TypeOK, NEW caller \in Addresses, NEW token_in \in Texts,
           NEW token_out \in Texts, NEW amount_in \in Nat, NEW amount_out \in Nat,
           swap_count < MAX_SWAPS,
           RecordSwap(caller, token_in, token_out, amount_in, amount_out)
    PROVE  /\ swap_count' \in 0..MAX_SWAPS
           /\ swaps' \in [SwapIds -> SwapRecord \cup {None}]
           /\ UNCHANGED <<balances, owner, agent, pool_address, paused, action_count, actions>>
<1> DEFINE r == [id |-> swap_count, token_in |-> token_in, token_out |-> token_out,
                 amount_in |-> amount_in, amount_out |-> amount_out, agent |-> caller]
<1>1. swap_count \in Nat /\ MAX_SWAPS \in Nat /\ swap_count \in SwapIds
  BY VaultConstants DEF TypeOK, SwapIds
<1>2. r \in SwapRecord
  BY <1>1 DEF SwapRecord
<1> HIDE DEF r
<1>3. swaps' = [swaps EXCEPT ![swap_count] = r] /\ swap_count' = swap_count + 1
  BY DEF RecordSwap, r
<1>4. UNCHANGED <<balances, owner, agent, pool_address, paused, action_count, actions>>
  BY DEF RecordSwap, roleVars, actionVars
<1> QED BY <1>1, <1>2, <1>3, <1>4 DEF TypeOK

\* deposit keeps the invariant.
LEMMA DepositKeepsInv ==
    ASSUME VaultInv, NEW caller \in Accounts, NEW amount \in Amounts, Deposit(caller, amount)
    PROVE  VaultInv'
<1>1. caller \in Addresses /\ caller # Vault /\ Vault \in Addresses \ Pools
      /\ amount \in Nat /\ caller \notin Pools
  BY VaultConstants, PoolConstants
<1>2. /\ purse' \in [Addresses -> Nat]
      /\ \A a \in Addresses :
           purse'[a] = purse[a] - (IF a = caller THEN amount ELSE 0)
                                + (IF a = Vault THEN amount ELSE 0)
  BY <1>1, TransferMoves DEF VaultInv, TypeOK, PoolTypeOK, Deposit
<1>3. TypeOK'
  BY <1>1, <1>2 DEF VaultInv, TypeOK, PoolTypeOK, Deposit, roleVars, actionVars,
                    swapVars, poolVars
<1>4. ReserveBacked'
  BY <1>1, <1>2, PoolConstants
     DEF VaultInv, TypeOK, PoolTypeOK, ReserveBacked, Deposit, poolVars
<1>5. VaultSolvent'
  BY <1>1, <1>2, PoolConstants DEF VaultInv, TypeOK, PoolTypeOK, VaultSolvent, Deposit, U512
<1> QED BY <1>3, <1>4, <1>5 DEF VaultInv

\* withdraw keeps the invariant.
LEMMA WithdrawKeepsInv ==
    ASSUME VaultInv, NEW caller \in Accounts, NEW amount \in Amounts, Withdraw(caller, amount)
    PROVE  VaultInv'
<1>1. caller \in Addresses /\ caller # Vault /\ Vault \in Addresses \ Pools
      /\ amount \in Nat /\ caller \notin Pools /\ MaxU512 \in Nat
  BY VaultConstants, PoolConstants
<1>2. /\ purse' \in [Addresses -> Nat]
      /\ \A a \in Addresses :
           purse'[a] = purse[a] - (IF a = Vault THEN amount ELSE 0)
                                + (IF a = caller THEN amount ELSE 0)
  BY <1>1, TransferMoves DEF VaultInv, TypeOK, PoolTypeOK, Withdraw
<1>3. TypeOK'
  <2>1. balances' \in [Addresses -> U512] /\ total_locked' \in U512
    BY <1>1 DEF VaultInv, TypeOK, Withdraw, U512
  <2>2. UNCHANGED <<scspr_balance, roleVars, paused, actionVars, swapVars, poolVars>>
    BY DEF Withdraw
  <2> QED BY <1>2, <2>1, <2>2 DEF VaultInv, TypeOK, PoolTypeOK, roleVars, actionVars,
                                  swapVars, poolVars
<1>4. ReserveBacked'
  BY <1>1, <1>2, PoolConstants
     DEF VaultInv, TypeOK, PoolTypeOK, ReserveBacked, Withdraw, poolVars, U512
<1>5. VaultSolvent'
  BY <1>1, <1>2, PoolConstants DEF VaultInv, TypeOK, PoolTypeOK, VaultSolvent, Withdraw, U512
<1> QED BY <1>3, <1>4, <1>5 DEF VaultInv

\* log_action keeps the invariant.
LEMMA LogActionKeepsInv ==
    ASSUME VaultInv, NEW caller \in Accounts, NEW text \in Texts, NEW params \in Texts,
           LogAction(caller, text, params)
    PROVE  VaultInv'
<1> DEFINE e == [id |-> action_count, action_type |-> text, agent |-> caller]
<1>1. action_count \in ActionIds /\ MAX_ACTIONS \in Nat /\ caller \in Addresses
  BY VaultConstants DEF VaultInv, TypeOK, LogAction, ActionIds
<1>2. e \in ActionEntry
  BY <1>1 DEF ActionEntry
<1> HIDE DEF e
<1>3. /\ actions' = [actions EXCEPT ![action_count] = e]
      /\ action_count' = action_count + 1
      /\ action_count < MAX_ACTIONS
      /\ UNCHANGED <<fundVars, roleVars, paused, swapVars, poolVars, purse>>
  BY DEF LogAction, e
<1>4. TypeOK'
  BY <1>1, <1>2, <1>3 DEF VaultInv, TypeOK, PoolTypeOK, fundVars, roleVars, swapVars, poolVars
<1>5. ReserveBacked' /\ VaultSolvent'
  BY <1>3 DEF VaultInv, ReserveBacked, VaultSolvent, fundVars, poolVars
<1> QED BY <1>4, <1>5 DEF VaultInv

\* A swap of CSPR keeps the invariant.
LEMMA SwapForwardKeepsInv ==
    ASSUME VaultInv, pool_address \in Pools, NEW caller \in Accounts,
           NEW token_in \in Texts, NEW token_out \in Texts, NEW amount_in \in Nat,
           swap_count < MAX_SWAPS,
           SwapForward(caller, token_in, token_out, amount_in)
    PROVE  VaultInv'
<1> DEFINE returned == ForwardOut(pool_address, amount_in)
<1>1. /\ PoolInv /\ Vault \in Addresses \ Pools /\ pool_address \in Addresses
      /\ 0 \in Nat /\ MaxU512 \in Nat /\ caller \in Addresses
  BY VaultConstants, PoolConstants DEF VaultInv, TypeOK, PoolInv
<1>2. SwapCsprForScspr(pool_address, Vault, amount_in, 0)
  BY DEF SwapForward
<1>3. PoolInv'
  BY <1>1, <1>2, ForwardKeepsPoolInv
<1>4. returned \in Nat
  <2>1. cspr_reserve[pool_address] \in Nat \ {0} /\ scspr_reserve[pool_address] \in Nat
    BY <1>1, <1>2 DEF PoolInv, PoolTypeOK, SwapCsprForScspr, IsLiquid, U512
  <2> QED BY <2>1, AmountOutIsFloor DEF ForwardOut
<1> HIDE DEF returned
<1>5. /\ amount_in <= total_locked
      /\ total_locked' = total_locked - amount_in
      /\ scspr_balance + returned \in U512
      /\ scspr_balance' = scspr_balance + returned
      /\ RecordSwap(caller, token_in, token_out, amount_in, returned)
  BY DEF SwapForward, returned
<1>6. /\ swap_count' \in 0..MAX_SWAPS
      /\ swaps' \in [SwapIds -> SwapRecord \cup {None}]
      /\ UNCHANGED <<balances, owner, agent, pool_address, paused, action_count, actions>>
  BY <1>1, <1>4, <1>5, RecordSwapKeepsTypes DEF VaultInv
<1>7. TypeOK'
  <2>1. total_locked' \in U512
    BY <1>1, <1>5 DEF VaultInv, TypeOK, U512
  <2> QED BY <1>3, <1>5, <1>6, <2>1 DEF VaultInv, TypeOK, PoolInv
<1>8. VaultSolvent'
  <2>1. purse'[Vault] = purse[Vault] - amount_in
    BY <1>1, <1>2, TransferMoves DEF PoolInv, PoolTypeOK, SwapCsprForScspr
  <2> QED BY <1>1, <1>5, <2>1 DEF VaultInv, TypeOK, PoolTypeOK, VaultSolvent, U512
<1> QED BY <1>3, <1>7, <1>8 DEF VaultInv, PoolInv

\* A swap back into CSPR keeps the invariant.
LEMMA SwapReverseKeepsInv ==
    ASSUME VaultInv, pool_address \in Pools, NEW caller \in Accounts,
           NEW token_in \in Texts, NEW token_out \in Texts, NEW amount_in \in Nat,
           swap_count < MAX_SWAPS,
           SwapReverse(caller, token_in, token_out, amount_in)
    PROVE  VaultInv'
<1> DEFINE returned == ReverseOut(pool_address, amount_in)
<1>1. /\ PoolInv /\ Vault \in Addresses \ Pools /\ 0 \in Nat
      /\ MaxU512 \in Nat /\ caller \in Addresses
  BY VaultConstants, PoolConstants DEF VaultInv, TypeOK, PoolInv
<1>2. SwapScsprForCspr(pool_address, amount_in, 0, Vault)
  BY DEF SwapReverse
<1>3. /\ PoolInv'
      /\ returned \in Nat
      /\ purse'[Vault] = purse[Vault] + returned
  <2>1. /\ PoolInv'
        /\ returned \in Nat
        /\ \A a \in Addresses :
             purse'[a] = purse[a] - (IF a = pool_address THEN returned ELSE 0)
                                  + (IF a = Vault THEN returned ELSE 0)
    BY <1>1, <1>2, ReverseKeepsPoolInv
  <2> QED BY <1>1, <2>1 DEF PoolInv, PoolTypeOK
<1> HIDE DEF returned
<1>4. /\ amount_in <= scspr_balance
      /\ scspr_balance' = scspr_balance - amount_in
      /\ total_locked + returned \in U512
      /\ total_locked' = total_locked + returned
      /\ RecordSwap(caller, token_in, token_out, amount_in, returned)
  BY DEF SwapReverse, returned
<1>5. /\ swap_count' \in 0..MAX_SWAPS
      /\ swaps' \in [SwapIds -> SwapRecord \cup {None}]
      /\ UNCHANGED <<balances, owner, agent, pool_address, paused, action_count, actions>>
  BY <1>1, <1>3, <1>4, RecordSwapKeepsTypes DEF VaultInv
<1>6. TypeOK'
  <2>1. scspr_balance' \in U512
    BY <1>1, <1>4 DEF VaultInv, TypeOK, U512
  <2> QED BY <1>3, <1>4, <1>5, <2>1 DEF VaultInv, TypeOK, PoolInv
<1>7. VaultSolvent'
  BY <1>1, <1>3, <1>4 DEF VaultInv, TypeOK, PoolTypeOK, VaultSolvent, U512
<1> QED BY <1>3, <1>6, <1>7 DEF VaultInv, PoolInv

\* A swap before a pool is set only writes a record.
LEMMA AuditOnlyKeepsInv ==
    ASSUME VaultInv, NEW caller \in Accounts, NEW token_in \in Texts,
           NEW token_out \in Texts, NEW amount_in \in Nat, NEW amount_out \in Nat,
           ExecuteSwapAuditOnly(caller, token_in, token_out, amount_in, amount_out)
    PROVE  VaultInv'
<1>1. /\ swap_count' \in 0..MAX_SWAPS
      /\ swaps' \in [SwapIds -> SwapRecord \cup {None}]
      /\ UNCHANGED <<balances, owner, agent, pool_address, paused, action_count, actions>>
  BY VaultConstants, RecordSwapKeepsTypes DEF VaultInv, ExecuteSwapAuditOnly, SwapAllowed
<1>2. UNCHANGED <<total_locked, scspr_balance, poolVars, purse>>
  BY DEF ExecuteSwapAuditOnly
<1> QED BY <1>1, <1>2 DEF VaultInv, TypeOK, PoolTypeOK, ReserveBacked, VaultSolvent, poolVars

\* The owner's entry points keep the invariant.
LEMMA AdminKeepsInv ==
    ASSUME VaultInv, NEW caller \in Accounts, AdminNext(caller)
    PROVE  VaultInv'
<1>1. UNCHANGED <<fundVars, actionVars, swapVars, poolVars, purse>>
  BY DEF AdminNext, SetPaused, SetAgent, SetPool, TransferOwnership
<1>2. /\ owner' \in Addresses /\ agent' \in Addresses /\ paused' \in BOOLEAN
      /\ pool_address' \in Addresses \cup {None}
  BY VaultConstants DEF AdminNext, SetPaused, SetAgent, SetPool, TransferOwnership,
                        VaultInv, TypeOK, roleVars
<1> QED BY <1>1, <1>2 DEF VaultInv, TypeOK, PoolTypeOK, ReserveBacked, VaultSolvent,
                          fundVars, actionVars, swapVars, poolVars

\* What strangers do to a pool can only bring the vault CSPR.
LEMMA StrangersKeepInv ==
    ASSUME VaultInv, PoolNext, UNCHANGED vaultVars
    PROVE  VaultInv' /\ purse'[Vault] >= purse[Vault]
<1>1. PoolInv
  BY DEF VaultInv, TypeOK, PoolInv
<1>2. PoolInv'
  BY <1>1, PoolNextKeepsPoolInv
<1>3. UNCHANGED <<owner, agent, paused, balances, total_locked, action_count, actions,
                  swap_count, swaps, pool_address, scspr_balance>>
  BY DEF vaultVars, fundVars, roleVars, actionVars, swapVars
<1>4. purse'[Vault] >= purse[Vault]
  <2>1. PICK p \in Pools, caller \in Accounts, amount \in Amounts :
          \/ SeedCspr(p, caller, amount)
          \/ \E min \in MinOuts : SwapCsprForScspr(p, caller, amount, min)
          \/ \E min \in MinOuts, recipient \in Addresses :
                 SwapScsprForCspr(p, amount, min, recipient)
    BY DEF PoolNext
  <2>2. /\ caller \in Addresses /\ caller # Vault /\ p \in Addresses /\ p # Vault
        /\ amount \in Nat /\ Vault \in Addresses /\ MinOuts \subseteq Nat
    BY VaultConstants, PoolConstants
  <2>3. purse[Vault] \in Nat
    BY <1>1, <2>2 DEF PoolInv, PoolTypeOK
  <2>4. CASE SeedCspr(p, caller, amount)
    BY <1>1, <2>2, <2>3, <2>4, TransferMoves DEF PoolInv, PoolTypeOK, SeedCspr
  <2>5. CASE \E min \in MinOuts : SwapCsprForScspr(p, caller, amount, min)
    BY <1>1, <2>2, <2>3, <2>5, TransferMoves DEF PoolInv, PoolTypeOK, SwapCsprForScspr
  <2>6. CASE \E min \in MinOuts, recipient \in Addresses :
               SwapScsprForCspr(p, amount, min, recipient)
    <3>1. PICK min \in MinOuts, recipient \in Addresses :
            SwapScsprForCspr(p, amount, min, recipient)
      BY <2>6
    <3>2. /\ ReverseOut(p, amount) \in Nat
          /\ purse'[Vault] = purse[Vault] - (IF Vault = p THEN ReverseOut(p, amount) ELSE 0)
                               + (IF Vault = recipient THEN ReverseOut(p, amount) ELSE 0)
      BY <1>1, <2>2, <3>1, ReverseKeepsPoolInv
    <3> QED BY <2>2, <2>3, <3>2
  <2> QED BY <2>1, <2>4, <2>5, <2>6
<1> QED BY <1>2, <1>3, <1>4, VaultConstants, PoolConstants
        DEF VaultInv, TypeOK, PoolInv, PoolTypeOK, VaultSolvent, U512

\* A step of the vault, case by case: what every proof below splits on.  The
\* amounts of a swap are any: those of the agent's deploys follow the balance.
CallBy(caller) ==
    \/ \E amount \in Amounts : Deposit(caller, amount)
    \/ \E amount \in Amounts : Withdraw(caller, amount)
    \/ \E text, params \in Texts : LogAction(caller, text, params)
    \/ \E token_in, token_out \in Texts, amount_in, amount_out \in Nat :
         /\ SwapAllowed(caller, token_in, token_out, amount_in, amount_out)
         /\ pool_address \in Pools
         /\ SwapForward(caller, token_in, token_out, amount_in)
    \/ \E token_in, token_out \in Texts, amount_in, amount_out \in Nat :
         /\ SwapAllowed(caller, token_in, token_out, amount_in, amount_out)
         /\ pool_address \in Pools
         /\ SwapReverse(caller, token_in, token_out, amount_in)
    \/ \E token_in, token_out \in Texts, amount_in, amount_out \in Nat :
         ExecuteSwapAuditOnly(caller, token_in, token_out, amount_in, amount_out)
    \/ AdminNext(caller)

AnyCall == \E caller \in Accounts : CallBy(caller)
AnyNext == AnyCall \/ (PoolNext /\ UNCHANGED vaultVars)

\* An agent's call is one of them, if its amounts are numbers.
LEMMA AgentStepCases ==
    ASSUME NEW caller \in Accounts, NEW token_in \in Texts, NEW token_out \in Texts,
           NEW amount_in \in Nat, NEW amount_out \in Nat,
           \/ ExecuteSwapInPool(caller, token_in, token_out, amount_in, amount_out)
           \/ ExecuteSwapAuditOnly(caller, token_in, token_out, amount_in, amount_out)
    PROVE  AnyCall
  BY DEF AnyCall, CallBy, ExecuteSwapInPool

\* So is every step of the vault.
LEMMA VaultStepCases ==
    ASSUME VaultNext
    PROVE  AnyCall
<1>1. PICK caller \in Accounts :
        DepositorNext(caller) \/ AgentNext(caller) \/ AdminNext(caller)
  BY DEF VaultNext
<1>2. CASE DepositorNext(caller) \/ AdminNext(caller)
  BY <1>2 DEF AnyCall, CallBy, DepositorNext
<1>3. CASE AgentNext(caller)
  <2>1. CASE \E text, params \in Texts : LogAction(caller, text, params)
    BY <2>1 DEF AnyCall, CallBy
  <2>2. CASE \E token_in, token_out \in Texts, amount_in, amount_out \in Amounts :
               \/ ExecuteSwapInPool(caller, token_in, token_out, amount_in, amount_out)
               \/ ExecuteSwapAuditOnly(caller, token_in, token_out, amount_in, amount_out)
    BY <2>2, AgentStepCases, PoolConstants
  <2> QED BY <1>3, <2>1, <2>2 DEF AgentNext
<1> QED BY <1>1, <1>2, <1>3

LEMMA NextIsAny == [Next]_vars => [AnyNext]_vars
  BY VaultStepCases DEF Next, AnyNext

\* The invariant is inductive.
LEMMA NextKeepsInv ==
    ASSUME VaultInv, AnyNext
    PROVE  VaultInv'
<1>1. CASE AnyCall
  <2>1. PICK caller \in Accounts : CallBy(caller)
    BY <1>1 DEF AnyCall
  <2>2. CASE \E amount \in Amounts : Deposit(caller, amount)
    BY <2>2, DepositKeepsInv
  <2>3. CASE \E amount \in Amounts : Withdraw(caller, amount)
    BY <2>3, WithdrawKeepsInv
  <2>4. CASE \E text, params \in Texts : LogAction(caller, text, params)
    BY <2>4, LogActionKeepsInv
  <2>5. CASE \E token_in, token_out \in Texts, amount_in, amount_out \in Nat :
               /\ SwapAllowed(caller, token_in, token_out, amount_in, amount_out)
               /\ pool_address \in Pools
               /\ SwapForward(caller, token_in, token_out, amount_in)
    BY <2>5, SwapForwardKeepsInv, PoolConstants DEF SwapAllowed
  <2>6. CASE \E token_in, token_out \in Texts, amount_in, amount_out \in Nat :
               /\ SwapAllowed(caller, token_in, token_out, amount_in, amount_out)
               /\ pool_address \in Pools
               /\ SwapReverse(caller, token_in, token_out, amount_in)
    BY <2>6, SwapReverseKeepsInv, PoolConstants DEF SwapAllowed
  <2>7. CASE \E token_in, token_out \in Texts, amount_in, amount_out \in Nat :
               ExecuteSwapAuditOnly(caller, token_in, token_out, amount_in, amount_out)
    <3>1. caller \in Addresses /\ Amounts \subseteq Nat
      BY PoolConstants
    <3> QED BY <2>7, <3>1, AuditOnlyKeepsInv
  <2>8. CASE AdminNext(caller)
    BY <2>8, AdminKeepsInv
  <2> QED BY <2>1, <2>2, <2>3, <2>4, <2>5, <2>6, <2>7, <2>8 DEF CallBy
<1>2. CASE PoolNext /\ UNCHANGED vaultVars
  BY <1>2, StrangersKeepInv
<1> QED BY <1>1, <1>2 DEF AnyNext

\* A step of something else keeps the invariant.
LEMMA StutterKeepsInv ==
    ASSUME VaultInv, UNCHANGED vars
    PROVE  VaultInv'
  BY DEF VaultInv, TypeOK, PoolTypeOK, ReserveBacked, VaultSolvent, vars, vaultVars,
         fundVars, roleVars, actionVars, swapVars, poolVars

\* A fresh vault has the invariant.
LEMMA InitGivesInv ==
    ASSUME Init
    PROVE  VaultInv
<1>1. purse \in [Addresses -> Nat]
  BY PoolConstants DEF Init, PurseInit
<1>2. PoolTypeOK
  BY <1>1, PoolConstants DEF Init, PoolInit, PoolTypeOK, U512
<1>3. ReserveBacked
  BY <1>1, PoolConstants DEF Init, PoolInit, ReserveBacked
<1>4. /\ 0 \in U512 /\ 0 \in 0..MAX_ACTIONS /\ 0 \in 0..MAX_SWAPS
      /\ Accounts \subseteq Addresses
  BY VaultConstants, PoolConstants DEF U512
<1>5. TypeOK
  BY <1>2, <1>4 DEF Init, VaultInit, VaultFresh, TypeOK
<1>6. VaultSolvent
  BY <1>1, VaultConstants DEF Init, VaultInit, VaultFresh, VaultSolvent
<1> QED BY <1>3, <1>5, <1>6 DEF VaultInv

\* The vault is well typed, its pools' reserves are backed and its booked cash
\* is in its purse, in every reachable state.
THEOREM VaultSafe == Spec => [](TypeOK /\ ReserveBacked /\ VaultSolvent)
<1>1. Init => VaultInv
  BY InitGivesInv
<1>2. VaultInv /\ [Next]_vars => VaultInv'
  BY NextKeepsInv, StutterKeepsInv, NextIsAny
<1> QED BY <1>1, <1>2, PTL DEF Spec, VaultInv

\* The type invariant on its own.
THEOREM TypeOKHolds == Spec => []TypeOK
  BY VaultSafe, PTL

-----------------------------------------------------------------------------
\* While the vault is paused a step moves nothing of the vault's.
LEMMA PausedStep ==
    ASSUME VaultInv, AnyNext, paused
    PROVE  /\ UNCHANGED <<fundVars, actionVars, swapVars>>
           /\ purse'[Vault] >= purse[Vault]
<1>0. purse[Vault] \in Nat
  BY VaultConstants DEF VaultInv, TypeOK, PoolTypeOK
<1>1. CASE AnyCall
  <2>1. PICK caller \in Accounts : AdminNext(caller)
    BY <1>1 DEF AnyCall, CallBy, Deposit, Withdraw, LogAction, SwapAllowed, ExecuteSwapAuditOnly
  <2>2. UNCHANGED <<fundVars, actionVars, swapVars, purse>>
    BY <2>1 DEF AdminNext, SetPaused, SetAgent, SetPool, TransferOwnership
  <2> QED BY <1>0, <2>2
<1>2. CASE PoolNext /\ UNCHANGED vaultVars
  BY <1>2, StrangersKeepInv DEF vaultVars
<1> QED BY <1>1, <1>2 DEF AnyNext

\* Pausing stops every movement of claims, cash, position and records.
THEOREM PausedMeansFrozenHolds == Spec => PausedMeansFrozen
<1>1. VaultInv /\ [Next]_vars =>
        [paused => /\ UNCHANGED <<fundVars, actionVars, swapVars>>
                   /\ purse'[Vault] >= purse[Vault]]_vars
  BY PausedStep, NextIsAny
<1> QED BY <1>1, VaultSafe, PTL DEF Spec, VaultInv, PausedMeansFrozen

-----------------------------------------------------------------------------
\* Only a deposit and a withdrawal touch a claim.
LEMMA ClaimsChangeInTwoWays ==
    ASSUME VaultInv, AnyNext
    PROVE  \/ UNCHANGED balances
           \/ \E caller \in Accounts, amount \in Amounts :
                Deposit(caller, amount) \/ Withdraw(caller, amount)
<1>1. CASE AnyCall
  BY <1>1 DEF AnyCall, CallBy, LogAction, SwapForward, SwapReverse, ExecuteSwapAuditOnly,
              RecordSwap, AdminNext, SetPaused, SetAgent, SetPool, TransferOwnership, fundVars
<1>2. CASE PoolNext /\ UNCHANGED vaultVars
  BY <1>2 DEF vaultVars, fundVars
<1> QED BY <1>1, <1>2 DEF AnyNext

\* A claim changes by what its holder's purse pays.
LEMMA ClaimStep ==
    ASSUME VaultInv, AnyNext, NEW a \in Addresses, balances'[a] # balances[a]
    PROVE  balances'[a] - balances[a] = purse[a] - purse'[a]
<1>1. PICK caller \in Accounts, amount \in Amounts :
        Deposit(caller, amount) \/ Withdraw(caller, amount)
  BY ClaimsChangeInTwoWays
<1>2. /\ caller \in Addresses /\ caller # Vault /\ Vault \in Addresses /\ amount \in Nat
      /\ purse \in [Addresses -> Nat] /\ balances \in [Addresses -> Nat]
  BY VaultConstants, PoolConstants DEF VaultInv, TypeOK, PoolTypeOK, U512
<1>3. CASE Deposit(caller, amount)
  <2>1. /\ balances' = [balances EXCEPT ![caller] = @ + amount]
        /\ purse'[caller] = purse[caller] - amount
    BY <1>2, <1>3, TransferMoves DEF Deposit
  <2> QED BY <1>2, <2>1
<1>4. CASE Withdraw(caller, amount)
  <2>1. /\ balances' = [balances EXCEPT ![caller] = @ - amount]
        /\ purse'[caller] = purse[caller] + amount
    BY <1>2, <1>4, TransferMoves DEF Withdraw
  <2> QED BY <1>2, <2>1
<1> QED BY <1>1, <1>3, <1>4

\* No claim changes but against an equal payment to or from its holder.
THEOREM ClaimsChangeAgainstPaymentHolds == Spec => ClaimsChangeAgainstPayment
<1>1. VaultInv /\ [Next]_vars =>
        [\A a \in Addresses :
           balances'[a] # balances[a] =>
             balances'[a] - balances[a] = purse[a] - purse'[a]]_vars
  BY ClaimStep, NextIsAny
<1> QED BY <1>1, VaultSafe, PTL DEF Spec, VaultInv, ClaimsChangeAgainstPayment

-----------------------------------------------------------------------------
\* The refinement of FundLedger, step by step: a deposit is a PayIn, a
\* withdrawal a PayOut, the two directions of a swap Invest and Divest, pause
\* and unpause SetFrozen; everything else leaves claims and cash alone.
LEMMA StepRefinesLedger ==
    ASSUME VaultInv, AnyNext
    PROVE  [Ledger!LedgerNext]_<<balances, total_locked, paused>>
<1>0. /\ balances \in [Addresses -> U512] /\ total_locked \in U512
      /\ Amounts \subseteq Nat /\ MaxU512 \in Nat
      /\ \A c \in Accounts : c \in Addresses
  BY VaultConstants, PoolConstants DEF VaultInv, TypeOK
<1>1. CASE AnyCall
  <2>1. PICK caller \in Accounts : CallBy(caller)
    BY <1>1 DEF AnyCall
  <2>2. CASE \E amount \in Amounts : Deposit(caller, amount)
    <3>1. PICK amount \in Amounts : Deposit(caller, amount)
      BY <2>2
    <3>2. amount \in 0..MaxU512 /\ caller \in Addresses
      BY <1>0, <3>1 DEF Deposit, U512
    <3>3. Ledger!PayIn(caller, amount)
      BY <1>0, <3>1, <3>2 DEF Deposit, Ledger!PayIn, U512
    <3> QED BY <3>2, <3>3 DEF Ledger!LedgerNext
  <2>3. CASE \E amount \in Amounts : Withdraw(caller, amount)
    <3>1. PICK amount \in Amounts : Withdraw(caller, amount)
      BY <2>3
    <3>2. amount \in 0..MaxU512 /\ caller \in Addresses
      BY <1>0, <3>1 DEF Withdraw, U512
    <3>3. Ledger!PayOut(caller, amount)
      BY <3>1 DEF Withdraw, Ledger!PayOut
    <3> QED BY <3>2, <3>3 DEF Ledger!LedgerNext
  <2>4. CASE \E text, params \in Texts : LogAction(caller, text, params)
    BY <2>4 DEF LogAction, fundVars
  <2>5. CASE \E token_in, token_out \in Texts, amount_in, amount_out \in Nat :
               /\ SwapAllowed(caller, token_in, token_out, amount_in, amount_out)
               /\ pool_address \in Pools
               /\ SwapForward(caller, token_in, token_out, amount_in)
    <3>1. PICK token_in, token_out \in Texts, amount_in, amount_out \in Nat :
               /\ SwapAllowed(caller, token_in, token_out, amount_in, amount_out)
               /\ SwapForward(caller, token_in, token_out, amount_in)
      BY <2>5
    <3>2. amount_in \in 0..MaxU512
      BY <1>0, <3>1 DEF SwapForward, U512
    <3>3. Ledger!Invest(amount_in)
      BY <3>1 DEF SwapAllowed, SwapForward, RecordSwap, Ledger!Invest
    <3> QED BY <3>2, <3>3 DEF Ledger!LedgerNext
  <2>6. CASE \E token_in, token_out \in Texts, amount_in, amount_out \in Nat :
               /\ SwapAllowed(caller, token_in, token_out, amount_in, amount_out)
               /\ pool_address \in Pools
               /\ SwapReverse(caller, token_in, token_out, amount_in)
    <3>1. PICK token_in, token_out \in Texts, amount_in, amount_out \in Nat :
               /\ SwapAllowed(caller, token_in, token_out, amount_in, amount_out)
               /\ pool_address \in Pools
               /\ SwapReverse(caller, token_in, token_out, amount_in)
      BY <2>6
    <3> DEFINE returned == ReverseOut(pool_address, amount_in)
    <3>2. returned \in Nat
      <4>1. PoolInv /\ SwapScsprForCspr(pool_address, amount_in, 0, Vault)
        BY <3>1 DEF SwapReverse, VaultInv, TypeOK, PoolInv
      <4>2. amount_in \in Nat /\ Vault \in Addresses /\ 0 \in Nat
        BY <1>0, VaultConstants
      <4> QED BY <3>1, <4>1, <4>2, ReverseKeepsPoolInv
    <3> HIDE DEF returned
    <3>3. total_locked' = total_locked + returned /\ total_locked + returned \in U512
      BY <3>1 DEF SwapReverse, returned
    <3>4. returned \in 0..MaxU512
      BY <1>0, <3>2, <3>3 DEF U512
    <3>5. Ledger!Divest(returned)
      BY <1>0, <3>1, <3>2, <3>3 DEF SwapAllowed, SwapReverse, RecordSwap, Ledger!Divest, U512
    <3> QED BY <3>4, <3>5 DEF Ledger!LedgerNext
  <2>7. CASE \E token_in, token_out \in Texts, amount_in, amount_out \in Nat :
               ExecuteSwapAuditOnly(caller, token_in, token_out, amount_in, amount_out)
    BY <2>7 DEF ExecuteSwapAuditOnly, RecordSwap
  <2>8. CASE AdminNext(caller)
    <3>1. CASE \E b \in BOOLEAN : SetPaused(caller, b)
      BY <3>1 DEF SetPaused, fundVars, Ledger!LedgerNext, Ledger!SetFrozen
    <3>2. CASE ~ \E b \in BOOLEAN : SetPaused(caller, b)
      BY <2>8, <3>2 DEF AdminNext, SetAgent, SetPool, TransferOwnership, fundVars
    <3> QED BY <3>1, <3>2
  <2> QED BY <2>1, <2>2, <2>3, <2>4, <2>5, <2>6, <2>7, <2>8 DEF CallBy
<1>2. CASE PoolNext /\ UNCHANGED vaultVars
  BY <1>2 DEF vaultVars, fundVars
<1> QED BY <1>1, <1>2 DEF AnyNext

\* The vault implements the abstract fund.
THEOREM VaultImplementsFundLedger == Spec => ImplementsFundLedger
<1>1. Init => Ledger!LedgerInit
  BY DEF Init, VaultInit, VaultFresh, Ledger!LedgerInit
<1>2. VaultInv /\ [Next]_vars => [Ledger!LedgerNext]_<<balances, total_locked, paused>>
  BY StepRefinesLedger, NextIsAny DEF vars, vaultVars, fundVars
<1> QED BY <1>1, <1>2, VaultSafe, PTL
        DEF Spec, VaultInv, ImplementsFundLedger, Ledger!LedgerSpec, Ledger!ledgerVars

-----------------------------------------------------------------------------
\* A counter and a mapping written at the counter are a sequence appended to.
LEMMA MappingAsSequence ==
    ASSUME NEW n \in Nat, NEW f, NEW g, NEW e, NEW S,
           \A i \in 0..(n - 1) : f[i] \in S /\ g[i] = f[i],
           g[n] = e, e \in S
    PROVE  /\ [i \in 1..n |-> f[i - 1]] \in Seq(S)
           /\ Len([i \in 1..n |-> f[i - 1]]) = n
           /\ [i \in 1..(n + 1) |-> g[i - 1]] = Append([i \in 1..n |-> f[i - 1]], e)
           /\ Len([i \in 1..(n + 1) |-> g[i - 1]]) = n + 1
           /\ [i \in 1..(n + 1) |-> g[i - 1]][n + 1] = e
<1> DEFINE s == [i \in 1..n |-> f[i - 1]]
           t == [i \in 1..(n + 1) |-> g[i - 1]]
<1>1. s \in Seq(S) /\ Len(s) = n /\ \A i \in 1..n : s[i] = f[i - 1]
  OBVIOUS
<1>2. t \in Seq(S) /\ Len(t) = n + 1 /\ \A i \in 1..(n + 1) : t[i] = g[i - 1]
  OBVIOUS
<1>3. t = Append(s, e)
  BY <1>1, <1>2
<1> QED BY <1>1, <1>2, <1>3

\* What is known of the trails: entries below the counter are entries, under
\* their own ids, and above it there is nothing.
TrailInv ==
    /\ \A i \in ActionIds : IF i < action_count
                            THEN actions[i] \in ActionEntry /\ actions[i].id = i
                            ELSE actions[i] = None
    /\ \A i \in SwapIds : IF i < swap_count
                          THEN swaps[i] \in SwapRecord /\ swaps[i].id = i
                          ELSE swaps[i] = None

\* The two ways a trail moves.
ActionLogged == \E e \in ActionEntry :
    /\ action_count < MAX_ACTIONS
    /\ e.id = action_count
    /\ actions' = [actions EXCEPT ![action_count] = e]
    /\ action_count' = action_count + 1

SwapRecorded == \E r \in SwapRecord :
    /\ swap_count < MAX_SWAPS
    /\ r.id = swap_count
    /\ swaps' = [swaps EXCEPT ![swap_count] = r]
    /\ swap_count' = swap_count + 1

\* What a step may do to the trails.
LEMMA TrailStep ==
    ASSUME VaultInv, AnyNext
    PROVE  /\ ActionLogged \/ UNCHANGED actionVars
           /\ SwapRecorded \/ UNCHANGED swapVars
<1>0. /\ \A c \in Accounts : c \in Addresses
      /\ Amounts \subseteq Nat /\ MAX_SWAPS \in Nat /\ MAX_ACTIONS \in Nat
      /\ action_count \in 0..MAX_ACTIONS /\ swap_count \in 0..MAX_SWAPS
  BY VaultConstants, PoolConstants DEF VaultInv, TypeOK
<1>1. ASSUME NEW caller \in Accounts, NEW token_in \in Texts, NEW token_out \in Texts,
             NEW amount_in \in Nat, NEW amount_out \in Nat, swap_count < MAX_SWAPS,
             RecordSwap(caller, token_in, token_out, amount_in, amount_out)
      PROVE  SwapRecorded
  <2> DEFINE r == [id |-> swap_count, token_in |-> token_in, token_out |-> token_out,
                   amount_in |-> amount_in, amount_out |-> amount_out, agent |-> caller]
  <2>1. r \in SwapRecord /\ r.id = swap_count
    BY <1>0, <1>1 DEF SwapRecord, SwapIds
  <2>2. /\ swaps' = [swaps EXCEPT ![swap_count] = r]
        /\ swap_count' = swap_count + 1
    BY <1>1 DEF RecordSwap
  <2> QED BY <1>1, <2>1, <2>2 DEF SwapRecorded
<1>2. CASE PoolNext /\ UNCHANGED vaultVars
  BY <1>2 DEF vaultVars
<1>3. CASE AnyCall
  <2>1. PICK caller \in Accounts : CallBy(caller)
    BY <1>3 DEF AnyCall
  <2>2. CASE \E amount \in Amounts : Deposit(caller, amount) \/ Withdraw(caller, amount)
    BY <2>2 DEF Deposit, Withdraw
  <2>3. CASE \E text, params \in Texts : LogAction(caller, text, params)
    <3>1. PICK text \in Texts, params \in Texts : LogAction(caller, text, params)
      BY <2>3
    <3> DEFINE e == [id |-> action_count, action_type |-> text, agent |-> caller]
    <3>2. e \in ActionEntry /\ e.id = action_count
      BY <1>0, <3>1 DEF LogAction, ActionEntry, ActionIds
    <3>3. /\ actions' = [actions EXCEPT ![action_count] = e]
          /\ action_count' = action_count + 1
          /\ action_count < MAX_ACTIONS
          /\ UNCHANGED swapVars
      BY <3>1 DEF LogAction
    <3> QED BY <3>2, <3>3 DEF ActionLogged
  <2>4. CASE \E token_in, token_out \in Texts, amount_in, amount_out \in Nat :
               /\ SwapAllowed(caller, token_in, token_out, amount_in, amount_out)
               /\ pool_address \in Pools
               /\ SwapForward(caller, token_in, token_out, amount_in)
    <3>1. PICK token_in \in Texts, token_out \in Texts, amount_in \in Nat,
               amount_out \in Nat :
               /\ SwapAllowed(caller, token_in, token_out, amount_in, amount_out)
               /\ pool_address \in Pools
               /\ SwapForward(caller, token_in, token_out, amount_in)
      BY <2>4
    <3>2. ForwardOut(pool_address, amount_in) \in Nat
      <4>1. cspr_reserve[pool_address] \in Nat \ {0} /\ scspr_reserve[pool_address] \in Nat
        BY <3>1, PoolConstants
           DEF VaultInv, TypeOK, PoolTypeOK, SwapForward, SwapCsprForScspr, IsLiquid, U512
      <4> QED BY <1>0, <4>1, AmountOutIsFloor DEF ForwardOut
    <3> QED BY <1>0, <1>1, <3>1, <3>2 DEF SwapForward, SwapAllowed, RecordSwap
  <2>5. CASE \E token_in, token_out \in Texts, amount_in, amount_out \in Nat :
               /\ SwapAllowed(caller, token_in, token_out, amount_in, amount_out)
               /\ pool_address \in Pools
               /\ SwapReverse(caller, token_in, token_out, amount_in)
    <3>1. PICK token_in \in Texts, token_out \in Texts, amount_in \in Nat,
               amount_out \in Nat :
               /\ SwapAllowed(caller, token_in, token_out, amount_in, amount_out)
               /\ pool_address \in Pools
               /\ SwapReverse(caller, token_in, token_out, amount_in)
      BY <2>5
    <3>2. ReverseOut(pool_address, amount_in) \in Nat
      <4>1. scspr_reserve[pool_address] \in Nat \ {0} /\ cspr_reserve[pool_address] \in Nat
        BY <3>1, PoolConstants
           DEF VaultInv, TypeOK, PoolTypeOK, SwapReverse, SwapScsprForCspr, IsLiquid, U512
      <4> QED BY <1>0, <4>1, AmountOutIsFloor DEF ReverseOut
    <3> QED BY <1>0, <1>1, <3>1, <3>2 DEF SwapReverse, SwapAllowed, RecordSwap
  <2>6. CASE \E token_in, token_out \in Texts, amount_in, amount_out \in Nat :
               ExecuteSwapAuditOnly(caller, token_in, token_out, amount_in, amount_out)
    BY <1>0, <1>1, <2>6 DEF ExecuteSwapAuditOnly, SwapAllowed, RecordSwap
  <2>7. CASE AdminNext(caller)
    BY <2>7 DEF AdminNext, SetPaused, SetAgent, SetPool, TransferOwnership
  <2> QED BY <2>1, <2>2, <2>3, <2>4, <2>5, <2>6, <2>7 DEF CallBy
<1> QED BY <1>2, <1>3 DEF AnyNext

\* Every step keeps the trails dense.
LEMMA TrailInvIsInductive ==
    ASSUME VaultInv, TrailInv, [AnyNext]_vars
    PROVE  TrailInv'
<1>0. /\ action_count \in 0..MAX_ACTIONS /\ swap_count \in 0..MAX_SWAPS
      /\ MAX_ACTIONS \in Nat /\ MAX_SWAPS \in Nat
      /\ actions \in [ActionIds -> ActionEntry \cup {None}]
      /\ swaps \in [SwapIds -> SwapRecord \cup {None}]
  BY VaultConstants DEF VaultInv, TypeOK
<1>1. /\ ActionLogged \/ UNCHANGED actionVars
      /\ SwapRecorded \/ UNCHANGED swapVars
  BY TrailStep DEF vars, vaultVars
<1>2. (\A i \in ActionIds : IF i < action_count
                            THEN actions[i] \in ActionEntry /\ actions[i].id = i
                            ELSE actions[i] = None)'
  <2>1. CASE UNCHANGED actionVars
    BY <2>1 DEF TrailInv, actionVars
  <2>2. CASE ActionLogged
    BY <1>0, <2>2 DEF TrailInv, ActionLogged, ActionIds
  <2> QED BY <1>1, <2>1, <2>2
<1>3. (\A i \in SwapIds : IF i < swap_count
                          THEN swaps[i] \in SwapRecord /\ swaps[i].id = i
                          ELSE swaps[i] = None)'
  <2>1. CASE UNCHANGED swapVars
    BY <2>1 DEF TrailInv, swapVars
  <2>2. CASE SwapRecorded
    BY <1>0, <2>2 DEF TrailInv, SwapRecorded, SwapIds
  <2> QED BY <1>1, <2>1, <2>2
<1> QED BY <1>2, <1>3 DEF TrailInv

\* Every entry of either trail stands under its own id (store_action, execute_swap).
THEOREM TrailsWellFormed == Spec => []TrailInv
<1>1. Init => TrailInv
  BY VaultConstants DEF Init, VaultInit, VaultFresh, TrailInv, ActionIds, SwapIds
<1>2. VaultInv /\ TrailInv /\ [Next]_vars => TrailInv'
  BY TrailInvIsInductive, NextIsAny
<1> QED BY <1>1, <1>2, VaultSafe, PTL DEF Spec, VaultInv

\* The trails are readable in every reachable state.
THEOREM AuditTrailReadableHolds == Spec => []AuditTrailReadable
<1>1. VaultInv /\ TrailInv => AuditTrailReadable
  BY VaultConstants
     DEF VaultInv, TypeOK, TrailInv, AuditTrailReadable, GetAction, GetSwap, GetLastAction,
         ActionIds, SwapIds
<1> QED BY <1>1, VaultSafe, TrailsWellFormed, PTL DEF VaultInv

\* Every step of the vault appends one entry to a trail or leaves it alone.
THEOREM VaultImplementsActionLog == Spec => ImplementsActionLog
<1> DEFINE log == [i \in 1..action_count |-> actions[i - 1]]
<1>1. Init => log = <<>>
  BY DEF Init, VaultInit, VaultFresh
<1>2. VaultInv /\ TrailInv /\ [Next]_vars => [ActionLog!Record]_log
  <2> SUFFICES ASSUME VaultInv, TrailInv, [Next]_vars PROVE [ActionLog!Record]_log
    OBVIOUS
  <2>0. action_count \in 0..MAX_ACTIONS /\ MAX_ACTIONS \in Nat
        /\ actions \in [ActionIds -> ActionEntry \cup {None}]
    BY VaultConstants DEF VaultInv, TypeOK
  <2>1. ActionLogged \/ UNCHANGED actionVars
    BY TrailStep, NextIsAny DEF vars, vaultVars
  <2>2. CASE UNCHANGED actionVars
    BY <2>2 DEF actionVars
  <2>3. CASE ActionLogged
    <3>1. PICK e \in ActionEntry :
            /\ action_count < MAX_ACTIONS
            /\ actions' = [actions EXCEPT ![action_count] = e]
            /\ action_count' = action_count + 1
      BY <2>3 DEF ActionLogged
    <3>2. /\ \A i \in 0..(action_count - 1) : actions[i] \in ActionEntry
                                              /\ actions'[i] = actions[i]
          /\ actions'[action_count] = e
      <4>1. action_count \in ActionIds /\ actions'[action_count] = e
        BY <2>0, <3>1 DEF ActionIds
      <4>2. ASSUME NEW i \in 0..(action_count - 1)
            PROVE  actions[i] \in ActionEntry /\ actions'[i] = actions[i]
        <5>1. i \in ActionIds /\ i < action_count /\ i # action_count
          BY <2>0 DEF ActionIds
        <5>2. actions[i] \in ActionEntry
          BY <5>1 DEF TrailInv
        <5> QED BY <2>0, <3>1, <5>1, <5>2
      <4> QED BY <4>1, <4>2
    <3>3. /\ Len(log) = action_count
          /\ Len(log') = action_count + 1
          /\ log' = Append(log, e)
          /\ log'[action_count + 1] = e
      BY <2>0, <3>1, <3>2, MappingAsSequence
    <3> HIDE DEF log
    <3>4. ActionLog!Record <=> /\ Len(log) < MAX_ACTIONS
                               /\ Len(log') = Len(log) + 1
                               /\ LET x == log'[Len(log')] IN
                                    x \in ActionEntry /\ log' = Append(log, x)
      BY DEF ActionLog!Record, log
    <3> QED BY <3>1, <3>3, <3>4
  <2> QED BY <2>1, <2>2, <2>3
<1> QED BY <1>1, <1>2, VaultSafe, TrailsWellFormed, PTL
        DEF Spec, VaultInv, ImplementsActionLog, ActionLog!LogSpec, ActionLog!LogInit

\* The swap trail is an append-only log of at most MAX_SWAPS records (execute_swap).
THEOREM VaultImplementsSwapLog == Spec => ImplementsSwapLog
<1> DEFINE log == [i \in 1..swap_count |-> swaps[i - 1]]
<1>1. Init => log = <<>>
  BY DEF Init, VaultInit, VaultFresh
<1>2. VaultInv /\ TrailInv /\ [Next]_vars => [SwapLog!Record]_log
  <2> SUFFICES ASSUME VaultInv, TrailInv, [Next]_vars PROVE [SwapLog!Record]_log
    OBVIOUS
  <2>0. swap_count \in 0..MAX_SWAPS /\ MAX_SWAPS \in Nat
        /\ swaps \in [SwapIds -> SwapRecord \cup {None}]
    BY VaultConstants DEF VaultInv, TypeOK
  <2>1. SwapRecorded \/ UNCHANGED swapVars
    BY TrailStep, NextIsAny DEF vars, vaultVars
  <2>2. CASE UNCHANGED swapVars
    BY <2>2 DEF swapVars
  <2>3. CASE SwapRecorded
    <3>1. PICK r \in SwapRecord :
            /\ swap_count < MAX_SWAPS
            /\ swaps' = [swaps EXCEPT ![swap_count] = r]
            /\ swap_count' = swap_count + 1
      BY <2>3 DEF SwapRecorded
    <3>2. /\ \A i \in 0..(swap_count - 1) : swaps[i] \in SwapRecord /\ swaps'[i] = swaps[i]
          /\ swaps'[swap_count] = r
      <4>1. swap_count \in SwapIds /\ swaps'[swap_count] = r
        BY <2>0, <3>1 DEF SwapIds
      <4>2. ASSUME NEW i \in 0..(swap_count - 1)
            PROVE  swaps[i] \in SwapRecord /\ swaps'[i] = swaps[i]
        <5>1. i \in SwapIds /\ i < swap_count /\ i # swap_count
          BY <2>0 DEF SwapIds
        <5>2. swaps[i] \in SwapRecord
          BY <5>1 DEF TrailInv
        <5> QED BY <2>0, <3>1, <5>1, <5>2
      <4> QED BY <4>1, <4>2
    <3>3. /\ Len(log) = swap_count
          /\ Len(log') = swap_count + 1
          /\ log' = Append(log, r)
          /\ log'[swap_count + 1] = r
      BY <2>0, <3>1, <3>2, MappingAsSequence
    <3> HIDE DEF log
    <3>4. SwapLog!Record <=> /\ Len(log) < MAX_SWAPS
                             /\ Len(log') = Len(log) + 1
                             /\ LET x == log'[Len(log')] IN
                                  x \in SwapRecord /\ log' = Append(log, x)
      BY DEF SwapLog!Record, log
    <3> QED BY <3>1, <3>3, <3>4
  <2> QED BY <2>1, <2>2, <2>3
<1> QED BY <1>1, <1>2, VaultSafe, TrailsWellFormed, PTL
        DEF Spec, VaultInv, ImplementsSwapLog, SwapLog!LogSpec, SwapLog!LogInit

-----------------------------------------------------------------------------
\* The purse of the vault shrinks in two ways only.
LEMMA CashStep ==
    ASSUME VaultInv, AnyNext, purse[Vault] - purse'[Vault] > 0
    PROVE  LET left == purse[Vault] - purse'[Vault] IN
           \/ \E a \in Accounts : /\ balances[a] - balances'[a] = left
                                  /\ purse'[a] - purse[a] = left
           \/ /\ pool_address \in Pools
              /\ purse'[pool_address] - purse[pool_address] = left
              /\ swap_count' = swap_count + 1
              /\ swaps'[swap_count].amount_in = left
              /\ swaps'[swap_count].agent = agent
<1>0. /\ \A c \in Accounts : c \in Addresses /\ c # Vault
      /\ Amounts \subseteq Nat /\ Vault \in Addresses \ Pools /\ Pools \subseteq Addresses
      /\ purse \in [Addresses -> Nat] /\ balances \in [Addresses -> Nat]
      /\ swaps \in [SwapIds -> SwapRecord \cup {None}]
      /\ swap_count \in 0..MAX_SWAPS /\ MAX_SWAPS \in Nat
  BY VaultConstants, PoolConstants DEF VaultInv, TypeOK, PoolTypeOK, U512
<1>1. AnyCall
  BY <1>0, StrangersKeepInv DEF AnyNext, VaultInv, TypeOK, PoolTypeOK
<1>2. PICK caller \in Accounts : CallBy(caller)
  BY <1>1 DEF AnyCall
<1>3. CASE \E amount \in Amounts : Deposit(caller, amount)
  <2>1. PICK amount \in Amounts : Deposit(caller, amount)
    BY <1>3
  <2>2. purse'[Vault] = purse[Vault] + amount /\ amount \in Nat
    BY <1>0, <2>1, TransferMoves DEF Deposit
  <2> QED BY <1>0, <2>2
<1>4. CASE \E amount \in Amounts : Withdraw(caller, amount)
  <2>1. PICK amount \in Amounts : Withdraw(caller, amount)
    BY <1>4
  <2>2. /\ purse'[Vault] = purse[Vault] - amount
        /\ purse'[caller] = purse[caller] + amount
        /\ balances' = [balances EXCEPT ![caller] = @ - amount]
    BY <1>0, <2>1, TransferMoves DEF Withdraw
  <2>3. balances'[caller] = balances[caller] - amount
    BY <1>0, <2>2
  <2>4. /\ balances[caller] - balances'[caller] = purse[Vault] - purse'[Vault]
        /\ purse'[caller] - purse[caller] = purse[Vault] - purse'[Vault]
    BY <1>0, <2>2, <2>3
  <2> QED BY <2>4
<1>5. CASE \E token_in, token_out \in Texts, amount_in, amount_out \in Nat :
             /\ SwapAllowed(caller, token_in, token_out, amount_in, amount_out)
             /\ pool_address \in Pools
             /\ SwapForward(caller, token_in, token_out, amount_in)
  <2>1. PICK token_in \in Texts, token_out \in Texts, amount_in \in Nat,
             amount_out \in Nat :
             /\ SwapAllowed(caller, token_in, token_out, amount_in, amount_out)
             /\ pool_address \in Pools
             /\ SwapForward(caller, token_in, token_out, amount_in)
    BY <1>5
  <2>2. /\ purse'[Vault] = purse[Vault] - amount_in
        /\ purse'[pool_address] = purse[pool_address] + amount_in
    <3>1. /\ amount_in \in Nat /\ pool_address \in Addresses /\ pool_address # Vault
          /\ CanPay(Vault, amount_in) /\ Transfer(Vault, pool_address, amount_in)
      BY <1>0, <2>1 DEF SwapForward, SwapCsprForScspr
    <3> QED BY <1>0, <3>1, TransferMoves
  <2>3. /\ swap_count' = swap_count + 1
        /\ swaps'[swap_count].amount_in = amount_in
        /\ swaps'[swap_count].agent = agent
    BY <1>0, <2>1 DEF SwapForward, SwapAllowed, RecordSwap, SwapIds
  <2>4. /\ purse'[pool_address] - purse[pool_address] = purse[Vault] - purse'[Vault]
        /\ amount_in = purse[Vault] - purse'[Vault]
    BY <1>0, <2>1, <2>2
  <2> QED BY <2>1, <2>3, <2>4
<1>6. CASE \E token_in, token_out \in Texts, amount_in, amount_out \in Nat :
             /\ SwapAllowed(caller, token_in, token_out, amount_in, amount_out)
             /\ pool_address \in Pools
             /\ SwapReverse(caller, token_in, token_out, amount_in)
  <2>1. PICK token_in \in Texts, token_out \in Texts, amount_in \in Nat,
             amount_out \in Nat :
             /\ SwapAllowed(caller, token_in, token_out, amount_in, amount_out)
             /\ pool_address \in Pools
             /\ SwapReverse(caller, token_in, token_out, amount_in)
    BY <1>6
  <2>2. PoolInv /\ SwapScsprForCspr(pool_address, amount_in, 0, Vault)
    BY <2>1 DEF SwapReverse, VaultInv, TypeOK, PoolInv
  <2>3. /\ ReverseOut(pool_address, amount_in) \in Nat
        /\ purse'[Vault] = purse[Vault] + ReverseOut(pool_address, amount_in)
    <3>1. /\ ReverseOut(pool_address, amount_in) \in Nat
          /\ \A a \in Addresses :
               purse'[a] = purse[a]
                 - (IF a = pool_address THEN ReverseOut(pool_address, amount_in) ELSE 0)
                 + (IF a = Vault THEN ReverseOut(pool_address, amount_in) ELSE 0)
      BY <1>0, <2>1, <2>2, ReverseKeepsPoolInv
    <3> QED BY <1>0, <2>1, <3>1
  <2> QED BY <1>0, <2>3
<1>7. CASE \/ \E text, params \in Texts : LogAction(caller, text, params)
           \/ \E token_in, token_out \in Texts, amount_in, amount_out \in Nat :
                ExecuteSwapAuditOnly(caller, token_in, token_out, amount_in, amount_out)
           \/ AdminNext(caller)
  <2>1. purse' = purse
    BY <1>7 DEF LogAction, ExecuteSwapAuditOnly, AdminNext, SetPaused, SetAgent, SetPool,
                TransferOwnership
  <2> QED BY <1>0, <2>1
<1> QED BY <1>2, <1>3, <1>4, <1>5, <1>6, <1>7 DEF CallBy

\* CSPR leaves the vault only to a depositor against a claim, or to the pool in
\* a swap on record under the agent's name.
THEOREM CashLeavesAgainstRecordHolds == Spec => CashLeavesAgainstRecord
<1>1. VaultInv /\ [Next]_vars =>
        [LET left == purse[Vault] - purse'[Vault] IN
         left > 0 =>
           \/ \E a \in Accounts : /\ balances[a] - balances'[a] = left
                                  /\ purse'[a] - purse[a] = left
           \/ /\ pool_address \in Pools
              /\ purse'[pool_address] - purse[pool_address] = left
              /\ swap_count' = swap_count + 1
              /\ swaps'[swap_count].amount_in = left
              /\ swaps'[swap_count].agent = agent]_vars
  BY CashStep, NextIsAny
<1> QED BY <1>1, VaultSafe, PTL DEF Spec, VaultInv, CashLeavesAgainstRecord

=============================================================================
