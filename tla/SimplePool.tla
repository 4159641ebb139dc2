---------------------------- MODULE SimplePool ----------------------------
(***************************************************************************)
(* The AMM contract SimplePool (smart-contract/src/pool.rs), for every      *)
(* pool deployed, and the Casper purses it is paid from and pays into.      *)
(*                                                                         *)
(* An entry point is one atomic action: the Casper VM runs it to the end    *)
(* or reverts every effect of it, so a call that reverts is a step that     *)
(* does not happen.  The purse of an address is the external ledger.        *)
(***************************************************************************)
EXTENDS AmmMath, Integers, FiniteSets

CONSTANTS
    Accounts,           \* the accounts that sign transactions
    Pools,              \* the SimplePool contracts deployed
    Addresses,          \* every holder of a purse: accounts and contracts
    Amounts,            \* amounts offered as arguments or attached
    MinOuts,            \* the values of the argument min_amount_out
    InitialReserve,     \* initial_scspr_reserve of a deployment
    InitialPurse,       \* [Accounts -> Nat]: what everyone holds at the start
    MaxU512             \* the largest U512, where checked arithmetic reverts

ASSUME PoolAssumption ==
    /\ Accounts \subseteq Addresses
    /\ Pools \subseteq Addresses
    /\ Accounts \cap Pools = {}
    /\ Amounts \subseteq Nat
    /\ MinOuts \subseteq Nat
    /\ MaxU512 \in Nat
    /\ InitialReserve \in 0..MaxU512
    /\ InitialPurse \in [Accounts -> Nat]

VARIABLES
    pool_owner,         \* [Pools -> Accounts]
    cspr_reserve,       \* [Pools -> Nat]: real CSPR, as the contract books it
    scspr_reserve,      \* [Pools -> Nat]: virtual sCSPR
    purse               \* [Addresses -> Nat]: the CSPR every address holds

poolVars == <<pool_owner, cspr_reserve, scspr_reserve>>

U512 == 0..MaxU512

\* Native transfer of the host; it reverts when the payer is short of funds.
CanPay(from, amount) == amount <= purse[from]
Transfer(from, to, amount) ==
    purse' = [purse EXCEPT ![from] = @ - amount, ![to] = @ + amount]

(***************************************************************************)
(* A deployment: the deployer owns the pool, whose CSPR side is empty.      *)
(***************************************************************************)
PoolInit ==
    /\ pool_owner \in [Pools -> Accounts]
    /\ cspr_reserve = [p \in Pools |-> 0]
    /\ scspr_reserve = [p \in Pools |-> InitialReserve]

PurseInit == purse = [a \in Addresses |-> IF a \in Accounts THEN InitialPurse[a] ELSE 0]

\* The owner adds CSPR to the pool's CSPR side.
SeedCspr(p, caller, amount) ==
    /\ caller = pool_owner[p]
    /\ amount # 0
    /\ CanPay(caller, amount)
    /\ cspr_reserve[p] + amount \in U512
    /\ cspr_reserve' = [cspr_reserve EXCEPT ![p] = @ + amount]
    /\ Transfer(caller, p, amount)
    /\ UNCHANGED <<pool_owner, scspr_reserve>>

\* No checked operation of the quote overflows.
QuoteFits(amount_in, reserve_in, reserve_out) ==
    /\ amount_in * FeeNum \in U512
    /\ reserve_out * AmountInWithFee(amount_in) \in U512
    /\ reserve_in + AmountInWithFee(amount_in) \in U512

\* Both sides of the pool hold something.
IsLiquid(p) == cspr_reserve[p] # 0 /\ scspr_reserve[p] # 0

ForwardOut(p, amount_in) == AmountOut(amount_in, cspr_reserve[p], scspr_reserve[p])
ReverseOut(p, amount_in) == AmountOut(amount_in, scspr_reserve[p], cspr_reserve[p])

\* CSPR attached by the caller buys sCSPR; nothing of it leaves the books:
\* the recipient is only named in the event.
SwapCsprForScspr(p, caller, amount_in, min_amount_out) ==
    LET out == ForwardOut(p, amount_in) IN
    /\ amount_in # 0
    /\ CanPay(caller, amount_in)
    /\ IsLiquid(p)
    /\ QuoteFits(amount_in, cspr_reserve[p], scspr_reserve[p])
    /\ out >= min_amount_out
    /\ out <= scspr_reserve[p]
    /\ cspr_reserve[p] + amount_in \in U512
    /\ cspr_reserve' = [cspr_reserve EXCEPT ![p] = @ + amount_in]
    /\ scspr_reserve' = [scspr_reserve EXCEPT ![p] = @ - out]
    /\ Transfer(caller, p, amount_in)
    /\ UNCHANGED pool_owner

\* Mutated forms of SwapScsprForCspr: the sum of the sCSPR side unchecked, and
\* the CSPR side not reduced by what is paid.
SwapScsprForCsprUnchecked(p, amount_in, min_amount_out, recipient) ==
    LET out == ReverseOut(p, amount_in) IN
    /\ amount_in # 0
    /\ IsLiquid(p)
    /\ QuoteFits(amount_in, scspr_reserve[p], cspr_reserve[p])
    /\ out >= min_amount_out
    /\ cspr_reserve' = [cspr_reserve EXCEPT ![p] = @ - out]
    /\ scspr_reserve' = [scspr_reserve EXCEPT ![p] = @ + amount_in]
    /\ Transfer(p, recipient, out)
    /\ UNCHANGED pool_owner
SwapScsprForCsprUnbooked(p, amount_in, min_amount_out, recipient) ==
    LET out == ReverseOut(p, amount_in) IN
    /\ amount_in # 0
    /\ IsLiquid(p)
    /\ QuoteFits(amount_in, scspr_reserve[p], cspr_reserve[p])
    /\ scspr_reserve[p] + amount_in \in U512
    /\ CanPay(p, out)
    /\ scspr_reserve' = [scspr_reserve EXCEPT ![p] = @ + amount_in]
    /\ Transfer(p, recipient, out)
    /\ UNCHANGED <<pool_owner, cspr_reserve>>

\* sCSPR named by the caller buys CSPR, paid from the pool's purse.
SwapScsprForCspr(p, amount_in, min_amount_out, recipient) ==
    LET out == ReverseOut(p, amount_in) IN
    /\ amount_in # 0
    /\ IsLiquid(p)
    /\ QuoteFits(amount_in, scspr_reserve[p], cspr_reserve[p])
    /\ out >= min_amount_out
    /\ out <= cspr_reserve[p]
    /\ scspr_reserve[p] + amount_in \in U512
    /\ CanPay(p, out)
    /\ cspr_reserve' = [cspr_reserve EXCEPT ![p] = @ - out]
    /\ scspr_reserve' = [scspr_reserve EXCEPT ![p] = @ + amount_in]
    /\ Transfer(p, recipient, out)
    /\ UNCHANGED pool_owner

\* A transaction an account sends to a pool.
PoolNext ==
    \E p \in Pools, caller \in Accounts, amount \in Amounts :
        \/ SeedCspr(p, caller, amount)
        \/ \E min \in MinOuts : SwapCsprForScspr(p, caller, amount, min)
        \/ \E min \in MinOuts, recipient \in Addresses :
               SwapScsprForCspr(p, amount, min, recipient)

PoolsInit == PoolInit /\ PurseInit

PoolSpec == PoolsInit /\ [][PoolNext]_<<poolVars, purse>>

-----------------------------------------------------------------------------
PoolTypeOK ==
    /\ pool_owner \in [Pools -> Accounts]
    /\ cspr_reserve \in [Pools -> U512]
    /\ scspr_reserve \in [Pools -> U512]
    /\ purse \in [Addresses -> Nat]

\* The CSPR a pool books is really in its purse, whoever traded with it and
\* whomever it paid: a reverse swap can always be settled.
ReserveBacked == \A p \in Pools : cspr_reserve[p] <= purse[p]

\* Trading never lowers x*y: floors and fees always fall to the pool's side.
\* This is what keeps a pool from being drained by a sequence of swaps.
ProductNeverDrops ==
    [][\A p \in Pools :
         cspr_reserve[p] * scspr_reserve[p] <= cspr_reserve'[p] * scspr_reserve'[p]
      ]_<<poolVars, purse>>

\* A pool that could trade can trade for ever: no swap empties a side, which
\* would make every later swap fail with InsufficientLiquidity.
LiquidityIsForever ==
    [][\A p \in Pools : IsLiquid(p) => IsLiquid(p)']_<<poolVars, purse>>

=============================================================================
