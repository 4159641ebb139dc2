-------------------------- MODULE VaultDeployment --------------------------
(***************************************************************************)
(* The contracts as deploy_esteban.mjs leaves them: one deployer owns the   *)
(* pool and the vault and is the vault's agent, the pool is seeded and set  *)
(* in the vault, and nothing is deposited yet.                              *)
(***************************************************************************)
EXTENDS YieldVault, FiniteSetsExt

CONSTANTS
    DeployedPool,       \* the pool of the deployment
    SeedAmount          \* SEED_CSPR_MOTES

ASSUME DeploymentAssumption ==
    /\ DeployedPool \in Pools
    /\ SeedAmount \in U512

\* The deployer paid the seed from funds outside InitialPurse.
DeployedInit ==
    /\ owner \in Accounts
    /\ agent = owner
    /\ pool_address = DeployedPool
    /\ VaultFresh
    /\ pool_owner = [p \in Pools |-> owner]
    /\ cspr_reserve = [p \in Pools |-> IF p = DeployedPool THEN SeedAmount ELSE 0]
    /\ scspr_reserve = [p \in Pools |-> InitialReserve]
    /\ purse = [a \in Addresses |-> CASE a \in Accounts -> InitialPurse[a]
                                      [] a = DeployedPool -> SeedAmount
                                      [] OTHER -> 0]

\* Nobody but the vault trades with the pool, and its owner leaves it alone.
PrivateSpec == DeployedInit /\ [][VaultNext]_vars

-----------------------------------------------------------------------------
Claims == SumFunction(balances)

\* The CSPR that depositors may claim and the vault does not hold is, to the
\* mote, what the pool holds beyond its seed; and the sCSPR the vault books is
\* what the pool has parted with.  So the two contracts' books, which nothing
\* compares on chain, describe the same position.
BooksAgree ==
    /\ Claims - total_locked = cspr_reserve[DeployedPool] - SeedAmount
    /\ scspr_balance = InitialReserve - scspr_reserve[DeployedPool]

\* However the agent trades, going in and out of the pool cannot lift the
\* vault's cash above what it owes: without other traders there is no yield,
\* every round trip is paid for by the depositors.
NoYieldFromOwnTrades == total_locked <= Claims

\* The swap trail explains the position: the sCSPR booked is what the CSPR
\* swaps on record bought less what the other swaps on record sold.
SwapTrailExplainsPosition ==
    LET Bought == {i \in 0..(swap_count - 1) : swaps[i].token_in = CSPR}
        Sold == (0..(swap_count - 1)) \ Bought
    IN scspr_balance = MapThenSumSet(LAMBDA i : swaps[i].amount_out, Bought)
                         - MapThenSumSet(LAMBDA i : swaps[i].amount_in, Sold)

\* What a forward swap records as bought is at most what the agent's own
\* formula would have quoted on the same reserves (trade_client.py): the
\* recorded amount_out never flatters the trade.
RecordNeverBeatsQuote ==
    [][(swap_count' > swap_count /\ swaps'[swap_count].token_in = CSPR) =>
         swaps'[swap_count].amount_out <=
           AmmQuote(swaps'[swap_count].amount_in,
                    cspr_reserve[DeployedPool], scspr_reserve[DeployedPool])]_vars

=============================================================================
