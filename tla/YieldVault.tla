---------------------------- MODULE YieldVault ----------------------------
(***************************************************************************)
(* The contract YieldVault (smart-contract/src/vault.rs), composed with the *)
(* SimplePool contracts it trades with: execute_swap calls the pool inside  *)
(* its own transaction, so the pool's action is a conjunct of the vault's.  *)
(*                                                                         *)
(* As in SimplePool an entry point is one atomic step and a call that       *)
(* reverts is no step.  Block times and events are left out; a text         *)
(* argument is a member of Texts with a length, all the contract reads.     *)
(***************************************************************************)
EXTENDS SimplePool, Sequences, Functions

CONSTANTS
    Vault,              \* the address of the vault
    None,               \* the value of an Option that is not set
    Delegates,          \* the addresses offered to set_agent and transfer_ownership
    PoolChoices,        \* the addresses offered to set_pool
    Texts,              \* the texts offered as arguments
    TextLen,            \* the length of each, what the contract reads of it
    CSPR,               \* the text "CSPR"
    MAX_ACTIONS, MAX_SWAPS, MAX_TYPE_LEN, MAX_PARAMS_LEN, MAX_TOKEN_LEN

ASSUME VaultAssumption ==
    /\ Vault \in Addresses \ (Accounts \cup Pools)
    /\ IsFiniteSet(Addresses)       \* an Address is a tagged hash of 32 bytes
    /\ None \notin Addresses
    /\ Delegates \subseteq Addresses
    /\ PoolChoices \subseteq Addresses
    /\ \A t \in Texts : TextLen[t] \in Nat
    /\ CSPR \in Texts
    /\ MAX_ACTIONS \in Nat
    /\ MAX_SWAPS \in Nat

VARIABLES
    owner, agent, paused,
    balances,           \* [Addresses -> Nat]: what each depositor may claim
    total_locked,       \* the CSPR the vault books as its own cash
    action_count, actions,
    swap_count, swaps,
    pool_address,       \* None until set_pool
    scspr_balance       \* the sCSPR position, a figure of the vault's own

fundVars == <<balances, total_locked, scspr_balance>>
roleVars == <<owner, agent, pool_address>>
actionVars == <<action_count, actions>>
swapVars == <<swap_count, swaps>>
vaultVars == <<fundVars, roleVars, paused, actionVars, swapVars>>
vars == <<vaultVars, poolVars, purse>>

ActionIds == 0..(MAX_ACTIONS - 1)
SwapIds == 0..(MAX_SWAPS - 1)

ActionEntry == [id : ActionIds, action_type : Texts, agent : Addresses]
SwapRecord == [id : SwapIds, token_in : Texts, token_out : Texts,
               amount_in : Nat, amount_out : Nat, agent : Addresses]

\* Nothing deposited, invested or recorded yet.
VaultFresh ==
    /\ paused = FALSE
    /\ balances = [a \in Addresses |-> 0]
    /\ total_locked = 0
    /\ action_count = 0
    /\ actions = [i \in ActionIds |-> None]
    /\ swap_count = 0
    /\ swaps = [i \in SwapIds |-> None]
    /\ scspr_balance = 0

VaultInit ==
    /\ owner \in Accounts
    /\ agent \in Accounts
    /\ pool_address = None
    /\ VaultFresh

Init == VaultInit /\ PoolInit /\ PurseInit

-----------------------------------------------------------------------------
\* Mutated form of Deposit: accepted by a paused vault.
DepositWhilePaused(caller, amount) ==
    /\ amount # 0
    /\ CanPay(caller, amount)
    /\ balances' = [balances EXCEPT ![caller] = @ + amount]
    /\ total_locked' = total_locked + amount
    /\ Transfer(caller, Vault, amount)
    /\ UNCHANGED <<scspr_balance, roleVars, paused, actionVars, swapVars, poolVars>>

\* Payable: the attached CSPR reaches the vault's purse with the call.
Deposit(caller, amount) ==
    /\ ~paused
    /\ amount # 0
    /\ CanPay(caller, amount)
    /\ balances[caller] + amount \in U512
    /\ total_locked + amount \in U512
    /\ balances' = [balances EXCEPT ![caller] = @ + amount]
    /\ total_locked' = total_locked + amount
    /\ Transfer(caller, Vault, amount)
    /\ UNCHANGED <<scspr_balance, roleVars, paused, actionVars, swapVars, poolVars>>

\* Mutated forms of Withdraw: the total forgotten, and the owner paid.
WithdrawUntotalled(caller, amount) ==
    /\ ~paused
    /\ amount # 0
    /\ amount <= balances[caller]
    /\ CanPay(Vault, amount)
    /\ balances' = [balances EXCEPT ![caller] = @ - amount]
    /\ Transfer(Vault, caller, amount)
    /\ UNCHANGED <<total_locked, scspr_balance, roleVars, paused, actionVars, swapVars, poolVars>>
WithdrawToOwner(caller, amount) ==
    /\ ~paused
    /\ amount # 0
    /\ amount <= balances[caller]
    /\ amount <= total_locked
    /\ balances' = [balances EXCEPT ![caller] = @ - amount]
    /\ total_locked' = total_locked - amount
    /\ Transfer(Vault, owner, amount)
    /\ UNCHANGED <<scspr_balance, roleVars, paused, actionVars, swapVars, poolVars>>

\* The booked cash limits a withdrawal as the caller's balance does: while
\* funds are in a pool the checked_sub of total_locked reverts.
Withdraw(caller, amount) ==
    /\ ~paused
    /\ amount # 0
    /\ amount <= balances[caller]
    /\ amount <= total_locked
    /\ CanPay(Vault, amount)
    /\ balances' = [balances EXCEPT ![caller] = @ - amount]
    /\ total_locked' = total_locked - amount
    /\ Transfer(Vault, caller, amount)
    /\ UNCHANGED <<scspr_balance, roleVars, paused, actionVars, swapVars, poolVars>>

\* Mutated forms of LogAction: ids from one, and the newest entry overwritten.
LogActionFromOne(caller, action_type, params) ==
    /\ ~paused
    /\ caller = agent
    /\ action_count < MAX_ACTIONS
    /\ actions' = [actions EXCEPT ![action_count] =
                     [id |-> action_count + 1, action_type |-> action_type, agent |-> caller]]
    /\ action_count' = action_count + 1
    /\ UNCHANGED <<fundVars, roleVars, paused, swapVars, poolVars, purse>>
LogActionOverNewest(caller, action_type, params) ==
    /\ ~paused
    /\ caller = agent
    /\ action_count < MAX_ACTIONS
    /\ actions' = [actions EXCEPT ![IF action_count = 0 THEN 0 ELSE action_count - 1] =
                     [id |-> action_count, action_type |-> action_type, agent |-> caller]]
    /\ action_count' = action_count + 1
    /\ UNCHANGED <<fundVars, roleVars, paused, swapVars, poolVars, purse>>

LogAction(caller, action_type, params) ==
    /\ ~paused
    /\ caller = agent
    /\ TextLen[action_type] \in 1..MAX_TYPE_LEN
    /\ TextLen[params] <= MAX_PARAMS_LEN
    /\ action_count < MAX_ACTIONS
    /\ actions' = [actions EXCEPT ![action_count] =
                     [id |-> action_count, action_type |-> action_type, agent |-> caller]]
    /\ action_count' = action_count + 1
    /\ UNCHANGED <<fundVars, roleVars, paused, swapVars, poolVars, purse>>

-----------------------------------------------------------------------------
\* Mutated forms of SwapAllowed: a swap while paused, and one past the limit.
SwapAllowedWhilePaused(caller, token_in, token_out, amount_in, amount_out) ==
    /\ caller = agent
    /\ token_in # token_out
    /\ amount_in # 0
    /\ amount_out # 0
    /\ swap_count < MAX_SWAPS
SwapAllowedOneMore(caller, token_in, token_out, amount_in, amount_out) ==
    /\ ~paused
    /\ caller = agent
    /\ token_in # token_out
    /\ amount_in # 0
    /\ amount_out # 0
    /\ swap_count <= MAX_SWAPS

\* The checks execute_swap makes before it looks at the pool.
SwapAllowed(caller, token_in, token_out, amount_in, amount_out) ==
    /\ ~paused
    /\ caller = agent
    /\ TextLen[token_in] \in 1..MAX_TOKEN_LEN
    /\ TextLen[token_out] \in 1..MAX_TOKEN_LEN
    /\ token_in # token_out
    /\ amount_in # 0
    /\ amount_out # 0
    /\ swap_count < MAX_SWAPS

\* Mutated forms of RecordSwap: the amounts exchanged, and the newest record
\* overwritten.
RecordSwapExchanged(caller, token_in, token_out, amount_in, actual_amount_out) ==
    /\ swaps' = [swaps EXCEPT ![swap_count] =
                   [id |-> swap_count, token_in |-> token_in, token_out |-> token_out,
                    amount_in |-> actual_amount_out, amount_out |-> amount_in,
                    agent |-> caller]]
    /\ swap_count' = swap_count + 1
    /\ UNCHANGED <<balances, roleVars, paused, actionVars>>
RecordSwapOverNewest(caller, token_in, token_out, amount_in, actual_amount_out) ==
    /\ swaps' = [swaps EXCEPT ![IF swap_count = 0 THEN 0 ELSE swap_count - 1] =
                   [id |-> swap_count, token_in |-> token_in, token_out |-> token_out,
                    amount_in |-> amount_in, amount_out |-> actual_amount_out,
                    agent |-> caller]]
    /\ swap_count' = swap_count + 1
    /\ UNCHANGED <<balances, roleVars, paused, actionVars>>

RecordSwap(caller, token_in, token_out, amount_in, actual_amount_out) ==
    /\ swaps' = [swaps EXCEPT ![swap_count] =
                   [id |-> swap_count, token_in |-> token_in, token_out |-> token_out,
                    amount_in |-> amount_in, amount_out |-> actual_amount_out,
                    agent |-> caller]]
    /\ swap_count' = swap_count + 1
    /\ UNCHANGED <<balances, roleVars, paused, actionVars>>

\* Mutated form of SwapForward: what left the vault is still booked as cash.
SwapForwardUntotalled(caller, token_in, token_out, amount_in) ==
    LET returned == ForwardOut(pool_address, amount_in) IN
    /\ token_in = CSPR
    /\ SwapCsprForScspr(pool_address, Vault, amount_in, 0)
    /\ scspr_balance' = scspr_balance + returned
    /\ UNCHANGED total_locked
    /\ RecordSwap(caller, token_in, token_out, amount_in, returned)

\* token_in = "CSPR": the vault's CSPR goes to the pool, at any price.
SwapForward(caller, token_in, token_out, amount_in) ==
    LET returned == ForwardOut(pool_address, amount_in) IN
    /\ token_in = CSPR
    /\ SwapCsprForScspr(pool_address, Vault, amount_in, 0)
    /\ amount_in <= total_locked
    /\ total_locked' = total_locked - amount_in
    /\ scspr_balance + returned \in U512
    /\ scspr_balance' = scspr_balance + returned
    /\ RecordSwap(caller, token_in, token_out, amount_in, returned)

\* Mutated form of SwapReverse: the cash is booked at par, not at what the pool
\* returned.
SwapReverseAtPar(caller, token_in, token_out, amount_in) ==
    LET cspr_returned == ReverseOut(pool_address, amount_in) IN
    /\ token_in # CSPR
    /\ amount_in <= scspr_balance
    /\ SwapScsprForCspr(pool_address, amount_in, 0, Vault)
    /\ scspr_balance' = scspr_balance - amount_in
    /\ total_locked' = total_locked + amount_in
    /\ RecordSwap(caller, token_in, token_out, amount_in, cspr_returned)

\* Every other token_in: the pool pays CSPR for the vault's sCSPR.
SwapReverse(caller, token_in, token_out, amount_in) ==
    LET cspr_returned == ReverseOut(pool_address, amount_in) IN
    /\ token_in # CSPR
    /\ amount_in <= scspr_balance
    /\ SwapScsprForCspr(pool_address, amount_in, 0, Vault)
    /\ scspr_balance' = scspr_balance - amount_in
    /\ total_locked + cspr_returned \in U512
    /\ total_locked' = total_locked + cspr_returned
    /\ RecordSwap(caller, token_in, token_out, amount_in, cspr_returned)

\* An address that is no pool has no such entry point: the call reverts.
ExecuteSwapInPool(caller, token_in, token_out, amount_in, amount_out) ==
    /\ SwapAllowed(caller, token_in, token_out, amount_in, amount_out)
    /\ pool_address \in Pools
    /\ \/ SwapForward(caller, token_in, token_out, amount_in)
       \/ SwapReverse(caller, token_in, token_out, amount_in)

\* No pool configured: the agent's figures are recorded, nothing moves.
ExecuteSwapAuditOnly(caller, token_in, token_out, amount_in, amount_out) ==
    /\ SwapAllowed(caller, token_in, token_out, amount_in, amount_out)
    /\ pool_address = None
    /\ RecordSwap(caller, token_in, token_out, amount_in, amount_out)
    /\ UNCHANGED <<total_locked, scspr_balance, poolVars, purse>>

-----------------------------------------------------------------------------
\* Pausing a paused vault, like unpausing an active one, does nothing.
SetPaused(caller, b) ==
    /\ caller = owner
    /\ paused' = b
    /\ UNCHANGED <<fundVars, roleVars, actionVars, swapVars, poolVars, purse>>

SetAgent(caller, new_agent) ==
    /\ caller = owner
    /\ agent' = new_agent
    /\ UNCHANGED <<fundVars, owner, pool_address, paused, actionVars, swapVars, poolVars, purse>>

SetPool(caller, pool) ==
    /\ caller = owner
    /\ pool_address' = pool
    /\ UNCHANGED <<fundVars, owner, agent, paused, actionVars, swapVars, poolVars, purse>>

TransferOwnership(caller, new_owner) ==
    /\ caller = owner
    /\ owner' = new_owner
    /\ UNCHANGED <<fundVars, agent, pool_address, paused, actionVars, swapVars, poolVars, purse>>

AdminNext(caller) ==
    \/ \E b \in BOOLEAN : SetPaused(caller, b)
    \/ \E a \in Delegates : SetAgent(caller, a) \/ TransferOwnership(caller, a)
    \/ \E p \in PoolChoices : SetPool(caller, p)

DepositorNext(caller) ==
    \E amount \in Amounts : Deposit(caller, amount) \/ Withdraw(caller, amount)

AgentNext(caller) ==
    \/ \E text, params \in Texts : LogAction(caller, text, params)
    \/ \E token_in, token_out \in Texts, amount_in, amount_out \in Amounts :
         \/ ExecuteSwapInPool(caller, token_in, token_out, amount_in, amount_out)
         \/ ExecuteSwapAuditOnly(caller, token_in, token_out, amount_in, amount_out)

VaultNext ==
    \E caller \in Accounts :
        DepositorNext(caller) \/ AgentNext(caller) \/ AdminNext(caller)

Next == \/ VaultNext
        \/ PoolNext /\ UNCHANGED vaultVars

Spec == Init /\ [][Next]_vars

-----------------------------------------------------------------------------
(* Queries. *)
GetAction(id) == IF id \in 0..(action_count - 1) THEN actions[id] ELSE None
GetLastAction == IF action_count = 0 THEN None ELSE actions[action_count - 1]
GetSwap(id) == IF id \in 0..(swap_count - 1) THEN swaps[id] ELSE None

-----------------------------------------------------------------------------
TypeOK ==
    /\ PoolTypeOK
    /\ owner \in Addresses
    /\ agent \in Addresses
    /\ paused \in BOOLEAN
    /\ balances \in [Addresses -> U512]
    /\ total_locked \in U512
    /\ action_count \in 0..MAX_ACTIONS
    /\ actions \in [ActionIds -> ActionEntry \cup {None}]
    /\ swap_count \in 0..MAX_SWAPS
    /\ swaps \in [SwapIds -> SwapRecord \cup {None}]
    /\ pool_address \in Addresses \cup {None}
    /\ scspr_balance \in U512

\* The cash the vault books is in its purse, whatever the agent traded and
\* whatever others sent: a withdrawal the books allow never fails for money.
VaultSolvent == total_locked <= purse[Vault]

\* The trails have no hole and no entry beyond their counter: what is readable
\* is exactly what was recorded, each entry under its own id, and the last
\* action read is the newest.
AuditTrailReadable ==
    /\ \A i \in ActionIds : IF i < action_count THEN GetAction(i).id = i
                                                ELSE actions[i] = None
    /\ \A i \in SwapIds : IF i < swap_count THEN GetSwap(i).id = i
                                            ELSE swaps[i] = None
    /\ action_count > 0 => GetLastAction.id = action_count - 1

\* As long as no pool was ever configured the vault is a plain deposit box:
\* its cash is the sum of the claims, so everyone can withdraw everything,
\* however many swaps the agent recorded.
WholeUntilPooled == pool_address = None => SumFunction(balances) = total_locked

\* A claim changes only against an equal payment of CSPR, in the same
\* transaction, from or to the holder of the claim: neither the agent nor the
\* owner nor another depositor can touch it.
ClaimsChangeAgainstPayment ==
    [][\A a \in Addresses :
         balances'[a] # balances[a] =>
           balances'[a] - balances[a] = purse[a] - purse'[a]]_vars

\* CSPR leaves the vault in two ways only: to a depositor against their claim,
\* or to the configured pool in a swap on record under the agent's name for
\* exactly that amount.
CashLeavesAgainstRecord ==
    [][LET left == purse[Vault] - purse'[Vault] IN
       left > 0 =>
         \/ \E a \in Accounts : /\ balances[a] - balances'[a] = left
                                /\ purse'[a] - purse[a] = left
         \/ /\ pool_address \in Pools
            /\ purse'[pool_address] - purse[pool_address] = left
            /\ swap_count' = swap_count + 1
            /\ swaps'[swap_count].amount_in = left
            /\ swaps'[swap_count].agent = agent]_vars

\* While the vault is paused nothing it keeps moves: no claim, no cash, no
\* position and no record, and its purse loses nothing.
PausedMeansFrozen ==
    [][paused => /\ UNCHANGED <<fundVars, actionVars, swapVars>>
                 /\ purse'[Vault] >= purse[Vault]]_vars

-----------------------------------------------------------------------------
(* The promises the vault implements. *)
Ledger == INSTANCE FundLedger
            WITH Holders <- Addresses, MaxCash <- MaxU512,
                 claims <- balances, cash <- total_locked, frozen <- paused

\* Seen as claims and cash, the vault keeps the promises of FundLedger.
ImplementsFundLedger == Ledger!LedgerSpec

ActionLog == INSTANCE AuditLog
               WITH Entries <- ActionEntry, Limit <- MAX_ACTIONS,
                    log <- [i \in 1..action_count |-> actions[i - 1]]

SwapLog == INSTANCE AuditLog
             WITH Entries <- SwapRecord, Limit <- MAX_SWAPS,
                  log <- [i \in 1..swap_count |-> swaps[i - 1]]

\* The action trail and the swap trail are append-only and bounded.
ImplementsActionLog == ActionLog!LogSpec
ImplementsSwapLog == SwapLog!LogSpec

=============================================================================
