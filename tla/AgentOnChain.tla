--------------------------- MODULE AgentOnChain ---------------------------
(***************************************************************************)
(* The agent and the contracts together.  The agent reads the purse of the *)
(* vault and sends deploys; the chain executes them later, in any order,    *)
(* reverts them, or lets them expire, and nothing tells the agent which.    *)
(* Other accounts call the vault meanwhile.                                 *)
(***************************************************************************)
EXTENDS AgentLoop, VaultDeployment

CONSTANTS
    SCSPR,              \* the text "sCSPR"
    Signer              \* the account of vault_owner_secret_key

ASSUME SignerAssumption == Signer \in Accounts /\ {SCSPR} \cup Actions \subseteq Texts

chainVars == <<loopVars, vars>>

\* The agent is started on a fresh deployment, with the deployer's key.
ChainInit == DeployedInit /\ owner = Signer /\ LoopInit

\* The contract call in a deploy.  _build_log_params keeps the params within the
\* contract's limit, so any admissible text stands for them.
VaultCall(deploy) ==
    \/ /\ deploy.entry_point = "execute_swap"
       /\ LET token_in == IF deploy.action = "SWAP" THEN CSPR ELSE SCSPR
              token_out == IF deploy.action = "SWAP" THEN SCSPR ELSE CSPR
          IN ExecuteSwapInPool(Signer, token_in, token_out, deploy.amount_in, deploy.amount_out)
    \/ /\ deploy.entry_point = "log_action"
       /\ LogAction(Signer, deploy.action, deploy.action)

Settle(h, fate) ==
    /\ deploys[h].fate = "pending"
    /\ deploys' = [deploys EXCEPT ![h].fate = fate]
    /\ UNCHANGED <<pc, cached_balance, cycleVars, store>>

Execute(h) == Settle(h, "executed") /\ VaultCall(deploys[h])

\* The vault refuses the call; the deploy is in a block all the same.
Revert(h) ==
    /\ Settle(h, "reverted")
    /\ ~ENABLED VaultCall(deploys[h])
    /\ UNCHANGED vars

\* No block took the deploy within its time to live.
Expire(h) == Settle(h, "expired") /\ UNCHANGED vars

\* The agent's key is used by the agent alone for what only the agent may do.
OthersStep ==
    /\ \E caller \in Accounts : \/ DepositorNext(caller)
                                \/ AdminNext(caller)
                                \/ caller # Signer /\ AgentNext(caller)
    /\ UNCHANGED loopVars

AgentStep ==
    /\ \/ TimedStep
       \/ SubmissionStep
       \/ ReadBalance(purse[Vault])
       \/ Shutdown
       \/ ProcessRestart
    /\ UNCHANGED vars

ChainStep == \E h \in 1..Len(deploys) : Execute(h) \/ Revert(h) \/ Expire(h)

ChainNext == AgentStep \/ ChainStep \/ OthersStep

ChainSpec == ChainInit /\ [][ChainNext]_chainVars

-----------------------------------------------------------------------------
\* End to end: whatever other accounts call, and however deploys are delayed,
\* lost or reordered and the agent restarted, the vault's swap trail holds
\* exactly the agent's executed deploys, and the CSPR it shows as invested was
\* voted for by a majority of the specialists.
OnlyVotedSwapsOnTrail ==
    LET executed == {h \in SwapsAccepted : deploys[h].fate = "executed"} IN
    /\ swap_count = Cardinality(executed)
    /\ \A h \in executed : deploys[h].action = "SWAP" =>
                             2 * deploys[h].backers > Cardinality(Specialists)

-----------------------------------------------------------------------------
(* What the comments say, and the code does not do. *)

\* agent_loop.py:131, store.py:45: a SWAP_BACK sells sCSPR.  So the vault refuses
\* one only if it is paused, full, or has not that much sCSPR.
SwapBackSells ==
    [][\A h \in SwapsAccepted :
         (deploys[h].action = "SWAP_BACK" /\ deploys'[h].fate = "reverted"
                                          /\ deploys[h].fate = "pending") =>
           \/ paused
           \/ swap_count = MAX_SWAPS
           \/ deploys[h].amount_in > scspr_balance]_chainVars

\* agent_loop.py:131: a HOLD of the swarm while there is sCSPR in the vault makes
\* the agent leave the position.
HoldLeavesPosition ==
    [][(pc = "voting" /\ pc' = "logging") => scspr_balance = 0]_chainVars

=============================================================================
