--------------------------- MODULE MCAgentOnChain ---------------------------
(* The deployer whose key the agent signs with, a depositor, the vault and    *)
(* its pool.  The actions are texts too: log_action sends them.               *)
EXTENDS AgentOnChain, TLC

CONSTANTS deployer, depositor, vault, pool

MCAccounts == {deployer, depositor}
MCPools == {pool}
MCAddresses == {deployer, depositor, vault, pool}
MCNobody == {}
MCTexts == {"CSPR", "sCSPR", "SWAP", "SWAP_BACK", "HOLD"}
MCTextLen == [t \in MCTexts |-> 4]
MCAmounts == {4}
MCMinOuts == {0}
MCQuotes == {2}
MCPurses == [a \in MCAccounts |-> IF a = depositor THEN 4 ELSE 0]

=============================================================================
