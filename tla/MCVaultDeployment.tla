------------------------- MODULE MCVaultDeployment -------------------------
(* Two accounts, the vault and its pool.                                    *)
EXTENDS VaultDeployment, TLC

CONSTANTS alice, bob, vault, pool

MCAccounts == {alice, bob}
MCPools == {pool}
MCAddresses == {alice, bob, vault, pool}
MCDelegates == {}
MCPair == {"CSPR", "sCSPR"}
MCTextLen == [t \in MCPair |-> 4]
MCAmounts == {1, 3, 6}
MCMinOuts == {0}
MCSymmetry == Permutations(MCAccounts)
MCPurses == [a \in MCAccounts |-> 9]

=============================================================================
