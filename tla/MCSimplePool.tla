--------------------------- MODULE MCSimplePool ---------------------------
(* One pool and two accounts, one of them its owner.                        *)
EXTENDS AmmQuotes, TLC

CONSTANTS alice, bob, pool

MCAccounts == {alice, bob}
MCPools == {pool}
MCAddresses == {alice, bob, pool}
MCAmounts == {1, 4, 7}
MCMinOuts == {0, 3}
MCSymmetry == Permutations(MCAccounts)

MCPurse == [a \in MCAccounts |-> 9]

=============================================================================
