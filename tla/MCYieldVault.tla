--------------------------- MODULE MCYieldVault ---------------------------
(* Two accounts, one vault, one pool.  The empty and the long text are        *)
(* refused.                                                                 *)
EXTENDS YieldVault, TLC

CONSTANTS alice, bob, vault, pool

MCAccounts == {alice, bob}
OnePool == {pool}
OnePoolAddresses == MCAccounts \cup {vault} \cup OnePool

MCTexts == {"", "CSPR", "sCSPR", "too long"}
MCPair == {"CSPR", "sCSPR"}
MCPairLen == [t \in MCPair |-> 4]
MCTextLen == [t \in MCTexts |-> CASE t = "" -> 0 [] t = "too long" -> 9 [] OTHER -> 8]

MCNobody == {}
MCDelegates == MCAccounts
MCPoolChoices == {vault, pool}
NoMinimum == {0}
MCSymmetry == Permutations(MCAccounts)

OneUnit == [a \in MCAccounts |-> 4]
NoMoney == [a \in MCAccounts |-> 0]

=============================================================================
