---------------------------- MODULE MCAgentLoop ----------------------------
(***************************************************************************)
(* The loop by itself, with balances and quotes from small sets.            *)
(***************************************************************************)
EXTENDS AgentLoop

MCBalances == {0, 6}
MCQuotes == {0, 2}

=============================================================================
