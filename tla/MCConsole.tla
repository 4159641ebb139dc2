----------------------------- MODULE MCConsole -----------------------------
(* One tab, one balance, one swap in each direction.                        *)
EXTENDS Console

MCBalances == {1}
MCQuotes == {1}
MCHashes == 1..1
MCTallies == {[SWAP |-> 2, HOLD |-> 1], [SWAP |-> 1, HOLD |-> 2]}
\* The pages tell connecting and running from each other and from the rest.
MCStatuses == {"connecting", "deciding", "running"}

=============================================================================
