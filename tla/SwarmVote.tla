----------------------------- MODULE SwarmVote -----------------------------
(***************************************************************************)
(* How the swarm turns the answers of its specialists into a decision       *)
(* (agent/src/llm/swarm.py).  An answer is the action voted for, or Failed: *)
(* the call raised, or what it returned is no vote.  SWAP_BACK is an answer *)
(* too: the prompt does not offer it, the Action enum accepts it.           *)
(***************************************************************************)
EXTENDS Naturals, FiniteSets

CONSTANTS
    Specialists,        \* risk_agent, yield_agent, liquidity_agent
    VoteThreshold,      \* swarm_vote_threshold
    MotesPerCspr        \* 10^9

ASSUME SwarmAssumption ==
    /\ IsFiniteSet(Specialists)
    /\ VoteThreshold \in Nat \ {0} /\ MotesPerCspr \in Nat \ {0}

Actions == {"SWAP", "SWAP_BACK", "HOLD"}
Failed == "failed"
Answers == [Specialists -> Actions \cup {Failed}]

VotersFor(answers, action) == {s \in Specialists : answers[s] = action}
Tally(answers) == [SWAP |-> Cardinality(VotersFor(answers, "SWAP")),
                   HOLD |-> Cardinality(VotersFor(answers, "HOLD"))]

\* The tally has a place for SWAP and for HOLD only.
TallyRaises(answers) == VotersFor(answers, "SWAP_BACK") # {}

\* Mutated form of SwapWins: the majority of those who answered.
SwapWinsAmongAnswered(tally) == tally.SWAP > tally.HOLD

\* Without a vote the threshold is not looked at.
SwapWins(tally) == tally.SWAP + tally.HOLD > 0 /\ tally.SWAP >= VoteThreshold

\* max(1.0, balance * 0.5), in motes.
SwapAmount(balance) ==
    IF balance \div 2 > MotesPerCspr THEN balance \div 2 ELSE MotesPerCspr

=============================================================================
