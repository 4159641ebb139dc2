----------------------------- MODULE AgentFeed -----------------------------
(***************************************************************************)
(* What the agent promises to those who read GET /status: a state that is   *)
(* observed, decided upon and recorded in that order, and a history whose   *)
(* swaps were all accepted by a node.  How the agent gets there (votes,     *)
(* quotes, retries, crashes) is AgentLoop's business; what is shown of it   *)
(* is Console's.                                                            *)
(***************************************************************************)
EXTENDS Naturals, Sequences

CONSTANTS
    Balances,           \* the balances an observation may find, in motes
    Quotes,             \* the amounts a swap may have been quoted
    HISTORY_LIMIT,      \* decisions kept in the history
    Hashes,             \* the hashes deploys may have
    Tallies,            \* what the specialists may have voted
    VoteThreshold       \* votes that make a SWAP

ASSUME FeedAssumption ==
    /\ Balances \subseteq Nat /\ Quotes \subseteq Nat /\ Hashes \subseteq Nat \ {0}
    /\ Tallies \subseteq [SWAP : Nat, HOLD : Nat] /\ VoteThreshold \in Nat \ {0}
    /\ HISTORY_LIMIT \in Nat \ {0}

VARIABLES
    feed,               \* the AgentState that GET /status returns
    accepted            \* the swap deploys a node accepted, by hash and action

NoHash == 0
NoReading == 0
NoVotes == [SWAP |-> 0, HOLD |-> 0]

Actions == {"SWAP", "SWAP_BACK", "HOLD"}
Swaps == Actions \ {"HOLD"}
\* Of the list of errors, whether there are any.
Errors == {"none", "some"}
\* The states a cycle that has observed goes through, and the others.
Deciding == {"deciding", "executing"}
Waiting == {"idle", "connecting", "waiting_mcp", "observing", "running", "stopped"}

FreshFeed == [status |-> "connecting", errors |-> "none",
              balance |-> 0, observed |-> NoReading, position |-> 0,
              actions_taken |-> 0, last_tx_hash |-> NoHash, history |-> <<>>,
              swarm |-> NoVotes]

FeedInit == feed = FreshFeed /\ accepted = {}

-----------------------------------------------------------------------------
\* A node accepts a swap; its hash is its own.
Accepted(hash, action) ==
    /\ \A d \in accepted : d.hash # hash
    /\ accepted' = accepted \cup {[hash |-> hash, action |-> action]}

\* A new status, maybe with an error reported.
Moved(status, errors) ==
    /\ status = "executing" => feed.status \in Deciding
    /\ feed.errors = "some" => errors = "some"
    /\ feed' = [feed EXCEPT !.status = status, !.errors = errors]

\* The vault is read, and a decision is due.
Observed(balance) ==
    feed' = [feed EXCEPT !.status = "deciding", !.balance = balance, !.observed = balance]

\* A decision that was carried out is recorded, a swap with the hash of the
\* newest deploy, which was accepted for it, a HOLD with none.  What was voted is
\* recorded too: enough for a SWAP or not.  The cycle is over.
Booked(action, hash, balance, position, votes) ==
    /\ feed.status \in Deciding
    /\ (action = "SWAP") <=> (votes.SWAP >= VoteThreshold)
    /\ action \in Swaps => /\ [hash |-> hash, action |-> action] \in accepted
                           /\ hash > feed.last_tx_hash
    /\ action = "SWAP" => balance <= feed.balance /\ position - feed.position \in Quotes
    /\ action = "SWAP_BACK" => balance = feed.balance /\ position <= feed.position
    /\ action = "HOLD" => hash = NoHash /\ balance = feed.balance /\ position = feed.position
    /\ feed' = [feed EXCEPT
         !.status = "running", !.balance = balance, !.position = position,
         !.actions_taken = IF action \in Swaps THEN @ + 1 ELSE @,
         !.last_tx_hash = IF action \in Swaps THEN hash ELSE @,
         !.history = LET h == Append(@, [action |-> action, deploy_hash |-> hash]) IN
                     IF Len(h) <= HISTORY_LIMIT THEN h ELSE Tail(h),
         !.swarm = votes]

\* The process is gone and another one starts: nothing is kept.
Restarted == feed' = FreshFeed

FeedChange ==
    \/ \E s \in Waiting \cup {"executing"}, e \in Errors : Moved(s, e)
    \/ \E b \in Balances : Observed(b)
    \/ \E a \in Actions, v \in Tallies, h \in Hashes \cup {NoHash},
          b \in 0..feed.balance, p \in 0..feed.position \cup {feed.position + q : q \in Quotes} :
          Booked(a, h, b, p, v)
    \/ Restarted

DeployChange == \E h \in Hashes, a \in Swaps : Accepted(h, a)

\* Both may change at once: a submission that was accepted and whose answer was
\* lost is accepted and an error.
FeedNext ==
    \/ FeedChange /\ UNCHANGED accepted
    \/ DeployChange /\ UNCHANGED feed
    \/ FeedChange /\ DeployChange

FeedSpec == FeedInit /\ [][FeedNext]_<<feed, accepted>>

=============================================================================
