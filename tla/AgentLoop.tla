----------------------------- MODULE AgentLoop -----------------------------
(***************************************************************************)
(* The loop of the agent (agent/src/agent_loop.py) with its supervisor      *)
(* (agent/main.py), the store it publishes its state in                     *)
(* (agent/src/state/store.py) and the deploys it sends (chain/executor.py). *)
(*                                                                         *)
(* The loop is one asyncio task: it gives up control at an await of the     *)
(* network or of a timer only, so pc names the call the task waits for and  *)
(* an action is all it does from there to the next one.  Only the task      *)
(* writes the store; the API reads it between two actions.                  *)
(* A submission is different: pycspr makes it with a blocking call and no   *)
(* time limit, so the task cannot be cancelled while it lasts.              *)
(*                                                                         *)
(* The reconnection of agent_loop.py:191-197 is left out: nothing a cycle   *)
(* calls raises MCPConnectionError, the balance is read over plain RPC.     *)
(***************************************************************************)
EXTENDS SwarmVote, Sequences

CONSTANTS
    Unread,             \* _cached_balance before the first successful read
    Balances,           \* the balances an RPC node may report, in motes
    Quotes,             \* the amount_out that api.cspr.trade may imply
    HISTORY_LIMIT,      \* decisions kept, 10 in the code
    ERROR_LIMIT,        \* errors kept, 20 in the code
    MaxDeploys          \* bound: deploys the nodes accept in a behaviour

ASSUME LoopAssumption ==
    /\ Balances \subseteq Nat /\ Quotes \subseteq Nat
    /\ HISTORY_LIMIT \in Nat \ {0} /\ ERROR_LIMIT \in Nat /\ MaxDeploys \in Nat

VARIABLES
    pc,
    cached_balance,     \* CasperMCPClient._cached_balance
    market_balance,     \* market.balance_cspr of this cycle
    votes,              \* the tally of this cycle's votes
    decision,           \* the decision of this cycle
    deploy_hash,        \* what execute_swap returned in this cycle, NoHash before
    store,              \* the published AgentState
    deploys             \* every deploy a node ever accepted; its hash is its place

cycleVars == <<market_balance, votes, decision, deploy_hash>>
loopVars == <<pc, cached_balance, cycleVars, store, deploys>>

Connecting == {"connecting", "retrying", "crashed"}
Observing == {"balance", "market"}
Submitting == {"swapping", "logging"}
InLoop == Observing \cup {"voting", "quoting", "sleeping"} \cup Submitting

NoHash == 0
NoReading == 0
NoVotes == [SWAP |-> 0, HOLD |-> 0]
NoDecision == [action |-> "HOLD", amount |-> 0, amount_out |-> 0]

\* last_market_data stands for its balance_cspr, NoReading before the first.
FreshStore == [status |-> "idle", balance_cspr |-> 0, scspr_balance_cspr |-> 0,
               last_market_data |-> NoReading,
               actions_taken |-> 0, last_tx_hash |-> NoHash, errors |-> 0,
               decision_history |-> <<>>, last_swarm_result |-> NoVotes]

\* What the task does from the start of agent_loop to the first connect.
Starting(state) == [state EXCEPT !.status = "connecting"]

LoopInit ==
    /\ pc = "connecting"
    /\ cached_balance = Unread
    /\ market_balance = 0
    /\ votes = NoVotes
    /\ decision = NoDecision
    /\ deploy_hash = NoHash
    /\ store = Starting(FreshStore)
    /\ deploys = <<>>

-----------------------------------------------------------------------------
WithError(state) ==
    [state EXCEPT !.errors = IF @ < ERROR_LIMIT THEN @ + 1 ELSE @]

BeginCycle ==
    /\ pc' = "balance"
    /\ store' = [store EXCEPT !.status = "observing"]
    /\ UNCHANGED cycleVars

\* Mutated form of EndCycle: the hash is kept for the next cycle.
EndCycleKeepingHash(state) ==
    /\ pc' = "sleeping"
    /\ store' = [state EXCEPT !.status = "running"]
    /\ market_balance' = 0
    /\ votes' = NoVotes
    /\ decision' = NoDecision
    /\ UNCHANGED deploy_hash

\* However a cycle ends, its locals are gone, the finally clause is run and the
\* loop sleeps.
EndCycle(state) ==
    /\ pc' = "sleeping"
    /\ store' = [state EXCEPT !.status = "running"]
    /\ market_balance' = 0
    /\ votes' = NoVotes
    /\ decision' = NoDecision
    /\ deploy_hash' = NoHash

FailCycle == EndCycle(WithError(store))

Connect ==
    /\ pc = "connecting"
    /\ BeginCycle
    /\ UNCHANGED <<cached_balance, deploys>>

ConnectRefused ==
    /\ pc = "connecting"
    /\ pc' = "retrying"
    /\ store' = WithError([store EXCEPT !.status = "waiting_mcp"])
    /\ UNCHANGED <<cached_balance, cycleVars, deploys>>

\* Closing the half-open session raises: not the error the retry catches.
ConnectBreaks ==
    /\ pc = "connecting"
    /\ pc' = "crashed"
    /\ UNCHANGED <<cached_balance, cycleVars, store, deploys>>

\* Mutated form of Retry: given up once the list of errors is full.
RetryUnlessTroubled ==
    /\ pc = "retrying"
    /\ store.errors < ERROR_LIMIT
    /\ pc' = "connecting"
    /\ UNCHANGED <<cached_balance, cycleVars, store, deploys>>

Retry ==
    /\ pc = "retrying"
    /\ pc' = "connecting"
    /\ UNCHANGED <<cached_balance, cycleVars, store, deploys>>

\* The supervisor starts the loop again, with clients of its own.
SupervisorRestart ==
    /\ pc = "crashed"
    /\ pc' = "connecting"
    /\ cached_balance' = Unread
    /\ store' = Starting(store)
    /\ UNCHANGED <<cycleVars, deploys>>

\* get_vault_total_locked returns balance; cached is what it keeps for later.
BalanceRead(balance, cached) ==
    /\ pc = "balance"
    /\ pc' = "market"
    /\ market_balance' = balance
    /\ cached_balance' = cached
    /\ UNCHANGED <<votes, decision, deploy_hash, store, deploys>>

ReadBalance(balance) == BalanceRead(balance, balance)

\* A node that answers without the named key: its zero is final, neither the
\* other node nor the cached balance is asked.
ReadNoPurse == BalanceRead(0, cached_balance)

\* Every node failed.
ReadCached == BalanceRead(IF cached_balance = Unread THEN 0 ELSE cached_balance,
                          cached_balance)

\* The APY and the two quotes.
MarketFails ==
    /\ pc = "market"
    /\ FailCycle
    /\ UNCHANGED <<cached_balance, deploys>>

SkipCycle ==
    /\ pc = "market"
    /\ market_balance = 0
    /\ FailCycle
    /\ UNCHANGED <<cached_balance, deploys>>

MarketRead ==
    /\ pc = "market"
    /\ market_balance # 0
    /\ pc' = "voting"
    /\ store' = [store EXCEPT !.balance_cspr = market_balance, !.status = "deciding",
                             !.last_market_data = market_balance]
    /\ UNCHANGED <<cached_balance, cycleVars, deploys>>

VoteRaises(answers) ==
    /\ pc = "voting"
    /\ TallyRaises(answers)
    /\ FailCycle
    /\ UNCHANGED <<cached_balance, deploys>>

VoteSwap(answers) ==
    /\ pc = "voting"
    /\ ~TallyRaises(answers)
    /\ SwapWins(Tally(answers))
    /\ pc' = "quoting"
    /\ votes' = Tally(answers)
    /\ decision' = [action |-> "SWAP", amount |-> SwapAmount(market_balance), amount_out |-> 0]
    /\ UNCHANGED <<cached_balance, market_balance, deploy_hash, store, deploys>>

\* HOLD with a position in the store: sell all of it.  The decision names no
\* amount_out, which execute_swap sends as zero.
VoteHold(answers) ==
    LET scspr_held == store.scspr_balance_cspr IN
    /\ pc = "voting"
    /\ ~TallyRaises(answers)
    /\ ~SwapWins(Tally(answers))
    /\ votes' = Tally(answers)
    /\ IF scspr_held > 0
         THEN /\ decision' = [action |-> "SWAP_BACK", amount |-> scspr_held, amount_out |-> 0]
              /\ pc' = "swapping"
              /\ store' = [store EXCEPT !.status = "executing"]
         ELSE /\ decision' = NoDecision
              /\ pc' = "logging"
              /\ UNCHANGED store
    /\ UNCHANGED <<cached_balance, market_balance, deploy_hash, deploys>>

QuoteFails ==
    /\ pc = "quoting"
    /\ FailCycle
    /\ UNCHANGED <<cached_balance, deploys>>

QuoteRead(amount_out) ==
    /\ pc = "quoting"
    /\ pc' = "swapping"
    /\ decision' = [decision EXCEPT !.amount_out = amount_out]
    /\ store' = [store EXCEPT !.status = "executing"]
    /\ UNCHANGED <<cached_balance, market_balance, votes, deploy_hash, deploys>>

-----------------------------------------------------------------------------
(* Deploys.  A node that accepts one has not executed it: its fate is open. *)

SwapDeploy == [entry_point |-> "execute_swap", action |-> decision.action,
               amount_in |-> decision.amount, amount_out |-> decision.amount_out,
               backers |-> votes.SWAP, fate |-> "pending"]
LogDeploy == [entry_point |-> "log_action", action |-> decision.action,
              amount_in |-> 0, amount_out |-> 0, backers |-> votes.SWAP, fate |-> "pending"]

Accept(deploy) ==
    /\ Len(deploys) < MaxDeploys
    /\ deploys' = Append(deploys, deploy)

SubmitSwap ==
    /\ pc = "swapping"
    /\ Accept(SwapDeploy)
    /\ deploy_hash' = Len(deploys')
    /\ pc' = "logging"
    /\ UNCHANGED <<cached_balance, market_balance, votes, decision, store>>

\* The call raises: the node refused the deploy, or accepted it and the answer
\* never came.
SubmitRaises ==
    /\ pc = "swapping"
    /\ Accept(SwapDeploy) \/ UNCHANGED deploys
    /\ FailCycle
    /\ UNCHANGED cached_balance

\* Mutated form of Moved: every decision taken for a swap.
MovedAlways == TRUE

\* A hash stands for a swap made: nothing asks the chain what became of it.
Moved == deploy_hash # NoHash

\* Mutated form of Latest: nothing is dropped.
LatestUntrimmed(s, limit) == s

Latest(s, limit) == IF Len(s) <= limit THEN s ELSE SubSeq(s, Len(s) - limit + 1, Len(s))

Less(a, b) == IF a > b THEN a - b ELSE 0

\* The store after record_decision.
Recorded ==
    [store EXCEPT
       !.last_tx_hash = IF Moved THEN deploy_hash ELSE @,
       !.actions_taken = IF Moved THEN @ + 1 ELSE @,
       !.balance_cspr = IF Moved /\ decision.action = "SWAP"
                          THEN Less(@, decision.amount) ELSE @,
       !.scspr_balance_cspr = CASE ~Moved -> @
                                [] Moved /\ decision.action = "SWAP" -> @ + decision.amount_out
                                [] OTHER -> Less(@, decision.amount),
       !.decision_history = Latest(Append(@, [action |-> decision.action,
                                              deploy_hash |-> deploy_hash]), HISTORY_LIMIT),
       !.last_swarm_result = votes]

\* log_action, whose failure is swallowed, then the decision is recorded.
LogAndRecord ==
    /\ pc = "logging"
    /\ Accept(LogDeploy) \/ UNCHANGED deploys
    /\ EndCycle(Recorded)
    /\ UNCHANGED cached_balance

NextCycle ==
    /\ pc = "sleeping"
    /\ BeginCycle
    /\ UNCHANGED <<cached_balance, deploys>>

\* Ctrl+C or SIGTERM.  The clean-up of agent_loop starts after the connection.
Shutdown ==
    /\ pc \notin Submitting \cup {"ended"}
    /\ pc' = "ended"
    /\ store' = IF pc \in InLoop THEN [store EXCEPT !.status = "stopped"] ELSE store
    /\ UNCHANGED <<cached_balance, cycleVars, deploys>>

\* The process is killed and started again: nothing of the agent persists.
ProcessRestart ==
    /\ pc' = "connecting"
    /\ cached_balance' = Unread
    /\ market_balance' = 0
    /\ votes' = NoVotes
    /\ decision' = NoDecision
    /\ deploy_hash' = NoHash
    /\ store' = Starting(FreshStore)
    /\ UNCHANGED deploys

-----------------------------------------------------------------------------
\* The steps behind a timer or a call with a time limit.
TimedStep ==
    \/ Connect \/ ConnectRefused \/ ConnectBreaks \/ Retry \/ SupervisorRestart
    \/ ReadNoPurse \/ ReadCached
    \/ MarketFails \/ SkipCycle \/ MarketRead
    \/ \E answers \in Answers : VoteRaises(answers) \/ VoteSwap(answers) \/ VoteHold(answers)
    \/ QuoteFails \/ \E q \in Quotes : QuoteRead(q)
    \/ NextCycle

\* The steps behind a submission, which pycspr makes without a time limit.
SubmissionStep == SubmitSwap \/ SubmitRaises \/ LogAndRecord

LoopStep == TimedStep \/ SubmissionStep \/ \E b \in Balances : ReadBalance(b)

LoopNext == LoopStep \/ Shutdown \/ ProcessRestart

LoopSpec == LoopInit /\ [][LoopNext]_loopVars

\* Timers fire and time limits hold; a submission, which has none, may hang, and
\* nobody needs to stop or to start the process.
FairLoopSpec == LoopSpec /\ WF_loopVars(TimedStep \/ \E b \in Balances : ReadBalance(b))

-----------------------------------------------------------------------------
Hashes == 1..MaxDeploys
Statuses == {"idle", "connecting", "waiting_mcp", "observing", "deciding", "executing",
             "running", "stopped"}
Fates == {"pending", "executed", "reverted", "expired"}
VoteTallies == {t \in [SWAP : 0..Cardinality(Specialists), HOLD : 0..Cardinality(Specialists)] :
                  t.SWAP + t.HOLD <= Cardinality(Specialists)}
DeployType == [entry_point : {"execute_swap", "log_action"}, action : Actions,
               amount_in : Nat, amount_out : Nat,
               backers : 0..Cardinality(Specialists), fate : Fates]

StoreType == [status : Statuses, balance_cspr : Nat, scspr_balance_cspr : Nat,
              last_market_data : Nat, actions_taken : 0..MaxDeploys,
              last_tx_hash : Hashes \cup {NoHash}, errors : 0..ERROR_LIMIT,
              decision_history : Seq([action : Actions, deploy_hash : Hashes \cup {NoHash}]),
              last_swarm_result : VoteTallies]

LoopTypeOK ==
    /\ pc \in Connecting \cup InLoop \cup {"ended"}
    /\ cached_balance \in Nat \cup {Unread}
    /\ market_balance \in Nat
    /\ votes \in VoteTallies
    /\ decision \in [action : Actions, amount : Nat, amount_out : Nat]
    /\ deploy_hash \in Hashes \cup {NoHash}
    /\ store \in StoreType
    /\ Len(store.decision_history) <= HISTORY_LIMIT
    /\ deploys \in Seq(DeployType)
    /\ Len(deploys) <= MaxDeploys

SwapsAccepted == {h \in 1..Len(deploys) : deploys[h].entry_point = "execute_swap"}

\* The history the dashboard shows can be checked against the chain: the hash
\* beside a decision is that of a swap deploy for that very decision, no two
\* decisions show the same one, and the actions counted are swaps accepted.
HistoryMatchesDeploys ==
    LET history == store.decision_history
        hashed == {i \in 1..Len(history) : history[i].deploy_hash # NoHash}
    IN /\ \A i \in hashed : /\ history[i].deploy_hash \in SwapsAccepted
                            /\ deploys[history[i].deploy_hash].action = history[i].action
       /\ \A i, j \in hashed : i # j => history[i].deploy_hash # history[j].deploy_hash
       /\ store.actions_taken <= Cardinality(SwapsAccepted)

\* The agent goes on observing for ever, whatever its sources answer and however
\* often it is restarted: a failed cycle leads to the next, a refused connection
\* to another attempt and a crash to a new start.  The exceptions: every attempt
\* to connect fails for ever, a submission never returns (pycspr sets no time
\* limit), or the process is stopped, for good or over and over.
KeepsObserving ==
    \/ []<>(pc = "balance")
    \/ []<>(pc = "connecting") /\ []<>(pc \in {"retrying", "crashed"})
    \/ <>[](pc \in Submitting)
    \/ []<>(pc = "ended")

Published == [status |-> store.status, errors |-> IF store.errors = 0 THEN "none" ELSE "some",
              balance |-> store.balance_cspr, observed |-> store.last_market_data,
              position |-> store.scspr_balance_cspr,
              actions_taken |-> store.actions_taken, last_tx_hash |-> store.last_tx_hash,
              history |-> store.decision_history,
              swarm |-> store.last_swarm_result]

Feed == INSTANCE AgentFeed
          WITH feed <- Published, Hashes <- Hashes, Tallies <- VoteTallies,
               accepted <- {[hash |-> h, action |-> deploys[h].action] : h \in SwapsAccepted}

\* What the loop publishes, through failed cycles, lost answers, crashes and
\* restarts, is what the readers of /status are promised: nothing is decided upon
\* before it is observed, a swap in the history was accepted for that entry, and
\* money moves one way with enough votes and the other way without them.
ImplementsFeed == Feed!FeedSpec

=============================================================================
